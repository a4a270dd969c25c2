------------------------- MODULE MissionExecutionProofs -------------------------
(* Proofs about MissionExecution, for any number of processes, plans, lives of  *)
(* a process and edits by others, and for any steps and dependencies of a plan; *)
(* and about RecordStore, the files its records are kept in, for any number of  *)
(* calls, deaths and faults of the disk.                                        *)
EXTENDS MissionExecution, RecordStore, TLAPS, FiniteSetTheorems, SequenceTheorems, WellFoundedInduction

-------------------------------------------------------------------------------
(* What holds of the record of an execution, whichever section wrote it last.   *)

Begun(t) == t.status \in {"running", "retrying", "waiting-review"}
Owned(t) == t.owner # NoOwner

(* A step that has begun had its dependencies, and is the first that has them:  *)
(* no step before it can be taken until it is over.                             *)
InTurn(x, s) ==
  /\ Deps[s] \subseteq Finished(x)
  /\ \A t \in Step : t < s /\ x.step[t].status \in {"pending", "retrying"} => ~(Deps[t] \subseteq Finished(x))

OneAtATime(x) ==
  /\ \A s \in Step : Begun(x.step[s]) => InTurn(x, s)
  /\ \A s, t \in Step : Begun(x.step[s]) /\ Begun(x.step[t]) => s = t
  /\ \A s, t \in Step : Owned(x.step[s]) /\ Owned(x.step[t]) => s = t

Sound(x) ==
  /\ \A s \in Step : AcceptedStep(x.step[s])
  /\ \A s \in Step : x.step[s].status = "running" => Owned(x.step[s])
  /\ \A s \in Step : x.step[s].status = "stopped" => x.status = "cancelled"
  /\ \A s \in Step : x.step[s].status = "waiting-review" => x.status \in {"waiting-review", "blocked"}
  /\ x.status \in {"completed", "cancelled"} => x.active = 0 /\ \A s \in Step : ~Begun(x.step[s])
  /\ x.status = "completed" => Finished(x) = Step
  /\ x.status = "waiting-review" => x.active # 0 /\ x.step[x.active].status = "waiting-review"
  /\ OneAtATime(x)

-------------------------------------------------------------------------------
(* What a call knows at its place. *)
Marks == {"running", "waiting-review", "blocked", "completed"}

Placed(c) ==
  /\ call[c].at \in {"claiming", "marking", "cancelling"} => lock = c
  /\ call[c].at = "claiming" => call[c].plan \in 1 .. Len(base)
  /\ call[c].at = "marking" => call[c].exec # 0 /\ call[c].word \in Marks
  /\ call[c].at = "marking" /\ call[c].next = "claiming" => call[c].plan \in 1 .. Len(base)
  /\ call[c].at = "cancelling" => mission.status = "cancelled"

(* Where a call runs a step, or is about to, or has its result.                 *)
Works(c) ==
  \/ call[c].at \in {"running", "reporting"}
  \/ call[c].at = "marking" /\ call[c].next = "running"

StepOf(c) == Target(c).step[call[c].step]

(* An execution that no step goes on in. *)
Dormant(x) == x.status \in {"blocked", "cancelled"} /\ \A s \in Step : ~Owned(x.step[s])

(* It holds the claim, or the step was blocked under it.                        *)
HasStep(c) ==
  /\ call[c].exec # 0
  /\ \/ StepOf(c).owner = Me(c) /\ StepOf(c).status \in {"running", "stopped"}
     \/ StepOf(c).owner = NoOwner /\ StepOf(c).status = "blocked" /\ Dormant(Target(c))

Workers ==
  /\ \A c \in Call : Works(c) => HasStep(c)
  /\ \A c, d \in Call : c # d /\ Works(c) /\ Works(d) => Operation(c) # Operation(d)

(* What it reports, while the claim is its own, is what it found or did.        *)
Tells(rev, kind, at, operation) ==
  /\ kind = "inspection" => rev \subseteq {at}
  /\ kind = "workflow" => \E r \in 0 .. Revision : rev = {r}
  /\ kind = "edit" => \/ rev = {at}
                      \/ rev = {at + 1} /\ at < Revision /\ project[at + 1] = operation

Reported(c) ==
  call[c].at = "reporting" /\ call[c].word \in {"completed", "overspent"} /\ StepOf(c).owner = Me(c)
    => Tells(call[c].rev, Kind[call[c].step], Target(c).expected, Operation(c))

Reports == \A c \in Call : Reported(c)

(* Revisions that were read have existed. *)
Past ==
  /\ draft.base <= Revision
  /\ \A p \in DOMAIN base : base[p] <= Revision

(* An execution is cancelled after its Mission. *)
CancelsFirst == \A e \in DOMAIN execs : execs[e].status = "cancelled" => mission.status = "cancelled"

Records ==
  \A e \in DOMAIN execs :
    /\ execs[e].plan \in 1 .. Len(base) /\ Sound(execs[e])
    /\ base[execs[e].plan] <= execs[e].expected /\ execs[e].expected <= Revision

(* An edit is of a step that edits.  It comes after the revision its plan was   *)
(* made at; up to the expected revision its step is completed, beyond it no     *)
(* other step has an owner.                                                     *)
OwnEdits(edits, e, x, first) ==
  \A s \in Step, i \in DOMAIN edits : edits[i] = <<e, s>> =>
    /\ Kind[s] # "inspection"
    /\ first < i
    /\ i <= x.expected <=> x.step[s].status = "completed"
    /\ i > x.expected => \A t \in Step : Owned(x.step[t]) => t = s

(* Until a workflow has been completed, there is nobody else's in between. *)
Alone(edits, e, x, first) ==
  (\A s \in Finished(x) : Kind[s] # "workflow") =>
    \A i \in first + 1 .. x.expected : \E s \in Finished(x) : edits[i] = <<e, s>>

EditsAreOwn ==
  \A e \in DOMAIN execs :
    /\ OwnEdits(project, e, execs[e], base[execs[e].plan])
    /\ Alone(project, e, execs[e], base[execs[e].plan])

EditsAreOf ==
  \A i \in DOMAIN project : project[i] = <<0, 0>> \/ project[i] \in (DOMAIN execs) \X Step

NoneTwice == \A i, j \in DOMAIN project : project[i] = project[j] /\ project[i] # <<0, 0>> => i = j

MissionInv ==
  /\ TypeOK
  /\ \A c \in Call : Placed(c)
  /\ Workers /\ Reports /\ Past /\ CancelsFirst /\ Records
  /\ EditsAreOwn /\ EditsAreOf /\ NoneTwice

-------------------------------------------------------------------------------
(* The first of a set of steps. *)
LEMMA FirstIs ==
  ASSUME NEW S \in SUBSET Step, S # {}
  PROVE  First(S) \in S /\ \A t \in S : First(S) <= t
<1>1. S \subseteq Nat
  BY PlanAssumption DEF Step
<1> DEFINE R == {ss \in Nat \X Nat : ss[1] < ss[2]}
<1>2. IsWellFoundedOn(R, Nat)
  BY NatLessThanWellFounded DEF OpToRel
<1>3. PICK s \in S : \A t \in S : ~(<<t, s>> \in R)
  <2> HIDE DEF R
  <2>1. QED
    BY <1>1, <1>2, WFMin
<1>4. ASSUME NEW t \in S, t < s PROVE FALSE
  <2>1. <<t, s>> \in Nat \X Nat /\ <<t, s>>[1] < <<t, s>>[2]
    BY <1>1, <1>4
  <2>2. <<t, s>> \in R
    BY <2>1
  <2> HIDE DEF R
  <2>3. QED
    BY <2>2, <1>3
<1>5. \A t \in S : s <= t
  BY <1>1, <1>4
<1>6. QED
  BY <1>5 DEF First

-------------------------------------------------------------------------------
(* The record of an execution, changed in one step of its plan or in its status. *)

(* What a step's state may become when another is written: it keeps its owner,   *)
(* or loses it to be blocked or stopped.                                         *)
Passes(a, b) ==
  /\ b.status = "completed" <=> a.status = "completed"
  /\ b.owner \in {a.owner, NoOwner}
  /\ a.status = "blocked" => b.status = "blocked"
  /\ Owned(a) => \/ b.owner = a.owner /\ b.status \in {"running", "stopped"}
                 \/ b.owner = NoOwner /\ b.status = "blocked"

(* No step is completed and no claim made. *)
Gives(x, y) ==
  /\ y \in ExecState /\ Sound(y)
  /\ y.plan = x.plan /\ y.expected = x.expected
  /\ \A t \in Step : Passes(x.step[t], y.step[t])

(* The new state w of step s leaves the steps one at a time. *)
Fits(x, s, w) ==
  /\ x.step[s].status # "completed"
  /\ \A t \in Step : t # s /\ Begun(x.step[t]) => w.status \in {"blocked", "stopped"}
  /\ Begun(w) => InTurn(x, s)
  /\ Owned(w) => \A t \in Step : Owned(x.step[t]) => t = s

LEMMA StepFields ==
  ASSUME NEW t \in StepState
  PROVE  /\ t.status \in {"pending", "running", "waiting-review", "retrying", "completed", "blocked", "stopped"}
         /\ t.attempts \in 0 .. MaxAttempts
         /\ t.owner \in (Call \cup {Nobody}) \X Nat
         /\ t.checkpoint \in {"none", "pending", "approved", "rejected"}
BY DEF StepState

LEMMA StepReplaced ==
  ASSUME NEW x \in ExecState, NEW y \in ExecState, NEW s \in Step, NEW w \in StepState,
         OneAtATime(x), y.step = [x.step EXCEPT ![s] = w], Fits(x, s, w)
  PROVE  /\ OneAtATime(y)
         /\ Finished(y) = IF w.status = "completed" THEN Finished(x) \cup {s} ELSE Finished(x)
<1>1. x.step \in [Step -> StepState] /\ y.step \in [Step -> StepState]
  BY DEF ExecState
<1>2. y.step[s] = w /\ \A t \in Step : t # s => y.step[t] = x.step[t]
  BY <1>1
<1>3. Finished(y) = IF w.status = "completed" THEN Finished(x) \cup {s} ELSE Finished(x)
  BY <1>2 DEF Finished, Fits
<1>4. ASSUME NEW t \in Step, Begun(y.step[t]) PROVE InTurn(y, t)
  <2>1. CASE t = s
    <3>1. InTurn(x, s) /\ Finished(y) = Finished(x)
      BY <1>2, <1>3, <1>4, <2>1 DEF Fits, Begun
    <3>2. \A u \in Step : u < s => u # s
      BY PlanAssumption DEF Step
    <3>3. \A u \in Step : u < s => y.step[u] = x.step[u]
      BY <1>2, <3>2
    <3>4. QED
      BY <2>1, <3>1, <3>3 DEF InTurn
  <2>2. CASE t # s
    <3>1. Begun(x.step[t]) /\ w.status \in {"blocked", "stopped"}
      BY <1>2, <1>4, <2>2 DEF Fits
    <3>2. InTurn(x, t) /\ Finished(y) = Finished(x)
      BY <3>1, <1>3 DEF OneAtATime
    <3>3. QED
      BY <1>2, <3>1, <3>2 DEF InTurn
  <2>3. QED
    BY <2>1, <2>2
<1>5. \A t, u \in Step : Begun(y.step[t]) /\ Begun(y.step[u]) => t = u
  BY <1>2 DEF Fits, OneAtATime, Begun
<1>6. \A t, u \in Step : Owned(y.step[t]) /\ Owned(y.step[u]) => t = u
  BY <1>2 DEF Fits, OneAtATime
<1>7. QED
  BY <1>3, <1>4, <1>5, <1>6 DEF OneAtATime

Words == {"pending", "running", "retrying", "completed", "blocked", "stopped"}

LEMMA SetStepIs ==
  ASSUME NEW x \in ExecState, NEW s \in Step,
         NEW st \in Words
  PROVE  \E w \in StepState :
           /\ w.status = st /\ w.owner = NoOwner
           /\ w.attempts = x.step[s].attempts /\ w.checkpoint = x.step[s].checkpoint
           /\ SetStep(x, s, st) = [x EXCEPT !.step = [x.step EXCEPT ![s] = w]]
           /\ SetStep(x, s, st) \in ExecState
<1>1. x.step \in [Step -> StepState] /\ x.step[s] \in StepState
  BY DEF ExecState
<1> DEFINE w == [x.step[s] EXCEPT !.status = st, !.owner = NoOwner]
<1>2. w \in StepState /\ w.status = st /\ w.owner = NoOwner
      /\ w.attempts = x.step[s].attempts /\ w.checkpoint = x.step[s].checkpoint
  BY <1>1 DEF StepState, NoOwner, Words
<1>3. [x.step EXCEPT ![s] = w] \in [Step -> StepState]
  BY <1>1, <1>2
<1>4. SetStep(x, s, st) = [x EXCEPT !.step = [x.step EXCEPT ![s] = w]]
  BY <1>1 DEF SetStep, ExecState
<1> HIDE DEF w
<1>5. [x EXCEPT !.step = [x.step EXCEPT ![s] = w]] \in ExecState
  BY <1>3 DEF ExecState
<1>6. QED
  BY <1>2, <1>4, <1>5

LEMMA BlockedGives ==
  ASSUME NEW x \in ExecState, Sound(x), x.status # "cancelled"
  PROVE  Gives(x, Blocked(x)) /\ Blocked(x).status = "blocked"
<1> DEFINE z == [x EXCEPT !.status = "blocked", !.active = 0]
           y == Blocked(x)
<1>1. z \in ExecState /\ z.status = "blocked" /\ z.plan = x.plan /\ z.expected = x.expected /\ z.step = x.step
  BY DEF ExecState
<1>2. OneAtATime(z) /\ Finished(z) = Finished(x) /\ Unfinished(z) = Unfinished(x)
  BY <1>1 DEF Sound, OneAtATime, InTurn, Finished, Unfinished
<1>3. \A t \in Step : AcceptedStep(x.step[t]) /\ x.step[t].status # "stopped"
  BY DEF Sound
<1>4. CASE Unfinished(x) = {}
  <2>1. y = z
    BY <1>4 DEF Blocked
  <2>2. \A t \in Step : Passes(x.step[t], z.step[t])
    BY <1>1, <1>3 DEF Passes, AcceptedStep, Owned
  <2>3. Sound(z)
    BY <1>1, <1>2, <1>3 DEF Sound
  <2>4. QED
    BY <1>1, <2>1, <2>2, <2>3 DEF Gives
<1>5. CASE Unfinished(x) # {}
  <2> DEFINE s == First(Unfinished(x))
  <2>1. s \in Unfinished(x)
    BY <1>5, FirstIs DEF Unfinished
  <2>2. s \in Step /\ x.step[s].status # "completed"
    BY <2>1 DEF Unfinished, Finished
  <2>3. y = SetStep(z, s, "blocked")
    BY <1>5 DEF Blocked
  <2> HIDE DEF z, y, s
  <2>4. PICK w \in StepState :
          /\ w.status = "blocked" /\ w.owner = NoOwner
          /\ y = [z EXCEPT !.step = [z.step EXCEPT ![s] = w]]
          /\ y \in ExecState
    <3> z \in ExecState /\ s \in Step
      BY <1>1, <2>2
    <3>1. "blocked" \in Words
      BY DEF Words
    <3>2. \E w \in StepState :
            /\ w.status = "blocked" /\ w.owner = NoOwner
            /\ w.attempts = z.step[s].attempts /\ w.checkpoint = z.step[s].checkpoint
            /\ SetStep(z, s, "blocked") = [z EXCEPT !.step = [z.step EXCEPT ![s] = w]]
            /\ SetStep(z, s, "blocked") \in ExecState
      BY ONLY z \in ExecState, s \in Step, <3>1, SetStepIs
    <3>3. QED
      BY <2>3, <3>2
  <2>5. y.step = [x.step EXCEPT ![s] = w] /\ y.status = "blocked" /\ y.plan = x.plan /\ y.expected = x.expected
    BY <1>1, <2>4 DEF ExecState
  <2>6. Fits(z, s, w)
    BY <1>1, <2>2, <2>4 DEF Fits, Begun, Owned
  <2>7. OneAtATime(y)
    BY <1>1, <1>2, <2>2, <2>4, <2>5, <2>6, StepReplaced, ZenonT(40)
  <2>8. \A t \in Step : y.step[t] = IF t = s THEN w ELSE x.step[t]
    BY <2>2, <2>5 DEF ExecState
  <2>9. Sound(y)
    BY <1>3, <2>4, <2>5, <2>7, <2>8 DEF Sound, AcceptedStep
  <2>10. \A t \in Step : Passes(x.step[t], y.step[t])
    BY <1>3, <2>2, <2>4, <2>8 DEF Passes, AcceptedStep, Owned
  <2>11. QED
    BY <2>4, <2>5, <2>9, <2>10 DEF Gives, y
<1>6. QED
  BY <1>4, <1>5

LEMMA StoppedGives ==
  ASSUME NEW x \in ExecState, Sound(x)
  PROVE  Gives(x, Stopped(x)) /\ Stopped(x).status = "cancelled"
<1> DEFINE y == Stopped(x)
           w(t) == [x.step[t] EXCEPT !.status = "stopped",
                                     !.owner = IF x.step[t].status = "running" THEN @ ELSE NoOwner]
           f == [t \in Step |-> IF Begun(x.step[t]) THEN w(t) ELSE x.step[t]]
<1>1. x.step \in [Step -> StepState]
  BY DEF ExecState
<1>2. y = [x EXCEPT !.status = "cancelled", !.active = 0, !.step = f]
  BY DEF Stopped, Begun
<1>3. ASSUME NEW t \in Step
      PROVE  /\ f[t] \in StepState /\ AcceptedStep(f[t]) /\ ~Begun(f[t])
             /\ Passes(x.step[t], f[t])
  <2>1. x.step[t] \in StepState /\ AcceptedStep(x.step[t])
    BY <1>1 DEF Sound
  <2>2. CASE ~Begun(x.step[t])
    <3>1. f[t] = x.step[t]
      BY <2>2
    <3>2. QED
      BY <2>1, <2>2, <3>1 DEF Passes, AcceptedStep, Owned, Begun
  <2>3. CASE Begun(x.step[t])
    <3>1. f[t] = w(t)
      BY <2>3
    <3>2. /\ w(t) \in StepState /\ w(t).status = "stopped"
          /\ w(t).owner = IF x.step[t].status = "running" THEN x.step[t].owner ELSE NoOwner
      BY <2>1 DEF StepState, NoOwner
    <3> HIDE DEF w, f
    <3>3. QED
      BY <2>1, <2>3, <3>1, <3>2 DEF Passes, AcceptedStep, Owned, Begun
  <2>4. QED
    BY <2>2, <2>3
<1>4. f \in [Step -> StepState]
  BY <1>3
<1> HIDE DEF f, w, y
<1>5. y \in ExecState /\ y.status = "cancelled" /\ y.active = 0 /\ y.step = f
      /\ y.plan = x.plan /\ y.expected = x.expected
  BY <1>2, <1>4 DEF ExecState
<1>6. \A s, t \in Step : Owned(f[s]) /\ Owned(f[t]) => s = t
  BY <1>3 DEF Sound, OneAtATime, Passes, Owned
<1>7. Sound(y)
  BY <1>3, <1>5, <1>6 DEF Sound, OneAtATime, Begun
<1>8. QED
  BY <1>3, <1>5, <1>7 DEF Gives, y

LEMMA SetStepFields ==
  ASSUME NEW x \in ExecState, NEW s \in Step,
         NEW st \in Words
  PROVE  /\ SetStep(x, s, st) \in ExecState
         /\ SetStep(x, s, st).plan = x.plan /\ SetStep(x, s, st).expected = x.expected
         /\ SetStep(x, s, st).status = x.status /\ SetStep(x, s, st).active = x.active
         /\ SetStep(x, s, st).total = x.total
         /\ \E w \in StepState : /\ SetStep(x, s, st).step = [x.step EXCEPT ![s] = w]
                                 /\ w.status = st /\ w.owner = NoOwner
                                 /\ w.attempts = x.step[s].attempts /\ w.checkpoint = x.step[s].checkpoint
<1> DEFINE y == SetStep(x, s, st)
<1>1. PICK w \in StepState :
        /\ w.status = st /\ w.owner = NoOwner
        /\ w.attempts = x.step[s].attempts /\ w.checkpoint = x.step[s].checkpoint
        /\ SetStep(x, s, st) = [x EXCEPT !.step = [x.step EXCEPT ![s] = w]]
        /\ SetStep(x, s, st) \in ExecState
  BY SetStepIs
<1> DEFINE f == [x.step EXCEPT ![s] = w]
<1>2. y = [x EXCEPT !.step = f]
  BY <1>1
<1> HIDE DEF f, y
<1>3. y.plan = x.plan /\ y.expected = x.expected /\ y.status = x.status /\ y.active = x.active /\ y.total = x.total
      /\ y.step = f
  BY <1>2 DEF ExecState
<1>4. QED
  BY <1>1, <1>3 DEF y, f

LEMMA OwnedMeans ==
  ASSUME NEW x \in ExecState, Sound(x), NEW s \in Step, Owned(x.step[s])
  PROVE  /\ x.status \in {"running", "blocked", "cancelled"}
         /\ \/ x.step[s].status = "running" /\ x.status # "cancelled"
            \/ x.step[s].status = "stopped" /\ x.status = "cancelled"
         /\ \A t \in Step : t # s => ~Owned(x.step[t]) /\ ~Begun(x.step[t])
<1>1. x.step[s].status \in {"running", "stopped"}
  BY DEF Sound, AcceptedStep, Owned
<1>2. x.status \in {"running", "waiting-review", "blocked", "completed", "cancelled"} /\ x.active \in {0} \cup Step
  BY DEF ExecState
<1>3. CASE x.step[s].status = "running"
  <2>1. \A t \in Step : Begun(x.step[t]) => t = s
    BY <1>3 DEF Sound, OneAtATime, Begun
  <2>2. x.status \notin {"completed", "cancelled"}
    BY <1>3 DEF Sound, Begun
  <2>3. x.status # "waiting-review"
    BY <1>2, <1>3, <2>1 DEF Sound, Begun
  <2>4. QED
    BY <1>2, <1>3, <2>1, <2>2, <2>3 DEF Sound, OneAtATime
<1>4. CASE x.step[s].status = "stopped"
  BY <1>4 DEF Sound, OneAtATime
<1>5. QED
  BY <1>1, <1>3, <1>4

(* What a section writes of the step of its call when that is over: the claim    *)
(* goes, or stays behind in a blocked execution.                                *)
Ends(x, y, s) ==
  /\ y \in ExecState /\ Sound(y)
  /\ y.plan = x.plan
  /\ \A t \in Step : t # s => Passes(x.step[t], y.step[t])
  /\ y.step[s].owner \in {x.step[s].owner, NoOwner}

LEMMA GivesEnds ==
  ASSUME NEW x, NEW y, NEW z, NEW s \in Step, Ends(x, y, s), Gives(y, z), ~Owned(y.step[s]) \/ x = y
  PROVE  Ends(x, z, s) /\ z.expected = y.expected /\ (z.step[s].status = "completed" <=> y.step[s].status = "completed")
<1>1. \A t \in Step : Passes(y.step[t], z.step[t])
  BY DEF Gives
<1>2. z.step[s].owner \in {x.step[s].owner, NoOwner}
  BY <1>1 DEF Passes, Owned
<1>3. \A t \in Step : t # s => Passes(x.step[t], z.step[t])
  <2> SUFFICES ASSUME NEW t \in Step, t # s PROVE Passes(x.step[t], z.step[t])
    OBVIOUS
  <2>1. Passes(x.step[t], y.step[t]) /\ Passes(y.step[t], z.step[t])
    BY <1>1 DEF Ends
  <2>2. QED
    BY <2>1 DEF Passes, Owned
<1>4. QED
  BY <1>1, <1>2, <1>3 DEF Ends, Gives, Passes

LEMMA PassesItself ==
  ASSUME NEW x \in ExecState, Sound(x), NEW t \in Step
  PROVE  Passes(x.step[t], x.step[t])
<1>1. AcceptedStep(x.step[t])
  BY DEF Sound
<1>2. x.step[t].owner # NoOwner => x.step[t].status \in {"running", "stopped"}
  BY <1>1 DEF AcceptedStep
<1>3. QED
  BY <1>2 DEF Passes, Owned

-------------------------------------------------------------------------------
(* The records that the sections write. *)

AsCompleted(x, s, r) == [SetStep(x, s, "completed") EXCEPT !.expected = r, !.active = 0]

LEMMA CompletedRecord ==
  ASSUME NEW x \in ExecState, Sound(x), NEW s \in Step, Owned(x.step[s]), NEW r \in Nat
  PROVE  LET z == AsCompleted(x, s, r) IN
         /\ Ends(x, z, s) /\ z.expected = r /\ z.status = x.status /\ z.active = 0
         /\ z.step[s].status = "completed" /\ ~Owned(z.step[s])
         /\ \A t \in Step : ~Begun(z.step[t])
<1> DEFINE y == SetStep(x, s, "completed")
           z == AsCompleted(x, s, r)
<1> x.step \in [Step -> StepState]
  BY DEF ExecState
<1>1. "completed" \in Words
  BY DEF Words
<1>2. /\ y \in ExecState /\ y.plan = x.plan /\ y.status = x.status
      /\ \E w \in StepState : /\ y.step = [x.step EXCEPT ![s] = w]
                              /\ w.status = "completed" /\ w.owner = NoOwner
                              /\ w.attempts = x.step[s].attempts /\ w.checkpoint = x.step[s].checkpoint
  BY <1>1, SetStepFields, ZenonT(40)
<1>3. PICK w \in StepState : y.step = [x.step EXCEPT ![s] = w] /\ w.status = "completed" /\ w.owner = NoOwner
  BY <1>2
<1> z = [y EXCEPT !.expected = r, !.active = 0]
  BY DEF AsCompleted
<1> HIDE DEF y, z
<1>4. /\ z \in ExecState /\ z.step = [x.step EXCEPT ![s] = w] /\ z.plan = x.plan /\ z.status = x.status
      /\ z.expected = r /\ z.active = 0
  BY <1>2, <1>3 DEF ExecState
<1>5. /\ x.status \in {"running", "blocked", "cancelled"}
      /\ x.step[s].status \in {"running", "stopped"}
      /\ \A t \in Step : t # s => ~Owned(x.step[t]) /\ ~Begun(x.step[t])
  BY OwnedMeans
<1>6. Fits(x, s, w)
  BY <1>3, <1>5 DEF Fits, Begun, Owned
<1>7. OneAtATime(z)
  BY <1>4, <1>6, StepReplaced DEF Sound
<1>8. \A t \in Step : z.step[t] = IF t = s THEN w ELSE x.step[t]
  BY <1>4
<1>9. \A t \in Step : ~Begun(z.step[t])
  BY <1>3, <1>5, <1>8 DEF Begun
<1>10. Sound(z)
  BY <1>3, <1>4, <1>5, <1>7, <1>8, <1>9 DEF Sound, AcceptedStep, Begun
<1>11. \A t \in Step : t # s => Passes(x.step[t], z.step[t])
  BY <1>8, PassesItself
<1>12. QED
  BY <1>3, <1>4, <1>8, <1>9, <1>10, <1>11 DEF Ends, Owned, z

(* Where the execution goes on, or is over. *)
LEMMA RestingRecord ==
  ASSUME NEW z \in ExecState, Sound(z), z.status # "cancelled", z.active = 0,
         \A t \in Step : ~Begun(z.step[t])
  PROVE  LET y == [z EXCEPT !.status = IF Unfinished(z) = {} THEN "completed" ELSE "running"]
         IN  Gives(z, y) /\ y.step = z.step /\ y.status \in {"completed", "running"}
<1> DEFINE y == [z EXCEPT !.status = IF Unfinished(z) = {} THEN "completed" ELSE "running"]
<1>1. /\ y \in ExecState /\ y.step = z.step /\ y.plan = z.plan /\ y.expected = z.expected /\ y.active = 0
      /\ y.status = IF Unfinished(z) = {} THEN "completed" ELSE "running"
  BY DEF ExecState
<1> HIDE DEF y
<1>2. OneAtATime(y) /\ Finished(y) = Finished(z)
  BY <1>1 DEF Sound, OneAtATime, InTurn, Finished
<1>3. y.status = "completed" => Finished(y) = Step
  BY <1>1, <1>2 DEF Unfinished, Finished
<1>4. Sound(y)
  BY <1>1, <1>2, <1>3 DEF Sound, Begun
<1>5. \A t \in Step : Passes(z.step[t], y.step[t])
  BY <1>1, PassesItself
<1>6. QED
  BY <1>1, <1>4, <1>5 DEF Gives, y

(* The step of the call is over without being completed.                        *)
LEMMA UnverifiedRecord ==
  ASSUME NEW x \in ExecState, Sound(x), NEW s \in Step, Owned(x.step[s])
  PROVE  LET y == [SetStep(x, s, "blocked") EXCEPT !.status = "cancelled", !.active = 0]
         IN  Ends(x, y, s) /\ y.expected = x.expected /\ y.step[s].status # "completed"
<1> DEFINE y == SetStep(x, s, "blocked")
           z == [SetStep(x, s, "blocked") EXCEPT !.status = "cancelled", !.active = 0]
<1> x.step \in [Step -> StepState]
  BY DEF ExecState
<1>1. "blocked" \in Words
  BY DEF Words
<1>2. /\ y \in ExecState /\ y.plan = x.plan /\ y.expected = x.expected
      /\ \E w \in StepState : /\ y.step = [x.step EXCEPT ![s] = w]
                              /\ w.status = "blocked" /\ w.owner = NoOwner
                              /\ w.attempts = x.step[s].attempts /\ w.checkpoint = x.step[s].checkpoint
  BY <1>1, SetStepFields
<1>3. PICK w \in StepState : y.step = [x.step EXCEPT ![s] = w] /\ w.status = "blocked" /\ w.owner = NoOwner
  BY <1>2
<1> z = [y EXCEPT !.status = "cancelled", !.active = 0]
  OBVIOUS
<1> HIDE DEF y, z
<1>4. /\ z \in ExecState /\ z.step = [x.step EXCEPT ![s] = w] /\ z.plan = x.plan /\ z.status = "cancelled"
      /\ z.expected = x.expected /\ z.active = 0
  BY <1>2, <1>3 DEF ExecState
<1>5. /\ x.status \in {"running", "blocked", "cancelled"}
      /\ x.step[s].status \in {"running", "stopped"}
      /\ \A t \in Step : t # s => ~Owned(x.step[t]) /\ ~Begun(x.step[t])
  BY OwnedMeans
<1>6. Fits(x, s, w)
  BY <1>3, <1>5 DEF Fits, Begun, Owned
<1>7. OneAtATime(z)
  BY <1>4, <1>6, StepReplaced DEF Sound
<1>8. \A t \in Step : z.step[t] = IF t = s THEN w ELSE x.step[t]
  BY <1>4
<1>10. Sound(z)
  BY <1>3, <1>4, <1>5, <1>7, <1>8 DEF Sound, AcceptedStep, Begun
<1>11. \A t \in Step : t # s => Passes(x.step[t], z.step[t])
  BY <1>8, PassesItself
<1>12. QED
  BY <1>3, <1>4, <1>8, <1>10, <1>11 DEF Ends, Owned, z

LEMMA FailedRecord ==
  ASSUME NEW x \in ExecState, Sound(x), NEW s \in Step, Owned(x.step[s]), x.status # "cancelled"
  PROVE  LET y == [SetStep(x, s, "retrying") EXCEPT !.status = "running", !.active = s]
         IN  /\ Ends(x, y, s) /\ y.expected = x.expected /\ y.step[s].status # "completed"
             /\ ~Owned(y.step[s]) /\ y.status = "running"
<1> DEFINE y == SetStep(x, s, "retrying")
           z == [SetStep(x, s, "retrying") EXCEPT !.status = "running", !.active = s]
<1> x.step \in [Step -> StepState]
  BY DEF ExecState
<1>1. "retrying" \in Words
  BY DEF Words
<1>2. /\ y \in ExecState /\ y.plan = x.plan /\ y.expected = x.expected
      /\ \E w \in StepState : /\ y.step = [x.step EXCEPT ![s] = w]
                              /\ w.status = "retrying" /\ w.owner = NoOwner
                              /\ w.attempts = x.step[s].attempts /\ w.checkpoint = x.step[s].checkpoint
  BY <1>1, SetStepFields, ZenonT(40)
<1>3. PICK w \in StepState : y.step = [x.step EXCEPT ![s] = w] /\ w.status = "retrying" /\ w.owner = NoOwner
  BY <1>2
<1> z = [y EXCEPT !.status = "running", !.active = s]
  OBVIOUS
<1> HIDE DEF y, z
<1>4. /\ z \in ExecState /\ z.step = [x.step EXCEPT ![s] = w] /\ z.plan = x.plan /\ z.status = "running"
      /\ z.expected = x.expected
  BY <1>2, <1>3 DEF ExecState
<1>5. /\ x.step[s].status = "running"
      /\ \A t \in Step : t # s => ~Owned(x.step[t]) /\ ~Begun(x.step[t])
  BY OwnedMeans
<1>6. Fits(x, s, w)
  BY <1>3, <1>5 DEF Fits, Begun, Owned, Sound, OneAtATime
<1>7. OneAtATime(z)
  BY <1>4, <1>6, StepReplaced DEF Sound
<1>8. \A t \in Step : z.step[t] = IF t = s THEN w ELSE x.step[t]
  BY <1>4
<1>9. \A t \in Step : x.step[t].status # "stopped"
  BY DEF Sound
<1>10. Sound(z)
  BY <1>3, <1>4, <1>5, <1>7, <1>8, <1>9 DEF Sound, AcceptedStep, Begun
<1>11. \A t \in Step : t # s => Passes(x.step[t], z.step[t])
  BY <1>8, PassesItself
<1>12. QED
  BY <1>3, <1>4, <1>8, <1>10, <1>11 DEF Ends, Owned, z

LEMMA StrandedRecord ==
  ASSUME NEW x \in ExecState, Sound(x), NEW s \in Step, x.status = "cancelled"
  PROVE  LET y == [x EXCEPT !.step[s].owner = NoOwner]
         IN  /\ Ends(x, y, s) /\ y.expected = x.expected
             /\ (y.step[s].status = "completed" <=> x.step[s].status = "completed")
             /\ y.status = "cancelled"
<1> DEFINE w == [x.step[s] EXCEPT !.owner = NoOwner]
           y == [x EXCEPT !.step[s].owner = NoOwner]
           f == [x.step EXCEPT ![s] = w]
<1>1. x.step \in [Step -> StepState] /\ x.step[s] \in StepState
  BY DEF ExecState
<1>2. w \in StepState /\ w.status = x.step[s].status /\ w.owner = NoOwner /\ w.checkpoint = x.step[s].checkpoint
  BY <1>1 DEF StepState, NoOwner
<1>3. y = [x EXCEPT !.step = f]
  BY <1>1 DEF ExecState
<1>4. f \in [Step -> StepState] /\ \A t \in Step : f[t] = IF t = s THEN w ELSE x.step[t]
  BY <1>1, <1>2
<1> HIDE DEF w, y, f
<1>5. /\ y \in ExecState /\ y.step = f /\ y.plan = x.plan /\ y.expected = x.expected
      /\ y.status = "cancelled" /\ y.active = x.active
  BY <1>3, <1>4 DEF ExecState
<1>6. \A t \in Step : y.step[t].status = x.step[t].status /\ (Owned(y.step[t]) => Owned(x.step[t]))
  BY <1>2, <1>4, <1>5 DEF Owned
<1>7. \A t \in Step : ~Begun(y.step[t]) /\ y.step[t].status # "waiting-review" /\ AcceptedStep(y.step[t])
  BY <1>2, <1>4, <1>5, <1>6 DEF Sound, Begun, AcceptedStep
<1>8. Sound(y)
  BY <1>5, <1>6, <1>7 DEF Sound, OneAtATime, Begun
<1>9. \A t \in Step : t # s => Passes(x.step[t], y.step[t])
  BY <1>4, <1>5, PassesItself
<1>10. QED
  BY <1>2, <1>4, <1>5, <1>6, <1>8, <1>9 DEF Ends, y

(* A checkpoint is asked for, and answered. *)
LEMMA AskedRecord ==
  ASSUME NEW x \in ExecState, Sound(x), x.status = "running", NEW s \in Step, x.step[s].status \in {"pending", "retrying"},
         InTurn(x, s), \A t \in Step : t # s => ~Begun(x.step[t])
  PROVE  LET y == [SetStep(x, s, "waiting-review")
                     EXCEPT !.status = "waiting-review", !.active = s, !.step[s].checkpoint = "pending"]
         IN  /\ Ends(x, y, s) /\ y.expected = x.expected /\ y.step[s].status # "completed"
             /\ ~Owned(y.step[s]) /\ y.status = "waiting-review"
<1> DEFINE y == [SetStep(x, s, "waiting-review")
                   EXCEPT !.status = "waiting-review", !.active = s, !.step[s].checkpoint = "pending"]
           w == [x.step[s] EXCEPT !.status = "waiting-review", !.owner = NoOwner, !.checkpoint = "pending"]
           f == [x.step EXCEPT ![s] = w]
<1>1. x.step \in [Step -> StepState] /\ x.step[s] \in StepState
  BY DEF ExecState
<1>2. w \in StepState /\ w.status = "waiting-review" /\ w.owner = NoOwner /\ w.checkpoint = "pending"
  BY <1>1 DEF StepState, NoOwner
<1>3. y = [x EXCEPT !.status = "waiting-review", !.active = s, !.step = f]
  BY <1>1 DEF ExecState, SetStep
<1>4. f \in [Step -> StepState] /\ \A t \in Step : f[t] = IF t = s THEN w ELSE x.step[t]
  BY <1>1, <1>2
<1> HIDE DEF w, y, f
<1>5. /\ y \in ExecState /\ y.step = f /\ y.plan = x.plan /\ y.expected = x.expected
      /\ y.status = "waiting-review" /\ y.active = s
  BY <1>3, <1>4 DEF ExecState
<1>6. Fits(x, s, w)
  BY <1>2 DEF Fits, Owned
<1>7. OneAtATime(y)
  BY <1>2, <1>5, <1>6, StepReplaced DEF Sound, f
<1>8. s # 0 /\ \A t \in Step : x.step[t].status # "stopped"
  BY PlanAssumption DEF Sound, Step
<1>9. Sound(y)
  BY <1>2, <1>4, <1>5, <1>7, <1>8 DEF Sound, AcceptedStep
<1>10. \A t \in Step : t # s => Passes(x.step[t], y.step[t])
  BY <1>4, <1>5, PassesItself
<1>11. QED
  BY <1>2, <1>4, <1>5, <1>9, <1>10 DEF Ends, Owned, y

Answered(x, s, st, answer) ==
  [SetStep(x, s, st) EXCEPT !.status = IF st = "pending" THEN "running" ELSE "blocked", !.active = 0,
                            !.step[s].checkpoint = answer]

LEMMA AnsweredRecord ==
  ASSUME NEW x \in ExecState, Sound(x), NEW s \in Step, x.step[s].status = "waiting-review",
         NEW st \in {"pending", "blocked"}, NEW answer \in {"approved", "rejected"}
  PROVE  LET y == Answered(x, s, st, answer)
         IN  /\ Ends(x, y, s) /\ y.expected = x.expected /\ y.step[s].status # "completed"
             /\ ~Owned(y.step[s]) /\ y.status = IF st = "pending" THEN "running" ELSE "blocked"
<1> DEFINE y == Answered(x, s, st, answer)
           word == IF st = "pending" THEN "running" ELSE "blocked"
           w == [x.step[s] EXCEPT !.status = st, !.owner = NoOwner, !.checkpoint = answer]
           f == [x.step EXCEPT ![s] = w]
<1>1. x.step \in [Step -> StepState] /\ x.step[s] \in StepState
  BY DEF ExecState
<1>2. w \in StepState /\ w.status = st /\ w.owner = NoOwner
  BY <1>1 DEF StepState, NoOwner
<1>3. y = [x EXCEPT !.status = word, !.active = 0, !.step = f]
  BY <1>1 DEF ExecState, SetStep, Answered
<1>4. f \in [Step -> StepState] /\ \A t \in Step : f[t] = IF t = s THEN w ELSE x.step[t]
  BY <1>1, <1>2
<1>5. word \in {"running", "blocked"}
  OBVIOUS
<1> HIDE DEF w, y, f, word
<1>6. /\ y \in ExecState /\ y.step = f /\ y.plan = x.plan /\ y.expected = x.expected
      /\ y.status = word /\ y.active = 0
  BY <1>3, <1>4, <1>5 DEF ExecState
<1>7. \A t \in Step : t # s => ~Begun(x.step[t])
  BY DEF Sound, OneAtATime, Begun
<1>8. Fits(x, s, w)
  BY <1>2, <1>7 DEF Fits, Owned, Begun
<1>9. OneAtATime(y)
  BY <1>6, <1>8, <1>2, StepReplaced DEF Sound, f
<1>10. \A t \in Step : x.step[t].status # "stopped"
  BY DEF Sound
<1>11. Sound(y)
  BY <1>2, <1>4, <1>5, <1>6, <1>7, <1>9, <1>10 DEF Sound, AcceptedStep, Begun
<1>12. \A t \in Step : t # s => Passes(x.step[t], y.step[t])
  BY <1>4, <1>6, PassesItself
<1>13. QED
  BY <1>2, <1>4, <1>6, <1>11, <1>12 DEF Ends, Owned, y, word

(* A claim, and a claim taken over from a process that died. *)
Claimed(x, s, o) ==
  [x EXCEPT !.total = @ + 1, !.active = s, !.step[s].attempts = @ + 1, !.step[s].status = "running", !.step[s].owner = o]

Takes(x, y, s, o) ==
  /\ y \in ExecState /\ Sound(y)
  /\ y.plan = x.plan /\ y.expected = x.expected /\ y.status = "running"
  /\ \A t \in Step : t # s => Passes(x.step[t], y.step[t])
  /\ y.step[s].owner = o /\ y.step[s].status = "running"
  /\ \A t \in Step : t # s => ~Owned(x.step[t])

LEMMA RunnableIsNext ==
  ASSUME NEW x \in ExecState, Sound(x), x.status = "running", Working(x) = {},
         NEW s \in Step, Runnable(x) # {}, s = First(Runnable(x))
  PROVE  /\ x.step[s].status \in {"pending", "retrying"} /\ InTurn(x, s)
         /\ \A t \in Step : t # s => ~Begun(x.step[t])
         /\ \A t \in Step : ~Owned(x.step[t])
<1>1. s \in Runnable(x) /\ \A t \in Runnable(x) : s <= t
  BY FirstIs DEF Runnable
<1>2. Step \subseteq Nat
  BY PlanAssumption DEF Step
<1>3. x.step[s].status \in {"pending", "retrying"} /\ Deps[s] \subseteq Finished(x)
  BY <1>1 DEF Runnable
<1>4. InTurn(x, s)
  BY <1>1, <1>2, <1>3 DEF InTurn, Runnable
<1>5. ASSUME NEW t \in Step, Begun(x.step[t]), t # s PROVE FALSE
  <2>1. x.step[t].status = "retrying"
    BY <1>5 DEF Begun, Working, Sound
  <2>2. InTurn(x, t)
    BY <1>5 DEF Sound, OneAtATime
  <2>3. t \in Runnable(x)
    BY <2>1, <2>2 DEF InTurn, Runnable
  <2>4. s < t
    BY <1>1, <1>2, <1>5, <2>3
  <2>5. QED
    BY <1>3, <2>2, <2>4 DEF InTurn
<1>6. \A t \in Step : ~Owned(x.step[t])
  BY OwnedMeans DEF Working
<1>7. QED
  BY <1>3, <1>4, <1>5, <1>6

LEMMA ClaimedRecord ==
  ASSUME NEW x \in ExecState, Sound(x), x.status = "running", NEW s \in Step,
         x.step[s].status \in {"pending", "retrying"}, InTurn(x, s),
         \A t \in Step : t # s => ~Begun(x.step[t]),
         \A t \in Step : ~Owned(x.step[t]),
         ~OverBudget(x, s), NEW o \in Call \X Nat
  PROVE  Takes(x, Claimed(x, s, o), s, o)
<1> DEFINE y == Claimed(x, s, o)
           w == [x.step[s] EXCEPT !.attempts = @ + 1, !.status = "running", !.owner = o]
           f == [x.step EXCEPT ![s] = w]
<1>1. x.step \in [Step -> StepState] /\ x.step[s] \in StepState
  BY DEF ExecState
<1>2. x.step[s].attempts \in 0 .. MaxAttempts /\ x.step[s].attempts < MaxAttempts
      /\ x.total \in 0 .. MaxTotal /\ x.total < MaxTotal
  BY <1>1, BoundAssumption DEF OverBudget, StepState, ExecState
<1>14. x.step[s].attempts + 1 \in 0 .. MaxAttempts
  BY <1>2, BoundAssumption
<1>3. w \in StepState /\ w.status = "running" /\ w.owner = o
  BY <1>1, <1>14 DEF StepState
<1>4. y = [x EXCEPT !.total = @ + 1, !.active = s, !.step = f]
  BY <1>1, ZenonT(40) DEF ExecState, Claimed
<1>5. f \in [Step -> StepState] /\ \A t \in Step : f[t] = IF t = s THEN w ELSE x.step[t]
  BY <1>1, <1>3
<1>6. x.total + 1 \in 0 .. MaxTotal
  BY <1>2, BoundAssumption
<1> HIDE DEF w, y, f
<1>7. /\ y \in ExecState /\ y.step = f /\ y.plan = x.plan /\ y.expected = x.expected
      /\ y.status = "running"
  BY <1>4, <1>5, <1>6 DEF ExecState
<1>8. Fits(x, s, w)
  BY <1>3 DEF Fits, Owned
<1>9. OneAtATime(y)
  BY <1>3, <1>7, <1>8, StepReplaced DEF Sound, f
<1>10. \A t \in Step : x.step[t].status \notin {"stopped", "waiting-review"}
  BY DEF Sound
<1>15. Owned(w)
  BY <1>3, NobodyAssumption DEF Owned, NoOwner
<1>16. \A t \in Step : y.step[t].status = "running" => Owned(y.step[t])
  BY <1>5, <1>7, <1>15 DEF Sound
<1>11. Sound(y)
  BY <1>3, <1>5, <1>7, <1>9, <1>10, <1>16 DEF Sound, AcceptedStep
<1>12. \A t \in Step : t # s => Passes(x.step[t], y.step[t])
  BY <1>5, <1>7, PassesItself
<1>13. QED
  BY <1>3, <1>5, <1>7, <1>11, <1>12 DEF Takes, y

LEMMA TakenRecord ==
  ASSUME NEW x \in ExecState, Sound(x), x.status = "running", NEW s \in Step,
         x.step[s].status = "running", NEW o \in Call \X Nat
  PROVE  Takes(x, [x EXCEPT !.step[s].owner = o], s, o)
<1> DEFINE y == [x EXCEPT !.step[s].owner = o]
           w == [x.step[s] EXCEPT !.owner = o]
           f == [x.step EXCEPT ![s] = w]
<1>1. x.step \in [Step -> StepState] /\ x.step[s] \in StepState
  BY DEF ExecState
<1>3. w \in StepState /\ w.status = "running" /\ w.owner = o
  BY <1>1 DEF StepState
<1>4. y = [x EXCEPT !.step = f]
  BY <1>1 DEF ExecState
<1>5. f \in [Step -> StepState] /\ \A t \in Step : f[t] = IF t = s THEN w ELSE x.step[t]
  BY <1>1, <1>3
<1> HIDE DEF w, y, f
<1>7. /\ y \in ExecState /\ y.step = f /\ y.plan = x.plan /\ y.expected = x.expected
      /\ y.status = "running"
  BY <1>4, <1>5 DEF ExecState
<1>6. \A t \in Step : t # s => ~Begun(x.step[t]) /\ x.step[t].status # "running"
  BY DEF Sound, OneAtATime, Begun
<1>10. \A t \in Step : x.step[t].status \notin {"stopped", "waiting-review"}
  BY DEF Sound
<1>2. \A t \in Step : t # s => ~Owned(x.step[t])
  BY <1>6, <1>10 DEF Sound, AcceptedStep, Owned
<1>8. Fits(x, s, w)
  BY <1>2, <1>3, <1>6 DEF Fits, Owned, Sound, OneAtATime, Begun
<1>9. OneAtATime(y)
  BY <1>3, <1>7, <1>8, StepReplaced DEF Sound, f
<1>15. Owned(w)
  BY <1>3, NobodyAssumption DEF Owned, NoOwner
<1>16. \A t \in Step : y.step[t].status = "running" => Owned(y.step[t])
  BY <1>5, <1>7, <1>15 DEF Sound
<1>11. Sound(y)
  BY <1>3, <1>5, <1>7, <1>9, <1>10, <1>16 DEF Sound, AcceptedStep
<1>12. \A t \in Step : t # s => Passes(x.step[t], y.step[t])
  BY <1>5, <1>7, PassesItself
<1>13. QED
  BY <1>2, <1>3, <1>5, <1>7, <1>11, <1>12 DEF Takes, y

LEMMA CreatedRecord ==
  ASSUME NEW p \in Nat, NEW b \in Nat
  PROVE  LET x == [plan |-> p, expected |-> b, status |-> "running",
                   active |-> 0, total |-> 0, step |-> [s \in Step |-> NotStarted]]
         IN  x \in ExecState /\ Sound(x)
<1>1. NotStarted \in StepState
  BY BoundAssumption DEF NotStarted, StepState
<1>2. [s \in Step |-> NotStarted] \in [Step -> StepState]
  BY <1>1
<1>3. 0 \in 0 .. MaxTotal
  BY BoundAssumption
<1>4. QED
  BY <1>2, <1>3 DEF ExecState, Sound, OneAtATime, AcceptedStep, Begun, Owned, NotStarted, NoOwner

-------------------------------------------------------------------------------
(* The edits of the project, as an execution changes, and as the project does.   *)
LEMMA QuietBuild ==
  ASSUME NEW edits \in Seq(Nat \X Nat), NEW e, NEW first, NEW x \in ExecState, NEW y \in ExecState,
         OwnEdits(edits, e, x, first), Alone(edits, e, x, first),
         y.expected = x.expected,
         \A t \in Step : y.step[t].status = "completed" <=> x.step[t].status = "completed",
         (\A t \in Step : Owned(y.step[t]) => Owned(x.step[t])) \/ \A i \in DOMAIN edits : i <= x.expected
  PROVE  OwnEdits(edits, e, y, first) /\ Alone(edits, e, y, first)
<1>1. Finished(y) = Finished(x)
  BY DEF Finished
<1>2. Alone(edits, e, y, first)
  BY <1>1 DEF Alone
<1>3. ASSUME NEW s \in Step, NEW i \in DOMAIN edits, edits[i] = <<e, s>>
      PROVE  /\ Kind[s] # "inspection" /\ first < i
             /\ i <= y.expected <=> y.step[s].status = "completed"
             /\ i > y.expected => \A t \in Step : Owned(y.step[t]) => t = s
  <2>1. /\ Kind[s] # "inspection" /\ first < i
        /\ i <= x.expected <=> x.step[s].status = "completed"
        /\ i > x.expected => \A t \in Step : Owned(x.step[t]) => t = s
    BY <1>3 DEF OwnEdits
  <2>2. CASE \A t \in Step : Owned(y.step[t]) => Owned(x.step[t])
    BY <2>1, <2>2
  <2>3. CASE \A j \in DOMAIN edits : j <= x.expected
    <3>1. i <= x.expected
      BY <2>3
    <3>2. x.step[s].status = "completed"
      BY <2>1, <3>1
    <3>3. ~(i > y.expected)
      BY <3>1 DEF ExecState
    <3>4. QED
      BY <2>1, <3>1, <3>2, <3>3
  <2>4. QED
    BY <2>2, <2>3
<1>4. QED
  BY <1>2, <1>3 DEF OwnEdits

LEMMA CompletedBuild ==
  ASSUME NEW edits \in Seq(Nat \X Nat), NEW e, NEW first \in Nat, NEW x \in ExecState, NEW y \in ExecState,
         NEW s \in Step, Sound(x), Owned(x.step[s]),
         OwnEdits(edits, e, x, first), Alone(edits, e, x, first),
         y.step[s].status = "completed",
         \A t \in Step : t # s => (y.step[t].status = "completed" <=> x.step[t].status = "completed"),
         \A t \in Step : Owned(y.step[t]) => Owned(x.step[t]),
         \/ y.expected = x.expected /\ Kind[s] = "inspection"
         \/ y.expected = Len(edits) /\ Kind[s] = "workflow" /\ x.expected <= Len(edits)
         \/ y.expected = Len(edits) /\ Kind[s] = "edit" /\ y.expected = x.expected
         \/ y.expected = Len(edits) /\ Kind[s] = "edit" /\ y.expected = x.expected + 1 /\ edits[Len(edits)] = <<e, s>>
  PROVE  OwnEdits(edits, e, y, first) /\ Alone(edits, e, y, first)
<1>1. Finished(y) = Finished(x) \cup {s}
  BY DEF Finished
<1>2. x.expected \in Nat /\ y.expected \in Nat /\ y.expected >= x.expected /\ DOMAIN edits = 1 .. Len(edits) /\ Len(edits) \in Nat
  BY DEF ExecState
<1>3. Alone(edits, e, y, first)
  <2> SUFFICES ASSUME \A t \in Finished(y) : Kind[t] # "workflow", NEW i \in first + 1 .. y.expected
               PROVE  \E t \in Finished(y) : edits[i] = <<e, t>>
    BY DEF Alone
  <2>1. Kind[s] # "workflow" /\ \A t \in Finished(x) : Kind[t] # "workflow"
    BY <1>1
  <2>2. CASE i <= x.expected
    <3>1. i \in first + 1 .. x.expected
      BY <2>2, <1>2
    <3>2. \E t \in Finished(x) : edits[i] = <<e, t>>
      BY <2>1, <3>1 DEF Alone
    <3>3. QED
      BY <3>2, <1>1
  <2>3. CASE i > x.expected
    <3>3. i <= y.expected /\ i \in Int
      BY <1>2
    <3>4. y.expected # x.expected
      BY <1>2, <2>3, <3>3
    <3>5. y.expected = Len(edits) /\ y.expected = x.expected + 1 /\ edits[Len(edits)] = <<e, s>>
      BY <2>1, <3>4
    <3>1. i = Len(edits) /\ edits[Len(edits)] = <<e, s>>
      BY <1>2, <2>3, <3>3, <3>5
    <3>2. QED
      BY <3>1, <1>1
  <2>4. QED
    BY <1>2, <2>2, <2>3, SMTT(30)
<1>4. ASSUME NEW t \in Step, NEW i \in DOMAIN edits, edits[i] = <<e, t>>
      PROVE  /\ Kind[t] # "inspection" /\ first < i
             /\ i <= y.expected <=> y.step[t].status = "completed"
             /\ i > y.expected => \A u \in Step : Owned(y.step[u]) => u = t
  <2>1. /\ Kind[t] # "inspection" /\ first < i
        /\ i <= x.expected <=> x.step[t].status = "completed"
        /\ i > x.expected => \A u \in Step : Owned(x.step[u]) => u = t
    BY <1>4 DEF OwnEdits
  <2>2. x.step[s].status # "completed"
    BY OwnedMeans
  <2>3. i > x.expected => t = s
    BY <2>1
  <2>4. i \in Nat /\ i <= Len(edits)
    BY <1>2
  <2>5. CASE Kind[s] = "inspection"
    <3>1. y.expected = x.expected /\ t # s
      BY <2>1, <2>5
    <3>2. QED
      BY <2>1, <3>1
  <2>6. CASE Kind[s] # "inspection"
    <3>1. i <= y.expected
      BY <2>4, <2>6
    <3>2. y.step[t].status = "completed"
      <4>1. CASE t = s
        BY <4>1
      <4>2. CASE t # s
        BY <4>2, <2>1, <2>3, <2>4, <1>2
      <4>3. QED
        BY <4>1, <4>2
    <3>3. QED
      BY <2>1, <2>4, <1>2, <3>1, <3>2
  <2>7. QED
    BY <2>5, <2>6
<1>5. QED
  BY <1>3, <1>4 DEF OwnEdits

(* The project gains an edit at its end. *)
LEMMA AppendedLast ==
  ASSUME NEW q \in Seq(Nat \X Nat), NEW o \in Nat \X Nat
  PROVE  /\ Append(q, o) \in Seq(Nat \X Nat) /\ Len(Append(q, o)) = Len(q) + 1 /\ Len(q) \in Nat
         /\ DOMAIN q = 1 .. Len(q) /\ DOMAIN Append(q, o) = 1 .. Len(q) + 1
         /\ \A i \in 1 .. Len(q) : Append(q, o)[i] = q[i]
         /\ Append(q, o)[Len(q) + 1] = o
OBVIOUS

LEMMA ForeignBuild ==
  ASSUME NEW edits \in Seq(Nat \X Nat), NEW o \in Nat \X Nat, NEW e, NEW first \in Nat, NEW x \in ExecState,
         x.expected <= Len(edits), \A s \in Step : o # <<e, s>>,
         OwnEdits(edits, e, x, first), Alone(edits, e, x, first)
  PROVE  OwnEdits(Append(edits, o), e, x, first) /\ Alone(Append(edits, o), e, x, first)
<1> DEFINE more == Append(edits, o)
<1>1. /\ Len(edits) \in Nat /\ DOMAIN edits = 1 .. Len(edits) /\ DOMAIN more = 1 .. Len(edits) + 1
      /\ \A i \in 1 .. Len(edits) : more[i] = edits[i]
      /\ more[Len(edits) + 1] = o
  BY AppendedLast
<1>2. x.expected \in Nat
  BY DEF ExecState
<1> HIDE DEF more
<1>3. \A i \in first + 1 .. x.expected : more[i] = edits[i]
  BY <1>1, <1>2, SMTT(30)
<1>7. Alone(more, e, x, first)
  BY <1>3 DEF Alone
<1>4. \A s \in Step, i \in DOMAIN more : more[i] = <<e, s>> => i \in DOMAIN edits /\ edits[i] = <<e, s>>
  BY <1>1
<1>5. OwnEdits(more, e, x, first)
  BY <1>4 DEF OwnEdits
<1>6. QED
  BY <1>7, <1>5 DEF more

LEMMA OwnBuild ==
  ASSUME NEW edits \in Seq(Nat \X Nat), NEW e \in Nat, NEW first \in Nat, NEW x \in ExecState, NEW s \in Step,
         x.expected = Len(edits), first <= x.expected, Kind[s] # "inspection", x.step[s].status # "completed",
         \A t \in Step : Owned(x.step[t]) => t = s,
         OwnEdits(edits, e, x, first), Alone(edits, e, x, first)
  PROVE  OwnEdits(Append(edits, <<e, s>>), e, x, first) /\ Alone(Append(edits, <<e, s>>), e, x, first)
<1> DEFINE more == Append(edits, <<e, s>>)
<1> <<e, s>> \in Nat \X Nat
  BY PlanAssumption DEF Step
<1>1. /\ Len(edits) \in Nat /\ DOMAIN edits = 1 .. Len(edits) /\ DOMAIN more = 1 .. Len(edits) + 1
      /\ \A i \in 1 .. Len(edits) : more[i] = edits[i]
      /\ more[Len(edits) + 1] = <<e, s>>
  BY AppendedLast
<1> HIDE DEF more
<1>6. \A i \in first + 1 .. x.expected : more[i] = edits[i]
  BY <1>1
<1>2. Alone(more, e, x, first)
  BY <1>6 DEF Alone
<1>3. ASSUME NEW t \in Step, NEW i \in DOMAIN more, more[i] = <<e, t>>
      PROVE  /\ Kind[t] # "inspection" /\ first < i
             /\ i <= x.expected <=> x.step[t].status = "completed"
             /\ i > x.expected => \A u \in Step : Owned(x.step[u]) => u = t
  <2>1. CASE i = Len(edits) + 1
    <3>1. t = s
      BY <1>1, <1>3, <2>1
    <3>2. QED
      BY <1>1, <2>1, <3>1
  <2>2. CASE i # Len(edits) + 1
    <3>1. i \in DOMAIN edits /\ edits[i] = <<e, t>>
      BY <1>1, <1>3, <2>2, SMTT(30)
    <3>2. QED
      BY <3>1 DEF OwnEdits
  <2>3. QED
    BY <2>1, <2>2
<1>4. OwnEdits(more, e, x, first)
  BY <1>3 DEF OwnEdits
<1>5. QED
  BY <1>2, <1>4 DEF more

-------------------------------------------------------------------------------
(* What a step leaves as it was. *)
Ats == {"idle", "claiming", "marking", "running", "reporting", "cancelling"}
CallWords == {"", "running", "waiting-review", "blocked", "completed", "overspent", "retryable"}
Nexts == {"idle", "claiming", "running"}
CallState(n, r) ==
  [at : Ats, plan : Nat, exec : 0 .. n, step : Step, word : CallWords, rev : SUBSET (0 .. r), next : Nexts]

DraftState == [base : Nat, status : {"", "draft", "ready", "blocked"}, plan : Nat]

LEMMA Typed ==
  TypeOK <=>
    /\ mission \in MissionState /\ mission.plan <= Len(base) /\ mission.exec <= Len(execs)
    /\ base \in Seq(Nat) /\ execs \in Seq(ExecState) /\ project \in Seq(Nat \X Nat)
    /\ draft \in DraftState
    /\ lock \in Call \cup {Nobody} /\ life \in [Call -> Nat]
    /\ call \in [Call -> CallState(Len(execs), Revision)]
    /\ torn \in BOOLEAN
BY Zenon DEF TypeOK, CallState, Ats, CallWords, Nexts, DraftState

LEMMA TypedNext ==
  TypeOK' <=>
    /\ mission' \in MissionState /\ mission'.plan <= Len(base') /\ mission'.exec <= Len(execs')
    /\ base' \in Seq(Nat) /\ execs' \in Seq(ExecState) /\ project' \in Seq(Nat \X Nat)
    /\ draft' \in DraftState
    /\ lock' \in Call \cup {Nobody} /\ life' \in [Call -> Nat]
    /\ call' \in [Call -> CallState(Len(execs'), Revision')]
    /\ torn' \in BOOLEAN
BY Zenon DEF TypeOK, CallState, Ats, CallWords, Nexts, DraftState

LEMMA CallsTyped ==
  ASSUME NEW n \in Nat, NEW m \in Nat, NEW r \in Nat, NEW q \in Nat, n <= m, r <= q,
         call \in [Call -> CallState(n, r)]
  PROVE  /\ call \in [Call -> CallState(m, q)]
         /\ \A c \in Call, w \in CallState(m, q) : [call EXCEPT ![c] = w] \in [Call -> CallState(m, q)]
<1>1. 0 .. n \subseteq 0 .. m /\ SUBSET (0 .. r) \subseteq SUBSET (0 .. q)
  OBVIOUS
<1>2. ASSUME NEW w \in CallState(n, r) PROVE w \in CallState(m, q)
  BY <1>1 DEF CallState
<1>3. QED
  BY <1>2

LockMoves(c) == lock' = lock \/ (lock \in {c, Nobody} /\ lock' \in {c, Nobody})

LEMMA OthersStay ==
  ASSUME MissionInv, NEW c \in Call, NEW w, call' = [call EXCEPT ![c] = w], LockMoves(c),
         mission.status = "cancelled" => mission'.status = "cancelled",
         base' \in Seq(Nat), Len(base) <= Len(base'),
         NEW d \in Call, d # c
  PROVE  call'[d] = call[d] /\ Placed(d)'
<1>1. call'[d] = call[d]
  BY DEF MissionInv, TypeOK
<1>2. Placed(d)
  BY DEF MissionInv
<1>3. call[d].at \in {"claiming", "marking", "cancelling"} => lock' = d
  BY <1>2, NobodyAssumption DEF Placed, LockMoves
<1>6. base \in Seq(Nat)
  BY Typed DEF MissionInv
<1>4. 1 .. Len(base) \subseteq 1 .. Len(base')
  <2>1. Len(base) \in Nat /\ Len(base') \in Nat
    BY <1>6
  <2>2. QED
    BY <2>1
<1>5. QED
  BY <1>1, <1>2, <1>3, <1>4 DEF Placed

-------------------------------------------------------------------------------
(* A section writes the record of one execution, and of the step s in it.       *)

(* It puts the execution to rest; or nobody else has a claim in it. *)
SparesOthers(x, y, s) ==
  \/ y.status \in {"blocked", "cancelled"} /\ \A t \in Step : Owned(y.step[t]) => Owned(x.step[t])
  \/ ~Dormant(x) /\ \A t \in Step : t # s => ~Owned(x.step[t])

(* The claim of another call, as the record of its execution is written.         *)
LEMMA OtherKeepsStep ==
  ASSUME MissionInv, NEW e \in DOMAIN execs, NEW y \in ExecState, NEW s,
         execs' = [execs EXCEPT ![e] = y], life' = life,
         \A t \in Step : t # s => Passes(execs[e].step[t], y.step[t]),
         SparesOthers(execs[e], y, s),
         NEW d \in Call, call'[d] = call[d], Works(d), Operation(d) # <<e, s>>
  PROVE  /\ HasStep(d)'
         /\ (StepOf(d).owner = Me(d))' => (StepOf(d).owner = Me(d) /\ call[d].step # s) \/ call[d].exec # e
<1>1. execs \in Seq(ExecState) /\ call[d] \in CallState(Len(execs), Revision)
  BY Typed DEF MissionInv
<1>2. HasStep(d)
  BY DEF MissionInv, Workers
<1>3. call[d].exec \in DOMAIN execs /\ call[d].step \in Step
  BY <1>1, <1>2 DEF CallState, HasStep
<1> DEFINE f == call[d].exec
           t == call[d].step
           x == execs[e]
<1>4. Me(d)' = Me(d) /\ Me(d) # NoOwner
  BY NobodyAssumption DEF Me, NoOwner
<1>5. /\ StepOf(d) = execs[f].step[t] /\ Target(d) = execs[f]
      /\ execs'[f] = IF f = e THEN y ELSE execs[f]
  BY <1>1, <1>3 DEF StepOf, Target
<1>6. /\ StepOf(d)' = IF f = e THEN y.step[t] ELSE execs[f].step[t]
      /\ Target(d)' = IF f = e THEN y ELSE execs[f]
  BY <1>5 DEF StepOf, Target
<1>7. CASE f # e
  <2>1. HasStep(d)'
    BY <1>2, <1>4, <1>5, <1>6, <1>7 DEF HasStep, Dormant
  <2>2. QED
    BY <1>7, <2>1
<1>8. CASE f = e
  <2>1. t # s /\ Target(d) = x /\ Target(d)' = y /\ StepOf(d) = x.step[t] /\ StepOf(d)' = y.step[t]
    BY <1>5, <1>6, <1>8 DEF Operation
  <2>2. Passes(x.step[t], y.step[t])
    BY <1>3, <2>1
  <2>3. \A u \in Step : Owned(x.step[u]) /\ Owned(x.step[t]) => u = t
    BY <1>3 DEF MissionInv, Records, Sound, OneAtATime
  <2>4. CASE StepOf(d).owner = Me(d) /\ StepOf(d).status \in {"running", "stopped"}
    <3>1. Owned(x.step[t])
      BY <1>4, <2>1, <2>4 DEF Owned
    <3>2. y.status \in {"blocked", "cancelled"} /\ \A u \in Step : Owned(y.step[u]) => u = t
      BY <1>3, <2>1, <2>3, <3>1 DEF SparesOthers
    <3>3. ~Owned(y.step[t]) => Dormant(y)
      BY <3>2 DEF Dormant
    <3>4. HasStep(d)'
      BY <1>2, <1>4, <2>1, <2>2, <2>4, <3>1, <3>3 DEF HasStep, Passes, Owned
    <3>5. QED
      BY <2>1, <2>4, <3>4
  <2>5. CASE StepOf(d).owner = NoOwner /\ StepOf(d).status = "blocked" /\ Dormant(x)
    <3>1. Dormant(y)
      BY <2>5 DEF SparesOthers, Dormant
    <3>2. y.step[t].owner = NoOwner /\ y.step[t].status = "blocked"
      BY <2>1, <2>2, <2>5 DEF Passes
    <3>3. HasStep(d)'
      BY <1>2, <2>1, <3>1, <3>2 DEF HasStep
    <3>4. QED
      BY <1>4, <2>1, <3>2, <3>3
  <2>6. QED
    BY <1>2, <2>1, <2>4, <2>5 DEF HasStep
<1>9. QED
  BY <1>7, <1>8

LEMMA WriteKeeps ==
  ASSUME MissionInv, NEW c \in Call, NEW w \in CallState(Len(execs), Revision),
         NEW e \in DOMAIN execs, NEW y \in ExecState, NEW s,
         execs' = [execs EXCEPT ![e] = y], call' = [call EXCEPT ![c] = w], LockMoves(c),
         UNCHANGED <<mission, base, project, draft, life, torn>>,
         Sound(y), y.plan = execs[e].plan, y.status = "cancelled" => mission.status = "cancelled",
         \A t \in Step : t # s => Passes(execs[e].step[t], y.step[t]),
         SparesOthers(execs[e], y, s),
         \A d \in Call : d # c /\ Works(d) => Operation(d) # <<e, s>>,
         y.expected = execs[e].expected \/ (s \in Step /\ Owned(execs[e].step[s])),
         base[y.plan] <= y.expected, y.expected <= Revision,
         OwnEdits(project, e, y, base[y.plan]), Alone(project, e, y, base[y.plan]),
         Placed(c)', w.at # "reporting", Works(c)' => HasStep(c)' /\ Operation(c)' = <<e, s>>
  PROVE  MissionInv'
<1>1. /\ execs \in Seq(ExecState) /\ call \in [Call -> CallState(Len(execs), Revision)] /\ lock \in Call \cup {Nobody}
      /\ base \in Seq(Nat)
  BY Typed DEF MissionInv
<1>2. execs' \in Seq(ExecState) /\ Len(execs') = Len(execs) /\ DOMAIN execs' = DOMAIN execs
  BY <1>1, ExceptSeq
<1>3. \A f \in DOMAIN execs : execs'[f] = IF f = e THEN y ELSE execs[f]
  BY <1>1
<1>4. call' \in [Call -> CallState(Len(execs), Revision)] /\ call'[c] = w
  BY <1>1
<1>5. TypeOK'
  <2>1. lock' \in Call \cup {Nobody}
    BY <1>1 DEF LockMoves
  <2>2. mission \in MissionState /\ mission.plan <= Len(base) /\ mission.exec <= Len(execs)
        /\ project \in Seq(Nat \X Nat) /\ torn \in BOOLEAN /\ life \in [Call -> Nat]
        /\ draft \in DraftState
    BY Typed DEF MissionInv
  <2>3. Revision' = Revision
    BY DEF Revision
  <2>4. call' \in [Call -> CallState(Len(execs'), Revision')]
    BY <1>2, <1>4, <2>3
  <2>5. QED
    BY <1>1, <1>2, <2>1, <2>2, <2>4, TypedNext
<1>6. \A d \in Call : d # c => call'[d] = call[d] /\ Placed(d)'
  <2> SUFFICES ASSUME NEW d \in Call, d # c PROVE call'[d] = call[d] /\ Placed(d)'
    OBVIOUS
  <2>1. Len(base) <= Len(base')
    BY <1>1
  <2>2. QED
    BY <1>1, <2>1, OthersStay
<1>7. \A d \in Call : Placed(d)'
  BY <1>6
<1>8. ASSUME NEW d \in Call, d # c, Works(d)
      PROVE  /\ HasStep(d)'
             /\ (StepOf(d).owner = Me(d))' => (StepOf(d).owner = Me(d) /\ call[d].step # s) \/ call[d].exec # e
  <2>1. call'[d] = call[d] /\ Operation(d) # <<e, s>> /\ life' = life
    BY <1>6, <1>8
  <2>2. QED
    BY <1>8, <2>1, OtherKeepsStep
<1>9. \A d \in Call : d # c => (Works(d)' => Works(d)) /\ Operation(d)' = Operation(d)
  BY <1>6 DEF Works, Operation
<1>10. Workers'
  <2>1. \A d \in Call : Works(d)' => HasStep(d)'
    BY <1>8, <1>9
  <2>2. ASSUME NEW d \in Call, NEW b \in Call, d # b, Works(d)', Works(b)'
        PROVE  Operation(d)' # Operation(b)'
    <3>1. CASE d # c /\ b # c
      <4>1. Works(d) /\ Works(b) /\ Operation(d)' = Operation(d) /\ Operation(b)' = Operation(b)
        BY <1>9, <2>2, <3>1
      <4>2. QED
        BY <2>2, <4>1 DEF MissionInv, Workers
    <3>2. CASE d = c
      BY <1>9, <2>2, <3>2
    <3>3. CASE b = c
      BY <1>9, <2>2, <3>3
    <3>4. QED
      BY <3>1, <3>2, <3>3
  <2>3. QED
    BY <2>1, <2>2 DEF Workers
<1>11. Reports'
  <2> SUFFICES ASSUME NEW d \in Call, (call[d].at = "reporting" /\ call[d].word \in {"completed", "overspent"}
                                         /\ StepOf(d).owner = Me(d))'
               PROVE  Tells(call[d].rev, Kind[call[d].step], Target(d).expected, Operation(d))'
    BY DEF Reports, Reported
  <2>1. d # c
    BY <1>4
  <2>2. call'[d] = call[d] /\ Works(d)
    BY <1>6, <2>1 DEF Works
  <2>3. \/ StepOf(d).owner = Me(d) /\ call[d].step # s
        \/ call[d].exec # e
    BY <1>8, <2>1, <2>2
  <2>4. HasStep(d) /\ call[d] \in CallState(Len(execs), Revision)
    BY <1>1, <2>2 DEF MissionInv, Workers
  <2>5. call[d].exec \in DOMAIN execs /\ call[d].step \in Step
    BY <1>1, <2>4 DEF HasStep, CallState
  <2>6. Target(d)' = IF call[d].exec = e THEN y ELSE Target(d)
    BY <1>3, <2>2, <2>5 DEF Target
  <2>7. StepOf(d).owner = Me(d)
    <3>1. CASE call[d].exec = e
      BY <2>3, <3>1
    <3>2. CASE call[d].exec # e
      BY <2>2, <2>6, <3>2 DEF StepOf, Me
    <3>3. QED
      BY <3>1, <3>2
  <2>8. Target(d)'.expected = Target(d).expected
    <3>1. CASE call[d].exec = e
      <4>1. Owned(execs[e].step[call[d].step])
        <5>1. Me(d) # NoOwner
          BY NobodyAssumption DEF Me, NoOwner
        <5>2. QED
          BY <2>7, <3>1, <5>1 DEF StepOf, Target, Owned
      <4>2. s \in Step => ~Owned(execs[e].step[s])
        BY <2>3, <2>5, <3>1, <4>1 DEF MissionInv, Records, Sound, OneAtATime
      <4>3. QED
        BY <2>6, <3>1, <4>2 DEF Target
    <3>2. CASE call[d].exec # e
      BY <2>6, <3>2
    <3>3. QED
      BY <3>1, <3>2
  <2>9. Operation(d)' = Operation(d) /\ Revision' = Revision /\ project' = project
    BY <2>2 DEF Operation, Revision
  <2>10. Reported(d) /\ call[d].at = "reporting" /\ call[d].word \in {"completed", "overspent"}
    BY <2>2 DEF MissionInv, Reports
  <2>11. Tells(call[d].rev, Kind[call[d].step], Target(d).expected, Operation(d))
    BY <2>7, <2>10 DEF Reported
  <2>12. QED
    BY <2>2, <2>8, <2>9, <2>11 DEF Tells
<1>12. Past' /\ CancelsFirst'
  BY <1>2, <1>3 DEF MissionInv, Past, CancelsFirst, Revision
<1>13. Records'
  <2>1. Records /\ Revision' = Revision /\ base' = base
    BY DEF MissionInv, Revision
  <2>2. QED
    BY <1>2, <1>3, <2>1 DEF Records
<1>14. EditsAreOwn' /\ EditsAreOf' /\ NoneTwice'
  BY <1>2, <1>3 DEF MissionInv, EditsAreOwn, EditsAreOf, NoneTwice
<1>15. QED
  BY <1>5, <1>7, <1>10, <1>11, <1>12, <1>13, <1>14 DEF MissionInv

(* What the invariant says of an execution that is written about. *)
LEMMA RecordFacts ==
  ASSUME MissionInv, NEW e \in DOMAIN execs
  PROVE  /\ execs[e] \in ExecState /\ Sound(execs[e])
         /\ execs[e].plan \in DOMAIN base /\ base[execs[e].plan] \in Nat
         /\ base[execs[e].plan] <= execs[e].expected /\ execs[e].expected <= Revision
         /\ OwnEdits(project, e, execs[e], base[execs[e].plan])
         /\ Alone(project, e, execs[e], base[execs[e].plan])
         /\ project \in Seq(Nat \X Nat) /\ Revision = Len(project) /\ Revision \in Nat
         /\ DOMAIN project = 1 .. Revision
         /\ e \in Nat /\ e # 0 /\ e <= Len(execs) /\ Len(execs) \in Nat
         /\ execs[e].status = "cancelled" => mission.status = "cancelled"
<1>1. execs \in Seq(ExecState) /\ base \in Seq(Nat) /\ project \in Seq(Nat \X Nat)
  BY Typed DEF MissionInv
<1>2. Records /\ EditsAreOwn /\ CancelsFirst
  BY DEF MissionInv
<1>3. execs[e] \in ExecState /\ DOMAIN execs = 1 .. Len(execs) /\ Len(execs) \in Nat
      /\ DOMAIN base = 1 .. Len(base) /\ base \in [DOMAIN base -> Nat]
      /\ Revision = Len(project) /\ Revision \in Nat /\ DOMAIN project = 1 .. Revision
  BY <1>1 DEF Revision
<1>4. execs[e].plan \in DOMAIN base
  BY <1>2, <1>3 DEF Records
<1>5. QED
  BY <1>1, <1>2, <1>3, <1>4 DEF Records, EditsAreOwn, CancelsFirst

(* It keeps what the steps had come to. *)
LEMMA EndKeeps ==
  ASSUME MissionInv, NEW c \in Call, NEW w \in CallState(Len(execs), Revision),
         NEW e \in DOMAIN execs, NEW y \in ExecState, NEW s,
         execs' = [execs EXCEPT ![e] = y], call' = [call EXCEPT ![c] = w], LockMoves(c),
         UNCHANGED <<mission, base, project, draft, life, torn>>,
         Sound(y), y.plan = execs[e].plan, y.expected = execs[e].expected,
         y.status = "cancelled" => mission.status = "cancelled",
         \A t \in Step : t # s => Passes(execs[e].step[t], y.step[t]),
         \A t \in Step : y.step[t].status = "completed" <=> execs[e].step[t].status = "completed",
         \A t \in Step : Owned(y.step[t]) => Owned(execs[e].step[t]),
         SparesOthers(execs[e], y, s),
         \A d \in Call : d # c /\ Works(d) => Operation(d) # <<e, s>>,
         Placed(c)', w.at \notin {"running", "reporting"}, w.at = "marking" => w.next # "running"
  PROVE  MissionInv'
<1>1. /\ execs[e] \in ExecState /\ base[execs[e].plan] <= execs[e].expected /\ execs[e].expected <= Revision
      /\ OwnEdits(project, e, execs[e], base[execs[e].plan])
      /\ Alone(project, e, execs[e], base[execs[e].plan])
      /\ project \in Seq(Nat \X Nat)
  BY RecordFacts
<1>2. OwnEdits(project, e, y, base[y.plan]) /\ Alone(project, e, y, base[y.plan])
  BY <1>1, QuietBuild
<1>3. call'[c] = w
  BY DEF MissionInv, TypeOK
<1>4. ~Works(c)'
  BY <1>3 DEF Works
<1>5. base[y.plan] <= y.expected /\ y.expected <= Revision
  BY <1>1
<1>6. /\ y.expected = execs[e].expected \/ (s \in Step /\ Owned(execs[e].step[s]))
      /\ w.at # "reporting"
  BY Zenon
<1>8. Works(c)' => HasStep(c)' /\ Operation(c)' = <<e, s>>
  BY <1>4, Zenon
<1>7. QED
  BY <1>2, <1>5, <1>6, <1>8, WriteKeeps

(* An execution that is put to rest, or goes on, with the claim of no call. *)
LEMMA GivesKeeps ==
  ASSUME MissionInv, NEW c \in Call, NEW w \in CallState(Len(execs), Revision),
         NEW e \in DOMAIN execs, NEW y,
         execs' = [execs EXCEPT ![e] = y], call' = [call EXCEPT ![c] = w], LockMoves(c),
         UNCHANGED <<mission, base, project, draft, life, torn>>,
         Gives(execs[e], y), y.status \in {"blocked", "cancelled"},
         y.status = "cancelled" => mission.status = "cancelled",
         Placed(c)', w.at \notin {"running", "reporting"}, w.at = "marking" => w.next # "running"
  PROVE  MissionInv'
<1>1. /\ y \in ExecState /\ Sound(y) /\ y.plan = execs[e].plan /\ y.expected = execs[e].expected
      /\ \A t \in Step : Passes(execs[e].step[t], y.step[t])
  BY DEF Gives
<1>2. \A t \in Step : /\ y.step[t].status = "completed" <=> execs[e].step[t].status = "completed"
                      /\ Owned(y.step[t]) => Owned(execs[e].step[t])
  BY <1>1 DEF Passes, Owned
<1>3. SparesOthers(execs[e], y, 0)
  BY <1>2 DEF SparesOthers
<1>4. 0 \notin Step
  BY PlanAssumption DEF Step
<1>5. ASSUME NEW d \in Call PROVE Operation(d) # <<e, 0>>
  <2>1. call \in [Call -> CallState(Len(execs), Revision)]
    BY Typed DEF MissionInv
  <2>2. call[d].step \in Step
    BY <2>1 DEF CallState
  <2>3. QED
    BY <1>4, <2>2 DEF Operation
<1>6. QED
  BY <1>1, <1>2, <1>3, <1>5, EndKeeps

LEMMA EndsOwners ==
  ASSUME NEW x, NEW y, NEW s \in Step, Ends(x, y, s), y.step[s].status = "completed" <=> x.step[s].status = "completed"
  PROVE  \A t \in Step : /\ Owned(y.step[t]) => Owned(x.step[t])
                         /\ y.step[t].status = "completed" <=> x.step[t].status = "completed"
BY DEF Ends, Passes, Owned

(* Nobody works on a step that is not claimed, whatever became of its claims. *)
LEMMA WorkedOn ==
  ASSUME MissionInv, NEW d \in Call, Works(d), NEW e, NEW s, Operation(d) = <<e, s>>
  PROVE  /\ e \in DOMAIN execs /\ s \in Step /\ execs[e].step[s] = StepOf(d) /\ Target(d) = execs[e]
         /\ \/ execs[e].step[s].owner = Me(d) /\ execs[e].step[s].status \in {"running", "stopped"}
            \/ ~Owned(execs[e].step[s]) /\ execs[e].step[s].status = "blocked" /\ Dormant(execs[e])
<1>1. call \in [Call -> CallState(Len(execs), Revision)] /\ execs \in Seq(ExecState) /\ HasStep(d)
  BY Typed DEF MissionInv, Workers
<1>2. call[d].exec = e /\ call[d].step = s
  BY DEF Operation
<1>3. e \in DOMAIN execs /\ s \in Step
  BY <1>1, <1>2 DEF CallState, HasStep
<1>4. QED
  BY <1>1, <1>2, <1>3 DEF HasStep, StepOf, Target, Owned

LEMMA IdleIsCall ==
  ASSUME NEW n \in Nat, NEW r \in Nat
  PROVE  Idle \in CallState(n, r)
<1>1. 1 \in Step
  BY PlanAssumption DEF Step
<1>2. QED
  BY <1>1 DEF Idle, CallState, Ats, CallWords, Nexts

LEMMA MarkCall ==
  ASSUME NEW n \in Nat, NEW r \in Nat, call \in [Call -> CallState(n, r)], NEW c \in Call,
         NEW e \in 1 .. n, NEW word \in Marks, NEW next \in Nexts, ThenMark(c, e, word, next)
  PROVE  \E w \in CallState(n, r) :
           /\ call' = [call EXCEPT ![c] = w] /\ w.at = "marking" /\ w.exec = e /\ w.word = word /\ w.next = next
           /\ w.step = call[c].step /\ w.plan = call[c].plan
<1> DEFINE w == [call[c] EXCEPT !.at = "marking", !.exec = e, !.word = word, !.next = next]
<1>1. call[c] \in CallState(n, r) /\ "marking" \in Ats /\ e \in 0 .. n /\ word \in CallWords
  <2>1. "marking" \in Ats /\ word \in CallWords
    BY Zenon DEF Ats, CallWords, Marks
  <2>2. e \in 0 .. n
    OBVIOUS
  <2>3. QED
    BY <2>1, <2>2
<1>2. /\ w \in CallState(n, r) /\ w.at = "marking" /\ w.exec = e /\ w.word = word /\ w.next = next
      /\ w.step = call[c].step /\ w.plan = call[c].plan
  BY <1>1 DEF CallState
<1>3. call' = [call EXCEPT ![c] = w]
  BY <1>1 DEF ThenMark, CallState
<1> HIDE DEF w
<1>4. QED
  BY <1>2, <1>3

Quiet == UNCHANGED <<mission, base, project, draft, life, torn>>

LEMMA CallFacts ==
  ASSUME MissionInv
  PROVE  /\ Len(execs) \in Nat /\ Len(base) \in Nat /\ Revision \in Nat
         /\ execs \in Seq(ExecState) /\ base \in Seq(Nat)
         /\ DOMAIN execs = 1 .. Len(execs)
         /\ call \in [Call -> CallState(Len(execs), Revision)]
         /\ \A c \in Call : call[c].exec \in 0 .. Len(execs) /\ call[c].step \in Step
<1>1. /\ execs \in Seq(ExecState) /\ base \in Seq(Nat) /\ project \in Seq(Nat \X Nat)
      /\ call \in [Call -> CallState(Len(execs), Revision)]
  BY Typed DEF MissionInv
<1>2. \A c \in Call : call[c].exec \in 0 .. Len(execs) /\ call[c].step \in Step
  BY <1>1 DEF CallState
<1>3. QED
  BY <1>1, <1>2 DEF Revision

(* A call that marks the Mission next. *)
LEMMA PlacedToMark ==
  ASSUME NEW c \in Call, NEW w, call \in [Call -> CallState(Len(execs), Revision)], call' = [call EXCEPT ![c] = w],
         w.at = "marking", w.exec # 0, w.word \in Marks, w.next = "idle", lock' = c
  PROVE  Placed(c)'
<1>1. call'[c] = w
  OBVIOUS
<1>2. QED
  BY <1>1 DEF Placed

LEMMA GivesAndMarks ==
  ASSUME MissionInv, NEW c \in Call, NEW e \in DOMAIN execs, NEW y,
         Gives(execs[e], y), y.status = "blocked",
         WriteAndMark(c, e, y, "idle"), LockMoves(c), lock' = c, Quiet
  PROVE  MissionInv'
<1>1. /\ call \in [Call -> CallState(Len(execs), Revision)] /\ e \in 1 .. Len(execs) /\ Len(execs) \in Nat /\ Revision \in Nat
  BY CallFacts
<1>2. y.status \in Marks /\ "idle" \in Nexts /\ ThenMark(c, e, y.status, "idle")
  BY DEF Marks, Nexts, WriteAndMark
<1>3. PICK w \in CallState(Len(execs), Revision) :
        /\ call' = [call EXCEPT ![c] = w] /\ w.at = "marking" /\ w.exec = e /\ w.word = y.status /\ w.next = "idle"
  BY <1>1, <1>2, MarkCall
<1>4. Placed(c)'
  <2>1. w.exec # 0
    BY <1>1, <1>3
  <2>2. QED
    BY <1>1, <1>2, <1>3, <2>1, PlacedToMark
<1>5. /\ execs' = [execs EXCEPT ![e] = y]
      /\ UNCHANGED <<mission, base, project, draft, life, torn>>
      /\ y.status \in {"blocked", "cancelled"} /\ (y.status = "cancelled" => mission.status = "cancelled")
      /\ w.at \notin {"running", "reporting"} /\ (w.at = "marking" => w.next # "running")
  BY <1>3 DEF WriteAndMark, Write, Quiet
<1>6. QED
  BY <1>3, <1>4, <1>5, GivesKeeps

LEMMA EndsAndMarks ==
  ASSUME MissionInv, NEW c \in Call, NEW e \in DOMAIN execs, NEW y, NEW s \in Step,
         Ends(execs[e], y, s), y.expected = execs[e].expected, y.status \in Marks,
         y.step[s].status = "completed" <=> execs[e].step[s].status = "completed",
         SparesOthers(execs[e], y, s),
         \A d \in Call : d # c /\ Works(d) => Operation(d) # <<e, s>>,
         WriteAndMark(c, e, y, "idle"), LockMoves(c), lock' = c, Quiet
  PROVE  MissionInv'
<1>1. /\ call \in [Call -> CallState(Len(execs), Revision)] /\ e \in 1 .. Len(execs) /\ Len(execs) \in Nat /\ Revision \in Nat
  BY CallFacts
<1>2. "idle" \in Nexts /\ ThenMark(c, e, y.status, "idle")
  BY DEF Nexts, WriteAndMark
<1>3. PICK w \in CallState(Len(execs), Revision) :
        /\ call' = [call EXCEPT ![c] = w] /\ w.at = "marking" /\ w.exec = e /\ w.word = y.status /\ w.next = "idle"
  BY <1>1, <1>2, MarkCall
<1>4. Placed(c)'
  <2>1. w.exec # 0
    BY <1>1, <1>3
  <2>2. QED
    BY <1>1, <1>2, <1>3, <2>1, PlacedToMark
<1>5. /\ execs' = [execs EXCEPT ![e] = y]
      /\ UNCHANGED <<mission, base, project, draft, life, torn>>
      /\ y.status = "cancelled" => mission.status = "cancelled"
      /\ w.at \notin {"running", "reporting"} /\ (w.at = "marking" => w.next # "running")
  BY <1>3 DEF WriteAndMark, Write, Quiet, Marks
<1>6. /\ y \in ExecState /\ Sound(y) /\ y.plan = execs[e].plan
      /\ \A t \in Step : t # s => Passes(execs[e].step[t], y.step[t])
  BY DEF Ends
<1>7. \A t \in Step : /\ Owned(y.step[t]) => Owned(execs[e].step[t])
                      /\ y.step[t].status = "completed" <=> execs[e].step[t].status = "completed"
  BY EndsOwners
<1>8. QED
  BY <1>3, <1>4, <1>5, <1>6, <1>7, EndKeeps

-------------------------------------------------------------------------------
(* A step of a call that writes no record of an execution. *)
LEMMA CallKeeps ==
  ASSUME MissionInv, NEW c \in Call, NEW w \in CallState(Len(execs), Revision),
         call' = [call EXCEPT ![c] = w], LockMoves(c),
         UNCHANGED <<base, execs, project, draft, life, torn>>,
         mission' \in MissionState, mission'.plan <= Len(base), mission'.exec <= Len(execs),
         mission.status = "cancelled" => mission'.status = "cancelled",
         Placed(c)', Works(c)' => Works(c) /\ Operation(c)' = Operation(c), Reported(c)'
  PROVE  MissionInv'
<1>1. /\ execs \in Seq(ExecState) /\ call \in [Call -> CallState(Len(execs), Revision)] /\ lock \in Call \cup {Nobody}
      /\ base \in Seq(Nat) /\ project \in Seq(Nat \X Nat) /\ torn \in BOOLEAN /\ life \in [Call -> Nat]
      /\ draft \in DraftState
  BY Typed DEF MissionInv
<1>2. call' \in [Call -> CallState(Len(execs), Revision)] /\ call'[c] = w /\ Revision' = Revision
  BY <1>1 DEF Revision
<1>3. TypeOK'
  <2>1. lock' \in Call \cup {Nobody}
    BY <1>1 DEF LockMoves
  <2>2. QED
    BY <1>1, <1>2, <2>1, TypedNext
<1>4. \A d \in Call : d # c => call'[d] = call[d] /\ Placed(d)'
  <2> SUFFICES ASSUME NEW d \in Call, d # c PROVE call'[d] = call[d] /\ Placed(d)'
    OBVIOUS
  <2>1. Len(base) <= Len(base)
    BY CallFacts
  <2>3. Len(base) <= Len(base') /\ base' \in Seq(Nat)
    BY <1>1, <2>1, Zenon
  <2>2. QED
    BY <1>1, <2>3, OthersStay
<1>5. \A d \in Call : Works(d)' => Works(d) /\ Operation(d)' = Operation(d)
  BY <1>4 DEF Works, Operation
<1>6. ASSUME NEW d \in Call, Works(d)' PROVE HasStep(d)'
  <2>1. HasStep(d) /\ Operation(d)' = Operation(d)
    BY <1>5, <1>6 DEF MissionInv, Workers
  <2>2. call'[d].exec = call[d].exec /\ call'[d].step = call[d].step
    BY <2>1 DEF Operation
  <2>3. StepOf(d)' = StepOf(d) /\ Target(d)' = Target(d) /\ Me(d)' = Me(d)
    BY <2>2 DEF StepOf, Target, Me
  <2>4. QED
    BY <2>1, <2>2, <2>3 DEF HasStep
<1>7. Workers'
  BY <1>5, <1>6 DEF MissionInv, Workers
<1>8. Reports'
  <2> SUFFICES ASSUME NEW d \in Call, d # c PROVE Reported(d)'
    BY DEF Reports
  <2>1. Reported(d) /\ call'[d] = call[d]
    BY <1>4 DEF MissionInv, Reports
  <2>2. /\ StepOf(d)' = StepOf(d) /\ Target(d)' = Target(d) /\ Me(d)' = Me(d) /\ Operation(d)' = Operation(d)
        /\ Revision' = Revision /\ project' = project
    BY <1>2, <2>1 DEF StepOf, Target, Me, Operation
  <2>3. QED
    BY <2>1, <2>2 DEF Reported, Tells
<1>9. /\ Past' /\ CancelsFirst' /\ Records' /\ EditsAreOwn' /\ EditsAreOf' /\ NoneTwice'
  BY <1>2 DEF MissionInv, Past, CancelsFirst, Records, EditsAreOwn, EditsAreOf, NoneTwice
<1>10. QED
  BY <1>3, <1>4, <1>7, <1>8, <1>9 DEF MissionInv

(* Where the call ends, or goes on to where nothing is known of it. *)
LEMMA LeaveKeeps ==
  ASSUME MissionInv, NEW c \in Call, call' = [call EXCEPT ![c] = Idle], LockMoves(c),
         UNCHANGED <<files, project, draft, life, torn>>
  PROVE  MissionInv'
<1>1. Idle \in CallState(Len(execs), Revision) /\ call'[c] = Idle
  BY CallFacts, IdleIsCall
<1>5. Idle.at = "idle"
  BY DEF Idle
<1>2. Placed(c)' /\ ~Works(c)' /\ Reported(c)'
  BY <1>1, <1>5 DEF Placed, Works, Reported
<1>3. mission' = mission /\ mission \in MissionState /\ mission.plan <= Len(base) /\ mission.exec <= Len(execs)
      /\ UNCHANGED <<base, execs, project, draft, life, torn>>
  BY Typed DEF MissionInv, files
<1>4. QED
  BY <1>1, <1>2, <1>3, CallKeeps

LEMMA LeavesKeep ==
  ASSUME MissionInv, NEW c \in Call, Rest(c) \/ LetRun(c) \/ Dropped(c)
  PROVE  MissionInv'
<1>1. call' = [call EXCEPT ![c] = Idle] /\ UNCHANGED <<files, project, draft, life, torn>>
  BY DEF Rest, LetRun, Dropped, Leave
<1>2. Placed(c)
  BY DEF MissionInv
<1>3. LockMoves(c)
  BY <1>2 DEF Rest, LetRun, Dropped, Leave, LockMoves, Found, Claiming, Placed
<1>4. QED
  BY <1>1, <1>3, LeaveKeeps

(* The Mission's plan is one of the plans, and what is current an execution. *)
LEMMA CurrentIs ==
  ASSUME MissionInv
  PROVE  /\ mission \in MissionState /\ mission.plan \in 0 .. Len(base) /\ Current \in 0 .. Len(execs)
         /\ mission.exec \in 0 .. Len(execs)
<1>1. /\ mission \in MissionState /\ mission.plan <= Len(base) /\ mission.exec <= Len(execs)
      /\ base \in Seq(Nat) /\ execs \in Seq(ExecState)
  BY Typed DEF MissionInv
<1>2. mission.plan \in Nat /\ mission.exec \in Nat /\ Len(base) \in Nat /\ Len(execs) \in Nat
  BY <1>1 DEF MissionState
<1>3. QED
  BY <1>1, <1>2 DEF Current

LEMMA AdvanceKeeps ==
  ASSUME MissionInv, NEW c \in Call, Advance(c)
  PROVE  MissionInv'
<1> DEFINE w == [Idle EXCEPT !.at = "claiming", !.plan = mission.plan, !.exec = Current]
<1>1. mission.plan \in 1 .. Len(base) /\ Current \in 0 .. Len(execs)
  BY CurrentIs DEF Advance
<1>2. Idle \in CallState(Len(execs), Revision) /\ Len(base) \in Nat
  BY CallFacts, IdleIsCall
<1>3. "claiming" \in Ats
  BY DEF Ats
<1>4. w \in CallState(Len(execs), Revision) /\ w.at = "claiming" /\ w.plan = mission.plan
  <2>1. mission.plan \in Nat
    BY <1>1, <1>2
  <2>2. QED
    BY <1>1, <1>2, <1>3, <2>1 DEF CallState
<1>5. call' = [call EXCEPT ![c] = w]
  BY DEF Advance
<1> HIDE DEF w
<1>6. call'[c] = w
  BY <1>5, CallFacts
<1>7. lock' = c /\ LockMoves(c) /\ base' = base
  BY DEF Advance, Hold, LockMoves, files
<1>8. Placed(c)' /\ ~Works(c)' /\ Reported(c)'
  BY <1>1, <1>4, <1>6, <1>7 DEF Placed, Works, Reported
<1>9. /\ mission' = mission /\ mission \in MissionState /\ mission.plan <= Len(base) /\ mission.exec <= Len(execs)
      /\ UNCHANGED <<base, execs, project, draft, life, torn>>
  BY Typed DEF MissionInv, files, Advance
<1>10. QED
  BY <1>4, <1>5, <1>7, <1>8, <1>9, CallKeeps

-------------------------------------------------------------------------------
(* advance: the sections of a claim. *)
LEMMA ClaimingFacts ==
  ASSUME MissionInv, NEW c \in Call, Claiming(c)
  PROVE  /\ lock = c /\ call[c].plan \in 1 .. Len(base)
         /\ call[c].exec # 0 =>
              /\ call[c].exec \in DOMAIN execs /\ Target(c) = execs[call[c].exec]
              /\ execs[call[c].exec] \in ExecState /\ Sound(execs[call[c].exec])
<1>1. Placed(c) /\ call[c].at = "claiming"
  BY DEF MissionInv, Claiming
<1>2. call[c].exec \in 0 .. Len(execs) /\ DOMAIN execs = 1 .. Len(execs) /\ Len(execs) \in Nat
  BY CallFacts
<1>3. call[c].exec # 0 => call[c].exec \in DOMAIN execs
  BY <1>2
<1>4. QED
  BY <1>1, <1>3, RecordFacts DEF Placed, Target

LEMMA SupersedeKeeps ==
  ASSUME MissionInv, NEW c \in Call, Supersede(c)
  PROVE  MissionInv'
<1> DEFINE e == call[c].exec
           w == [call[c] EXCEPT !.exec = 0]
<1>1. Claiming(c) /\ e # 0 /\ lock' = lock /\ Quiet /\ lock = c
  BY ClaimingFacts DEF Supersede, Quiet
<1>2. e \in DOMAIN execs /\ Target(c) = execs[e] /\ execs[e] \in ExecState /\ Sound(execs[e])
  BY <1>1, ClaimingFacts
<1>3. call[c] \in CallState(Len(execs), Revision) /\ Len(execs) \in Nat
  BY CallFacts
<1>4. w \in CallState(Len(execs), Revision) /\ w.at = call[c].at /\ w.plan = call[c].plan
  BY <1>3 DEF CallState
<1>5. call' = [call EXCEPT ![c] = w]
  BY <1>3 DEF Supersede, CallState
<1> HIDE DEF w, e
<1>6. call'[c] = w
  BY <1>5, CallFacts
<1>7. LockMoves(c) /\ call[c].at = "claiming" /\ base' = base /\ call[c].plan \in 1 .. Len(base)
  BY <1>1, ClaimingFacts DEF LockMoves, Claiming, Quiet
<1>8. Placed(c)' /\ ~Works(c)' /\ Reported(c)'
  BY <1>1, <1>4, <1>6, <1>7 DEF Placed, Works, Reported
<1>9. CASE UNCHANGED execs
  <2>1. /\ mission' = mission /\ mission \in MissionState /\ mission.plan <= Len(base) /\ mission.exec <= Len(execs)
        /\ UNCHANGED <<base, execs, project, draft, life, torn>>
    BY <1>1, <1>9, Typed DEF MissionInv, Quiet
  <2>2. QED
    BY <1>4, <1>5, <1>7, <1>8, <2>1, CallKeeps
<1>10. CASE execs[e].status # "cancelled" /\ Write(e, Blocked(execs[e]))
  <2>1. Gives(execs[e], Blocked(execs[e])) /\ Blocked(execs[e]).status = "blocked"
    BY <1>2, <1>10, BlockedGives
  <2>2. execs' = [execs EXCEPT ![e] = Blocked(execs[e])]
    BY <1>10 DEF Write
  <2> DEFINE y == Blocked(execs[e])
  <2>3. y.status \in {"blocked", "cancelled"} /\ (y.status = "cancelled" => mission.status = "cancelled")
    BY <2>1
  <2>4. w.at \notin {"running", "reporting"} /\ (w.at = "marking" => w.next # "running")
    BY <1>4, <1>7
  <2>5. UNCHANGED <<mission, base, project, draft, life, torn>>
    BY <1>1 DEF Quiet
  <2> HIDE DEF y
  <2>6. QED
    BY <1>2, <1>4, <1>5, <1>7, <1>8, <2>1, <2>2, <2>3, <2>4, <2>5, GivesKeeps DEF y
<1>11. QED
  BY <1>2, <1>9, <1>10 DEF Supersede, e

LEMMA BlocksKeep ==
  ASSUME MissionInv, NEW c \in Call, Overtaken(c) \/ DeadEnd(c) \/ Exhausted(c)
  PROVE  MissionInv'
<1> DEFINE e == call[c].exec
           y == Blocked(Target(c))
<1>1. Found(c) /\ Target(c).status = "running"
  BY DEF Overtaken, DeadEnd, Exhausted, Free, Ready
<1>2. /\ WriteAndMark(c, e, y, "idle")
      /\ UNCHANGED <<mission, base, project, draft, lock, life, torn>>
  BY DEF Overtaken, DeadEnd, Exhausted
<1>3. e \in DOMAIN execs /\ Target(c) = execs[e] /\ execs[e] \in ExecState /\ Sound(execs[e]) /\ lock = c
  BY <1>1, ClaimingFacts DEF Found
<1> HIDE DEF e
<1>4. Gives(execs[e], y) /\ y.status = "blocked"
  BY <1>1, <1>3, BlockedGives
<1>5. Quiet /\ lock' = c /\ LockMoves(c)
  BY <1>2, <1>3 DEF Quiet, LockMoves
<1> HIDE DEF y
<1>6. QED
  BY <1>2, <1>3, <1>4, <1>5, GivesAndMarks

LEMMA AskReviewKeeps ==
  ASSUME MissionInv, NEW c \in Call, AskReview(c)
  PROVE  MissionInv'
<1> DEFINE e == call[c].exec
<1>1. PICK s \in Step :
        /\ Ready(c, s)
        /\ WriteAndMark(c, e, [SetStep(Target(c), s, "waiting-review")
                                 EXCEPT !.status = "waiting-review", !.active = s,
                                        !.step[s].checkpoint = "pending"], "idle")
  BY DEF AskReview
<1>2. Found(c) /\ Target(c).status = "running" /\ Working(Target(c)) = {}
      /\ Runnable(Target(c)) # {} /\ s = First(Runnable(Target(c)))
  BY <1>1 DEF Ready, Free
<1>3. e \in DOMAIN execs /\ Target(c) = execs[e] /\ execs[e] \in ExecState /\ Sound(execs[e]) /\ lock = c
  BY <1>2, ClaimingFacts DEF Found
<1> DEFINE x == execs[e]
           y == [SetStep(x, s, "waiting-review")
                   EXCEPT !.status = "waiting-review", !.active = s, !.step[s].checkpoint = "pending"]
<1> HIDE DEF e
<1>4. /\ x.step[s].status \in {"pending", "retrying"} /\ InTurn(x, s)
      /\ \A t \in Step : t # s => ~Begun(x.step[t])
      /\ \A t \in Step : ~Owned(x.step[t])
  BY <1>2, <1>3, RunnableIsNext
<1>5. /\ Ends(x, y, s) /\ y.expected = x.expected /\ y.step[s].status # "completed"
      /\ ~Owned(y.step[s]) /\ y.status = "waiting-review"
  BY <1>2, <1>3, <1>4, AskedRecord
<1>6. WriteAndMark(c, e, y, "idle")
  BY <1>1, <1>3
<1> HIDE DEF y
<1>7. Quiet /\ lock' = c /\ LockMoves(c)
  BY <1>3 DEF Quiet, LockMoves, AskReview
<1>8. \A d \in Call : d # c /\ Works(d) => Operation(d) # <<e, s>>
  BY <1>4, WorkedOn
<1>9. SparesOthers(x, y, s) /\ y.status \in Marks
  BY <1>2, <1>3, <1>4, <1>5 DEF SparesOthers, Dormant, Marks
<1>10. y.step[s].status = "completed" <=> x.step[s].status = "completed"
  BY <1>4, <1>5
<1>11. QED
  BY <1>3, <1>5, <1>6, <1>7, <1>8, <1>9, <1>10, EndsAndMarks

LEMMA TakesKeeps ==
  ASSUME MissionInv, NEW c \in Call, NEW w \in CallState(Len(execs), Revision),
         NEW e \in DOMAIN execs, NEW s \in Step, NEW y,
         Takes(execs[e], y, s, Me(c)), execs[e].status = "running", execs[e].step[s].status # "completed",
         Owned(execs[e].step[s]) \/ Revision = execs[e].expected,
         execs' = [execs EXCEPT ![e] = y], call' = [call EXCEPT ![c] = w], LockMoves(c), Quiet,
         w.exec = e, w.step = s, w.at # "reporting", Placed(c)',
         \A d \in Call : d # c /\ Works(d) => Operation(d) # <<e, s>>
  PROVE  MissionInv'
<1> DEFINE x == execs[e]
<1>1. /\ x \in ExecState /\ base[x.plan] <= x.expected /\ x.expected <= Revision
      /\ OwnEdits(project, e, x, base[x.plan])
      /\ Alone(project, e, x, base[x.plan])
      /\ project \in Seq(Nat \X Nat) /\ Revision = Len(project) /\ e # 0
  BY RecordFacts
<1>2. /\ y \in ExecState /\ Sound(y) /\ y.plan = x.plan /\ y.expected = x.expected /\ y.status = "running"
      /\ \A t \in Step : t # s => Passes(x.step[t], y.step[t])
      /\ y.step[s].owner = Me(c) /\ y.step[s].status = "running"
      /\ \A t \in Step : t # s => ~Owned(x.step[t])
  BY DEF Takes
<1>3. \A t \in Step : y.step[t].status = "completed" <=> x.step[t].status = "completed"
  BY <1>2 DEF Passes
<1>4. \A t \in Step : Owned(y.step[t]) => t = s
  BY <1>2 DEF Passes, Owned
<1>5. OwnEdits(project, e, y, base[y.plan]) /\ Alone(project, e, y, base[y.plan])
  <2>1. CASE Owned(x.step[s])
    <3>1. \A t \in Step : Owned(y.step[t]) => Owned(x.step[t])
      BY <1>4, <2>1
    <3>2. QED
      BY <1>1, <1>2, <1>3, <3>1, QuietBuild
  <2>2. CASE Revision = x.expected
    <3>1. \A i \in DOMAIN project : i <= x.expected
      <4>1. DOMAIN project = 1 .. x.expected /\ Revision \in Nat
        BY <2>2, RecordFacts, Zenon
      <4>2. QED
        BY <4>1, <2>2
    <3>2. QED
      BY <1>1, <1>2, <1>3, <3>1, QuietBuild
  <2>3. QED
    BY <2>1, <2>2
<1>6. SparesOthers(x, y, s)
  BY <1>2 DEF SparesOthers, Dormant
<1>7. call'[c] = w /\ execs'[e] = y /\ Me(c)' = Me(c)
  BY CallFacts DEF Quiet, Me
<1>8. StepOf(c)' = y.step[s] /\ Operation(c)' = <<e, s>> /\ call'[c].exec # 0
  BY <1>1, <1>7 DEF StepOf, Target, Operation
<1>9. HasStep(c)'
  BY <1>2, <1>7, <1>8 DEF HasStep
<1>10. Works(c)' => HasStep(c)' /\ Operation(c)' = <<e, s>>
  BY <1>8, <1>9, Zenon
<1>11. /\ y.expected = x.expected \/ (s \in Step /\ Owned(x.step[s]))
       /\ base[y.plan] <= y.expected /\ y.expected <= Revision
       /\ y.status = "cancelled" => mission.status = "cancelled"
       /\ UNCHANGED <<mission, base, project, draft, life, torn>>
  BY <1>1, <1>2 DEF Quiet
<1>12. QED
  BY <1>2, <1>5, <1>6, <1>10, <1>11, WriteKeeps

LEMMA MeIsOwner ==
  ASSUME MissionInv, NEW c \in Call
  PROVE  Me(c) \in Call \X Nat /\ Alive(Me(c))
<1>1. life \in [Call -> Nat]
  BY Typed DEF MissionInv
<1>2. QED
  BY <1>1 DEF Me, Alive

LEMMA TakeOverKeeps ==
  ASSUME MissionInv, NEW c \in Call, TakeOver(c)
  PROVE  MissionInv'
<1> DEFINE e == call[c].exec
<1>1. PICK s \in Working(Target(c)) :
        /\ ~Alive(Target(c).step[s].owner)
        /\ Write(e, [Target(c) EXCEPT !.step[s].owner = Me(c)])
        /\ call' = [call EXCEPT ![c].at = "running", ![c].step = s]
  BY DEF TakeOver
<1>2. Found(c) /\ Target(c).status = "running" /\ lock' = Nobody /\ Quiet
  BY DEF TakeOver, Quiet
<1>3. e \in DOMAIN execs /\ Target(c) = execs[e] /\ execs[e] \in ExecState /\ Sound(execs[e]) /\ lock = c
  BY <1>2, ClaimingFacts DEF Found
<1>4. s \in Step /\ execs[e].step[s].status = "running"
  BY <1>1, <1>3 DEF Working
<1> DEFINE w == [call[c] EXCEPT !.at = "running", !.step = s]
           x == execs[e]
           y == [x EXCEPT !.step[s].owner = Me(c)]
<1>5. call[c] \in CallState(Len(execs), Revision) /\ "running" \in Ats
  BY CallFacts DEF Ats
<1>6. w \in CallState(Len(execs), Revision) /\ w.at = "running" /\ w.step = s /\ w.exec = e
  BY <1>4, <1>5 DEF CallState
<1>7. call' = [call EXCEPT ![c] = w]
  BY <1>1, <1>5 DEF CallState
<1>8. execs' = [execs EXCEPT ![e] = y]
  BY <1>1, <1>3 DEF Write
<1>9. Takes(x, y, s, Me(c))
  BY <1>2, <1>3, <1>4, MeIsOwner, TakenRecord
<1> HIDE DEF w, y, e
<1>10. call'[c] = w
  BY <1>7, CallFacts
<1>11. Placed(c)' /\ LockMoves(c)
  BY <1>2, <1>3, <1>6, <1>10 DEF Placed, LockMoves
<1>12. Owned(x.step[s])
  BY <1>3, <1>4 DEF Sound
<1>13. ASSUME NEW d \in Call, d # c, Works(d) PROVE Operation(d) # <<e, s>>
  <2>1. Alive(Me(d))
    BY MeIsOwner
  <2>2. QED
    BY <1>1, <1>3, <1>4, <1>13, <2>1, WorkedOn
<1>14. x.status = "running" /\ x.step[s].status # "completed" /\ w.at # "reporting"
  BY <1>2, <1>3, <1>4, <1>6
<1>15. QED
  BY <1>2, <1>3, <1>4, <1>6, <1>7, <1>8, <1>9, <1>11, <1>12, <1>13, <1>14, TakesKeeps

LEMMA ClaimKeeps ==
  ASSUME MissionInv, NEW c \in Call, Claim(c)
  PROVE  MissionInv'
<1> DEFINE e == call[c].exec
<1>1. PICK s \in Step :
        /\ Ready(c, s) /\ ~OverBudget(Target(c), s)
        /\ Write(e, [Target(c) EXCEPT !.total = @ + 1, !.active = s, !.step[s].attempts = @ + 1,
                                      !.step[s].status = "running", !.step[s].owner = Me(c)])
        /\ call' = [call EXCEPT ![c].at = "marking", ![c].step = s, ![c].word = "running", ![c].next = "running"]
  BY DEF Claim
<1>2. Found(c) /\ Target(c).status = "running" /\ Working(Target(c)) = {} /\ Revision = Target(c).expected
      /\ Runnable(Target(c)) # {} /\ s = First(Runnable(Target(c))) /\ lock' = lock /\ Quiet
  BY <1>1 DEF Ready, Free, Claim, Quiet
<1>3. e \in DOMAIN execs /\ Target(c) = execs[e] /\ execs[e] \in ExecState /\ Sound(execs[e]) /\ lock = c /\ e # 0
  BY <1>2, ClaimingFacts DEF Found
<1> DEFINE w == [call[c] EXCEPT !.at = "marking", !.step = s, !.word = "running", !.next = "running"]
           x == execs[e]
           y == Claimed(x, s, Me(c))
<1>4. /\ x.step[s].status \in {"pending", "retrying"} /\ InTurn(x, s)
      /\ \A t \in Step : t # s => ~Begun(x.step[t])
      /\ \A t \in Step : ~Owned(x.step[t])
  BY <1>2, <1>3, RunnableIsNext
<1>5. call[c] \in CallState(Len(execs), Revision) /\ "marking" \in Ats /\ "running" \in CallWords /\ "running" \in Nexts
  BY CallFacts DEF Ats, CallWords, Nexts
<1>6. w \in CallState(Len(execs), Revision) /\ w.at = "marking" /\ w.step = s /\ w.exec = e
      /\ w.word = "running" /\ w.next = "running"
  BY <1>5 DEF CallState
<1>7. call' = [call EXCEPT ![c] = w]
  BY <1>1, <1>5 DEF CallState
<1>8. execs' = [execs EXCEPT ![e] = y]
  BY <1>1, <1>3 DEF Write, Claimed
<1>9. ~OverBudget(x, s) /\ Me(c) \in Call \X Nat
  BY <1>1, <1>3, MeIsOwner
<1>10. Takes(x, y, s, Me(c))
  BY <1>2, <1>3, <1>4, <1>9, ClaimedRecord
<1> HIDE DEF w, y, e
<1>11. call'[c] = w
  BY <1>7, CallFacts
<1>12. Placed(c)' /\ LockMoves(c)
  BY <1>2, <1>3, <1>6, <1>11 DEF Placed, LockMoves, Marks
<1>13. \A d \in Call : d # c /\ Works(d) => Operation(d) # <<e, s>>
  BY <1>4, WorkedOn
<1>14. x.status = "running" /\ x.step[s].status # "completed" /\ w.at # "reporting" /\ Revision = x.expected
  BY <1>2, <1>3, <1>4, <1>6
<1>15. QED
  BY <1>2, <1>3, <1>6, <1>7, <1>8, <1>10, <1>12, <1>13, <1>14, TakesKeeps

LEMMA CreateKeeps ==
  ASSUME MissionInv, NEW c \in Call, Create(c)
  PROVE  MissionInv'
<1> DEFINE n == Len(execs)
           p == call[c].plan
           x == [plan |-> p, expected |-> base[p], status |-> "running",
                 active |-> 0, total |-> 0, step |-> [s \in Step |-> NotStarted]]
<1>1. /\ execs \in Seq(ExecState) /\ call \in [Call -> CallState(n, Revision)] /\ n \in Nat /\ Revision \in Nat
      /\ base \in Seq(Nat) /\ DOMAIN execs = 1 .. n
  BY CallFacts
<1>2. lock = c /\ p \in 1 .. Len(base) /\ p \in Nat /\ base[p] \in Nat /\ base[p] <= Revision
  <2>1. lock = c /\ p \in 1 .. Len(base)
    BY ClaimingFacts DEF Create
  <2>2. DOMAIN base = 1 .. Len(base) /\ Len(base) \in Nat /\ base \in [DOMAIN base -> Nat]
    BY <1>1, CallFacts
  <2>3. QED
    BY <2>1, <2>2 DEF MissionInv, Past
<1>3. x \in ExecState /\ Sound(x)
  BY <1>2, CreatedRecord
<1>4. execs' = Append(execs, x) /\ ThenMark(c, Len(execs'), "running", "claiming")
      /\ UNCHANGED <<mission, base, project, draft, lock, life, torn>>
  BY DEF Create
<1>5. x.plan = p /\ x.expected = base[p] /\ x.status = "running"
  OBVIOUS
<1> HIDE DEF x
<1>6. /\ execs' \in Seq(ExecState) /\ Len(execs') = n + 1 /\ DOMAIN execs' = 1 .. n + 1
      /\ execs'[n + 1] = x /\ \A e \in 1 .. n : execs'[e] = execs[e]
  BY <1>1, <1>3, <1>4
<1> HIDE DEF n, p
<1>7. n <= n + 1 /\ n + 1 \in Nat /\ Revision <= Revision /\ n + 1 \in 1 .. n + 1 /\ n + 1 # 0
  BY <1>1
<1>8. call \in [Call -> CallState(n + 1, Revision)]
      /\ \A v \in CallState(n + 1, Revision) : [call EXCEPT ![c] = v] \in [Call -> CallState(n + 1, Revision)]
  BY <1>1, <1>7, CallsTyped
<1>9. "running" \in Marks /\ "claiming" \in Nexts /\ ThenMark(c, n + 1, "running", "claiming")
  BY <1>4, <1>6 DEF Marks, Nexts
<1>10. PICK w \in CallState(n + 1, Revision) :
         /\ call' = [call EXCEPT ![c] = w] /\ w.at = "marking" /\ w.exec = n + 1 /\ w.word = "running" /\ w.next = "claiming"
         /\ w.step = call[c].step /\ w.plan = call[c].plan
  BY <1>1, <1>7, <1>8, <1>9, MarkCall
<1>11. call' \in [Call -> CallState(n + 1, Revision)] /\ call'[c] = w /\ Revision' = Revision
  BY <1>4, <1>8, <1>10 DEF Revision
<1>12. TypeOK'
  <2>1. /\ mission \in MissionState /\ mission.plan <= Len(base) /\ mission.exec <= n
        /\ project \in Seq(Nat \X Nat) /\ torn \in BOOLEAN /\ life \in [Call -> Nat] /\ lock \in Call \cup {Nobody}
        /\ draft \in DraftState
    BY Typed DEF MissionInv, n
  <2>2. mission.exec <= n + 1
    <3>1. mission.exec \in 0 .. n
      BY CurrentIs DEF n
    <3>2. QED
      BY <1>1, <3>1
  <2>3. QED
    BY <1>1, <1>4, <1>6, <1>11, <2>1, <2>2, TypedNext
<1>13. \A d \in Call : d # c => call'[d] = call[d] /\ Placed(d)'
  <2> SUFFICES ASSUME NEW d \in Call, d # c PROVE call'[d] = call[d] /\ Placed(d)'
    OBVIOUS
  <2>1. Len(base) <= Len(base') /\ base' \in Seq(Nat)
    BY <1>4, CallFacts
  <2>2. LockMoves(c)
    BY <1>4 DEF LockMoves
  <2>3. QED
    BY <1>4, <1>10, <2>1, <2>2, OthersStay
<1>14. Placed(c)'
  <2>1. w.plan \in 1 .. Len(base') /\ lock' = c
    BY <1>2, <1>4, <1>10, Zenon DEF p
  <2>2. w.exec # 0 /\ w.word \in Marks
    BY <1>1, <1>9, <1>10
  <2>3. QED
    BY <1>10, <1>11, <2>1, <2>2 DEF Placed
<1>15. ~Works(c)' /\ Reported(c)'
  BY <1>10, <1>11 DEF Works, Reported
<1>16. ASSUME NEW d \in Call, d # c, Works(d)
       PROVE  HasStep(d) /\ StepOf(d)' = StepOf(d) /\ Target(d)' = Target(d) /\ Operation(d)' = Operation(d) /\ Me(d)' = Me(d)
  <2>1. HasStep(d) /\ call'[d] = call[d]
    BY <1>13, <1>16 DEF MissionInv, Workers
  <2>2. call[d].exec \in 1 .. n
    BY <1>1, <2>1, CallFacts DEF HasStep, n
  <2>3. QED
    BY <1>4, <1>6, <2>1, <2>2 DEF StepOf, Target, Operation, Me
<1>17. \A d \in Call : Works(d)' => d # c /\ Works(d)
  BY <1>13, <1>15 DEF Works
<1>18. Workers'
  <2>1. ASSUME NEW d \in Call, Works(d)' PROVE HasStep(d)'
    <3>1. HasStep(d) /\ StepOf(d)' = StepOf(d) /\ Target(d)' = Target(d) /\ Me(d)' = Me(d) /\ call'[d] = call[d]
      BY <1>13, <1>16, <1>17, <2>1
    <3>2. QED
      BY <3>1 DEF HasStep
  <2>2. QED
    BY <1>16, <1>17, <2>1 DEF MissionInv, Workers
<1>19. Reports'
  <2> SUFFICES ASSUME NEW d \in Call, d # c, call[d].at = "reporting" PROVE Reported(d)'
    BY <1>13, <1>15 DEF Reports, Reported
  <2>1. Reported(d) /\ call'[d] = call[d] /\ Works(d)
    BY <1>13 DEF MissionInv, Reports, Works
  <2>2. /\ StepOf(d)' = StepOf(d) /\ Target(d)' = Target(d) /\ Me(d)' = Me(d) /\ Operation(d)' = Operation(d)
        /\ Revision' = Revision /\ project' = project
    BY <1>4, <1>11, <1>16, <2>1
  <2>3. QED
    BY <2>1, <2>2 DEF Reported, Tells
<1>20. Past' /\ NoneTwice'
  BY <1>4, <1>11 DEF MissionInv, Past, NoneTwice
<1>21. CancelsFirst' /\ Records'
  BY <1>1, <1>2, <1>3, <1>4, <1>5, <1>6, <1>11 DEF MissionInv, CancelsFirst, Records
<1>22. EditsAreOf'
  BY <1>1, <1>4, <1>6 DEF MissionInv, EditsAreOf
<1>23. EditsAreOwn'
  <2>1. ASSUME NEW e \in 1 .. n
        PROVE  OwnEdits(project, e, execs[e], base[execs[e].plan]) /\ Alone(project, e, execs[e], base[execs[e].plan])
    BY <1>1, <2>1 DEF MissionInv, EditsAreOwn
  <2>2. OwnEdits(project, n + 1, x, base[p])
    <3>1. \A i \in DOMAIN project, s \in Step : project[i] # <<n + 1, s>>
      BY <1>1 DEF MissionInv, EditsAreOf
    <3>2. QED
      BY <3>1 DEF OwnEdits
  <2>3. Alone(project, n + 1, x, base[p])
    BY <1>2, <1>5 DEF Alone
  <2>4. \A e \in 1 .. n + 1 : e \in 1 .. n \/ e = n + 1
    BY <1>1
  <2>5. QED
    BY <1>4, <1>5, <1>6, <2>1, <2>2, <2>3, <2>4 DEF EditsAreOwn
<1>24. QED
  BY <1>12, <1>13, <1>14, <1>18, <1>19, <1>20, <1>21, <1>22, <1>23 DEF MissionInv

-------------------------------------------------------------------------------
(* The Mission is marked. *)
LEMMA MarkedIs ==
  ASSUME MissionInv, NEW e \in 1 .. Len(execs), NEW word \in Marks
  PROVE  /\ Marked(e, word) \in MissionState /\ Marked(e, word).plan <= Len(base) /\ Marked(e, word).exec <= Len(execs)
         /\ mission.status = "cancelled" => Marked(e, word).status = "cancelled"
<1>1. mission \in MissionState /\ mission.plan \in 0 .. Len(base) /\ mission.exec \in 0 .. Len(execs)
      /\ Len(base) \in Nat /\ Len(execs) \in Nat
  BY CurrentIs, CallFacts
<1>2. mission.plan <= Len(base) /\ mission.exec <= Len(execs)
  BY <1>1
<1>3. CASE mission.status = "cancelled" \/ mission.plan # execs[e].plan
  BY <1>1, <1>2, <1>3 DEF Marked
<1>4. CASE ~(mission.status = "cancelled" \/ mission.plan # execs[e].plan)
  <2>1. e \in Nat /\ e <= Len(execs) /\ word \in {"running", "waiting-review", "blocked", "completed"}
    BY <1>1 DEF Marks
  <2> DEFINE m == [mission EXCEPT !.exec = e, !.status = word]
  <2>2. m \in MissionState /\ m.plan = mission.plan /\ m.exec = e
    BY <1>1, <2>1 DEF MissionState
  <2>3. Marked(e, word) = m
    BY <1>4 DEF Marked
  <2> HIDE DEF m
  <2>4. QED
    BY <1>2, <1>4, <2>1, <2>2, <2>3
<1>5. QED
  BY <1>3, <1>4

LEMMA MarkKeeps ==
  ASSUME MissionInv, NEW c \in Call, Mark(c)
  PROVE  MissionInv'
<1>1. lock = c /\ call[c].exec # 0 /\ call[c].word \in Marks
      /\ (call[c].next = "claiming" => call[c].plan \in 1 .. Len(base)) /\ call[c].at = "marking"
  BY DEF MissionInv, Mark, Placed
<1>2. call[c] \in CallState(Len(execs), Revision) /\ call[c].exec \in 1 .. Len(execs) /\ Len(execs) \in Nat /\ Revision \in Nat
  BY <1>1, CallFacts
<1>3. /\ mission' \in MissionState /\ mission'.plan <= Len(base) /\ mission'.exec <= Len(execs)
      /\ mission.status = "cancelled" => mission'.status = "cancelled"
  BY <1>1, <1>2, MarkedIs DEF Mark
<1>4. /\ UNCHANGED <<base, execs, project, draft, life, torn>>
      /\ lock' = IF call[c].next = "claiming" THEN c ELSE Nobody
  BY DEF Mark
<1>5. LockMoves(c)
  BY <1>1, <1>4 DEF LockMoves
<1> DEFINE v == [call[c] EXCEPT !.at = call[c].next, !.word = "", !.next = "idle"]
<1>6. CASE call[c].next = "idle"
  <2>1. call' = [call EXCEPT ![c] = Idle]
    BY <1>6, CallFacts DEF Mark
  <2>2. call'[c] = Idle /\ Idle.at = "idle" /\ Idle \in CallState(Len(execs), Revision)
    BY <1>2, <2>1, CallFacts, IdleIsCall DEF Idle
  <2>3. Placed(c)' /\ ~Works(c)' /\ Reported(c)'
    BY <2>2 DEF Placed, Works, Reported
  <2>4. QED
    BY <1>3, <1>4, <1>5, <2>1, <2>2, <2>3, CallKeeps
<1>7. CASE call[c].next # "idle"
  <2>1. call[c].next \in {"claiming", "running"} /\ call[c].next \in Ats /\ "" \in CallWords /\ "idle" \in Nexts
    BY <1>2, <1>7 DEF CallState, Ats, CallWords, Nexts
  <2>2. v \in CallState(Len(execs), Revision) /\ v.at = call[c].next /\ v.plan = call[c].plan
        /\ v.exec = call[c].exec /\ v.step = call[c].step
    BY <1>2, <2>1 DEF CallState
  <2>3. call' = [call EXCEPT ![c] = v]
    BY <1>7, CallFacts DEF Mark
  <2> HIDE DEF v
  <2>4. call'[c] = v
    BY <2>3, CallFacts
  <2>5. Placed(c)'
    BY <1>1, <1>4, <2>1, <2>2, <2>4 DEF Placed
  <2>6. Works(c)' => Works(c)
    BY <1>1, <2>1, <2>2, <2>4 DEF Works
  <2>7. Operation(c)' = Operation(c) /\ Reported(c)'
    BY <2>1, <2>2, <2>4 DEF Operation, Reported
  <2>8. Works(c)' => Works(c) /\ Operation(c)' = Operation(c)
    BY <2>6, <2>7, Zenon
  <2>9. QED
    BY <1>3, <1>4, <1>5, <2>2, <2>3, <2>5, <2>7, <2>8, CallKeeps
<1>8. QED
  BY <1>6, <1>7

-------------------------------------------------------------------------------
(* The runner of a step, and what it reports. *)
LEMMA WorkerFacts ==
  ASSUME MissionInv, NEW c \in Call, Works(c)
  PROVE  /\ HasStep(c) /\ call[c].exec \in DOMAIN execs /\ call[c].step \in Step
         /\ Target(c) = execs[call[c].exec] /\ StepOf(c) = execs[call[c].exec].step[call[c].step]
         /\ Target(c).expected \in 0 .. Revision
<1>1. HasStep(c)
  BY DEF MissionInv, Workers
<1>2. call[c].exec \in DOMAIN execs /\ call[c].step \in Step
  BY <1>1, CallFacts DEF HasStep
<1>3. execs[call[c].exec] \in ExecState /\ execs[call[c].exec].expected <= Revision /\ Revision \in Nat
  BY <1>2, RecordFacts
<1>4. execs[call[c].exec].expected \in 0 .. Revision
  BY <1>3 DEF ExecState
<1>5. QED
  BY <1>1, <1>2, <1>4 DEF Target, StepOf

LEMMA ReportKeeps ==
  ASSUME MissionInv, NEW c \in Call, call[c].at = "running", NEW word \in CallWords, NEW rev \in SUBSET (0 .. Revision),
         call' = [call EXCEPT ![c].at = "reporting", ![c].word = word, ![c].rev = rev],
         UNCHANGED <<files, project, draft, lock, life, torn>>,
         word \in {"completed", "overspent"} => Tells(rev, Kind[call[c].step], Target(c).expected, Operation(c))
  PROVE  MissionInv'
<1> DEFINE w == [call[c] EXCEPT !.at = "reporting", !.word = word, !.rev = rev]
<1>1. call[c] \in CallState(Len(execs), Revision) /\ "reporting" \in Ats
  BY CallFacts DEF Ats
<1>2. w \in CallState(Len(execs), Revision) /\ w.at = "reporting" /\ w.word = word /\ w.rev = rev
      /\ w.exec = call[c].exec /\ w.step = call[c].step
  BY <1>1 DEF CallState
<1>3. call' = [call EXCEPT ![c] = w]
  BY <1>1 DEF CallState
<1> HIDE DEF w
<1>4. call'[c] = w
  BY <1>3, CallFacts
<1>5. /\ mission' = mission /\ mission \in MissionState /\ mission.plan <= Len(base) /\ mission.exec <= Len(execs)
      /\ UNCHANGED <<base, execs, project, draft, life, torn>>
  BY Typed DEF MissionInv, files
<1>6. Placed(c)' /\ LockMoves(c)
  BY <1>2, <1>4 DEF Placed, LockMoves
<1>7. Operation(c)' = Operation(c) /\ Target(c)' = Target(c) /\ StepOf(c)' = StepOf(c) /\ Revision' = Revision /\ Works(c)
  BY <1>2, <1>4, <1>5 DEF Operation, Target, StepOf, Revision, Works
<1>8. Tells(rev, Kind[call[c].step], Target(c).expected, Operation(c))
      => Tells(call[c].rev, Kind[call[c].step], Target(c).expected, Operation(c))'
  BY <1>2, <1>4, <1>5, <1>7 DEF Tells
<1>9. Reported(c)'
  BY <1>2, <1>4, <1>8 DEF Reported
<1>10. Works(c)' => Works(c) /\ Operation(c)' = Operation(c)
  BY <1>7, Zenon
<1>11. QED
  BY <1>2, <1>3, <1>5, <1>6, <1>9, <1>10, CallKeeps

LEMMA ReportsKeep ==
  ASSUME MissionInv, NEW c \in Call,
         Inspect(c) \/ WorkflowEnds(c) \/ Fail(c) \/ EditNothing(c) \/ EditRefused(c)
  PROVE  MissionInv'
<1>1. call[c].at = "running" /\ UNCHANGED <<files, project, draft, lock, life, torn>>
  BY DEF Inspect, WorkflowEnds, Fail, EditNothing, EditRefused, Running
<1>2. Target(c).expected \in 0 .. Revision /\ Revision \in 0 .. Revision
  <2>1. Works(c)
    BY <1>1 DEF Works
  <2>2. Revision \in Nat
    BY CallFacts
  <2>3. QED
    BY <2>1, <2>2, WorkerFacts
<1> DEFINE Goes(word, rev) == call' = [call EXCEPT ![c].at = "reporting", ![c].word = word, ![c].rev = rev]
           k == Kind[call[c].step]
           n == Target(c).expected
<1> HIDE DEF Goes
<1>3. \A word \in {"completed", "overspent", "retryable", "blocked"} : word \in CallWords
  BY DEF CallWords
<1>4. ASSUME NEW word \in CallWords, NEW rev \in SUBSET (0 .. Revision), Goes(word, rev),
             word \in {"completed", "overspent"} => Tells(rev, k, n, Operation(c))
      PROVE  MissionInv'
  BY <1>1, <1>4, ReportKeeps DEF Goes
<1>5. CASE Fail(c) \/ EditRefused(c)
  <2>1. PICK word \in {"retryable", "blocked"} : Goes(word, {})
    BY <1>5, Zenon DEF Fail, EditRefused, Report, Goes
  <2>2. QED
    BY <1>3, <1>4, <2>1
<1>6. CASE Inspect(c)
  <2>1. PICK word \in {"completed", "overspent"} : Goes(word, {}) \/ (Revision = n /\ Goes(word, {Revision}))
    BY <1>6, Zenon DEF Inspect, Report, Goes
  <2>2. k = "inspection"
    BY <1>6 DEF Inspect, Running
  <2>3. Tells({}, k, n, Operation(c)) /\ (Revision = n => Tells({Revision}, k, n, Operation(c)))
    BY <2>2 DEF Tells
  <2>4. {} \in SUBSET (0 .. Revision) /\ {Revision} \in SUBSET (0 .. Revision) /\ word \in CallWords
    BY <1>2, <1>3
  <2>5. QED
    BY <1>4, <2>1, <2>3, <2>4
<1>7. CASE WorkflowEnds(c)
  <2>1. Goes("completed", {Revision}) /\ k = "workflow"
    BY <1>7, Zenon DEF WorkflowEnds, Report, Goes, Running
  <2>2. Tells({Revision}, k, n, Operation(c))
    BY <1>2, <2>1 DEF Tells
  <2>3. {Revision} \in SUBSET (0 .. Revision) /\ "completed" \in CallWords
    BY <1>2, <1>3
  <2>4. QED
    BY <1>4, <2>1, <2>2, <2>3
<1>8. CASE EditNothing(c)
  <2>1. Goes("completed", {n}) /\ k = "edit"
    BY <1>8, Zenon DEF EditNothing, Report, Goes, Running
  <2>2. Tells({n}, k, n, Operation(c))
    BY <2>1 DEF Tells
  <2>3. {n} \in SUBSET (0 .. Revision) /\ "completed" \in CallWords
    BY <1>2, <1>3
  <2>4. QED
    BY <1>4, <2>1, <2>2, <2>3
<1>9. QED
  BY <1>5, <1>6, <1>7, <1>8

-------------------------------------------------------------------------------
(* advance: what is recorded of a result whose claim still stands. *)
LEMMA HeldFacts ==
  ASSUME MissionInv, NEW c \in Call, call[c].at = "reporting", Held(c)
  PROVE  LET e == call[c].exec
             s == call[c].step
         IN  /\ e \in DOMAIN execs /\ s \in Step /\ Target(c) = execs[e]
             /\ execs[e] \in ExecState /\ Sound(execs[e])
             /\ StepOf(c).owner = Me(c) /\ Owned(execs[e].step[s])
             /\ \A d \in Call : d # c /\ Works(d) => Operation(d) # <<e, s>>
             /\ \A y : SparesOthers(execs[e], y, s)
<1> DEFINE e == call[c].exec
           s == call[c].step
<1>1. Works(c)
  BY DEF Works
<1>2. e \in DOMAIN execs /\ s \in Step /\ Target(c) = execs[e] /\ StepOf(c) = execs[e].step[s]
  BY <1>1, WorkerFacts
<1>3. execs[e] \in ExecState /\ Sound(execs[e])
  BY <1>2, RecordFacts
<1>4. StepOf(c).owner = Me(c)
  BY DEF Held, StepOf
<1>5. Owned(execs[e].step[s])
  BY <1>2, <1>4, NobodyAssumption DEF Owned, Me, NoOwner
<1>6. \A d \in Call : d # c /\ Works(d) => Operation(d) # <<e, s>>
  BY <1>1 DEF MissionInv, Workers, Operation
<1>7. ~Dormant(execs[e]) /\ \A t \in Step : t # s => ~Owned(execs[e].step[t])
  BY <1>2, <1>3, <1>5, OwnedMeans DEF Dormant
<1>8. \A y : SparesOthers(execs[e], y, s)
  BY <1>7 DEF SparesOthers
<1>9. QED
  BY <1>2, <1>3, <1>4, <1>5, <1>6, <1>8

(* The revision that a completed step leaves is the one of the project, unless   *)
(* it has not edited.                                                           *)
Leaves(c, r) ==
  LET n == Target(c).expected
      k == Kind[call[c].step]
  IN  \/ r = n /\ k = "inspection"
      \/ r = Len(project) /\ k = "workflow"
      \/ r = Len(project) /\ k = "edit" /\ r = n
      \/ r = Len(project) /\ k = "edit" /\ r = n + 1 /\ project[Len(project)] = Operation(c)

LEMMA AfterIs ==
  ASSUME MissionInv, NEW c \in Call, Reporting(c, {"completed", "overspent"}), Held(c), Verified(c)
  PROVE  Leaves(c, After(c)) /\ After(c) \in Nat /\ After(c) <= Revision /\ Target(c).expected <= After(c)
<1> DEFINE n == Target(c).expected
           k == Kind[call[c].step]
           rev == call[c].rev
<1>1. call[c].at = "reporting" /\ call[c].word \in {"completed", "overspent"}
  BY DEF Reporting
<1>2. StepOf(c).owner = Me(c) /\ call[c].step \in Step
  BY <1>1, HeldFacts
<1>3. Tells(rev, k, n, Operation(c))
  BY <1>1, <1>2 DEF MissionInv, Reports, Reported
<1>4. k \in {"inspection", "edit", "workflow"}
  BY <1>2, PlanAssumption DEF Step
<1>5. Revision = Len(project) /\ Revision \in Nat /\ n \in 0 .. Revision
  BY <1>1, WorkerFacts, CallFacts DEF Works, Revision
<1>6. rev \subseteq {Revision}
  BY DEF Verified
<1>7. After(c) = IF rev = {} THEN n ELSE CHOOSE r \in rev : TRUE
  BY DEF After
<1> HIDE DEF n, k, rev
<1>8. rev # {} => After(c) = Revision
  <2>1. rev # {} => rev = {Revision}
    BY <1>6
  <2>2. (CHOOSE r \in {Revision} : TRUE) = Revision
    OBVIOUS
  <2>3. QED
    BY <1>7, <2>1, <2>2
<1>9. CASE k = "inspection"
  <2>1. After(c) = n
    BY <1>3, <1>6, <1>7, <1>8, <1>9 DEF Tells
  <2>2. QED
    BY <1>5, <1>9, <2>1 DEF Leaves, n, k
<1>10. CASE k = "workflow"
  <2>1. rev # {}
    BY <1>3, <1>10 DEF Tells
  <2>2. QED
    BY <1>5, <1>8, <1>10, <2>1 DEF Leaves, n, k
<1>11. CASE k = "edit"
  <2>1. rev = {n} \/ (rev = {n + 1} /\ project[n + 1] = Operation(c))
    BY <1>3, <1>11 DEF Tells
  <2>2. After(c) = Revision /\ (Revision = n \/ (Revision = n + 1 /\ project[Revision] = Operation(c)))
    BY <1>6, <1>8, <2>1
  <2>3. QED
    BY <1>5, <1>11, <2>2 DEF Leaves, n, k
<1>12. QED
  BY <1>4, <1>9, <1>10, <1>11

LEMMA CompletesWith ==
  ASSUME MissionInv, NEW c \in Call, Reporting(c, {"completed", "overspent"}), Held(c), Verified(c),
         NEW y, Gives(AsCompleted(Target(c), call[c].step, After(c)), y),
         y.status = "cancelled" => mission.status = "cancelled",
         Write(call[c].exec, y), NEW w \in CallState(Len(execs), Revision),
         call' = [call EXCEPT ![c] = w], LockMoves(c), Quiet,
         Placed(c)', w.at \notin {"running", "reporting"}, w.at = "marking" => w.next # "running"
  PROVE  MissionInv'
<1> DEFINE e == call[c].exec
           s == call[c].step
           x == execs[e]
           r == After(c)
           z == AsCompleted(x, s, r)
<1>1. call[c].at = "reporting"
  BY DEF Reporting
<1>2. /\ e \in DOMAIN execs /\ s \in Step /\ Target(c) = x /\ x \in ExecState /\ Sound(x) /\ Owned(x.step[s])
      /\ \A d \in Call : d # c /\ Works(d) => Operation(d) # <<e, s>>
      /\ SparesOthers(x, y, s)
  BY <1>1, HeldFacts
<1>3. Leaves(c, r) /\ r \in Nat /\ r <= Revision /\ x.expected <= r
  BY <1>2, AfterIs
<1>4. /\ project \in Seq(Nat \X Nat) /\ Revision = Len(project) /\ x.expected <= Revision
      /\ base[x.plan] \in Nat /\ base[x.plan] <= x.expected
      /\ OwnEdits(project, e, x, base[x.plan]) /\ Alone(project, e, x, base[x.plan])
  BY <1>2, RecordFacts
<1>5. Operation(c) = <<e, s>> /\ Gives(AsCompleted(x, s, r), y)
  BY <1>2 DEF Operation
<1>14. execs' = [execs EXCEPT ![e] = y] /\ UNCHANGED <<mission, base, project, draft, life, torn>>
  BY DEF Write, Quiet
<1> HIDE DEF r, s, e
<1>6. /\ Ends(x, z, s) /\ z.expected = r /\ z.step[s].status = "completed" /\ ~Owned(z.step[s])
  BY <1>2, <1>3, CompletedRecord
<1>7. Gives(z, y)
  BY <1>5
<1> HIDE DEF z
<1>8. Ends(x, y, s) /\ y.expected = r /\ y.step[s].status = "completed"
  BY <1>2, <1>6, <1>7, GivesEnds
<1>9. /\ y \in ExecState /\ Sound(y) /\ y.plan = x.plan
      /\ \A t \in Step : t # s => Passes(x.step[t], y.step[t])
      /\ \A t \in Step : Owned(y.step[t]) => Owned(x.step[t])
      /\ \A t \in Step : t # s => (y.step[t].status = "completed" <=> x.step[t].status = "completed")
  BY <1>8 DEF Ends, Passes, Owned
<1>10. \/ y.expected = x.expected /\ Kind[s] = "inspection"
       \/ y.expected = Len(project) /\ Kind[s] = "workflow" /\ x.expected <= Len(project)
       \/ y.expected = Len(project) /\ Kind[s] = "edit" /\ y.expected = x.expected
       \/ y.expected = Len(project) /\ Kind[s] = "edit" /\ y.expected = x.expected + 1 /\ project[Len(project)] = <<e, s>>
  BY <1>2, <1>3, <1>4, <1>5, <1>8 DEF Leaves, s
<1>11. OwnEdits(project, e, y, base[y.plan]) /\ Alone(project, e, y, base[y.plan])
  BY <1>2, <1>4, <1>8, <1>9, <1>10, CompletedBuild
<1>12. base[y.plan] <= y.expected /\ y.expected <= Revision
  <2>1. x.expected \in Nat /\ y.expected = r /\ y.plan = x.plan
    BY <1>2, <1>8, <1>9 DEF ExecState
  <2>2. Revision \in Nat
    BY CallFacts
  <2>3. QED
    BY <1>3, <1>4, <2>1, <2>2
<1>13. call'[c] = w
  BY CallFacts
<1>15. ~Works(c)'
  BY <1>13 DEF Works
<1>16. Works(c)' => HasStep(c)' /\ Operation(c)' = <<e, s>>
  BY <1>15, Zenon
<1>17. w.at # "reporting" /\ (y.expected = x.expected \/ (s \in Step /\ Owned(x.step[s])))
  BY <1>2
<1>18. QED
  BY <1>2, <1>9, <1>11, <1>12, <1>14, <1>16, <1>17, WriteKeeps

(* How a call goes on that has written its result. *)
LEMMA LeavesWithResult ==
  ASSUME MissionInv, NEW c \in Call, NEW x, call[c].at = "reporting", WriteAndLeave(c, x)
  PROVE  /\ Idle \in CallState(Len(execs), Revision) /\ call' = [call EXCEPT ![c] = Idle] /\ Write(call[c].exec, x)
         /\ LockMoves(c) /\ Placed(c)' /\ Idle.at = "idle"
<1>1. call' = [call EXCEPT ![c] = Idle] /\ lock' = lock /\ Write(call[c].exec, x)
  BY DEF WriteAndLeave
<1>2. Idle \in CallState(Len(execs), Revision) /\ Idle.at = "idle" /\ call'[c] = Idle
  BY <1>1, CallFacts, IdleIsCall DEF Idle
<1>3. LockMoves(c) /\ Placed(c)'
  BY <1>1, <1>2 DEF LockMoves, Placed
<1>4. QED
  BY <1>1, <1>2, <1>3

LEMMA MarksResult ==
  ASSUME MissionInv, NEW c \in Call, NEW x, call[c].exec # 0, lock = Nobody,
         x.status \in Marks, WriteAndMarkMission(c, x)
  PROVE  /\ Write(call[c].exec, x) /\ LockMoves(c) /\ lock' = c /\ Placed(c)'
         /\ WriteAndMark(c, call[c].exec, x, "idle")
         /\ \E w \in CallState(Len(execs), Revision) :
              /\ call' = [call EXCEPT ![c] = w] /\ w.at = "marking" /\ w.next = "idle"
<1> DEFINE e == call[c].exec
<1>1. WriteAndMark(c, e, x, "idle") /\ lock' = c
  BY DEF WriteAndMarkMission
<1>2. Write(e, x) /\ ThenMark(c, e, x.status, "idle") /\ "idle" \in Nexts
  BY <1>1 DEF WriteAndMark, Nexts
<1>3. e \in 1 .. Len(execs) /\ Len(execs) \in Nat /\ Revision \in Nat /\ call \in [Call -> CallState(Len(execs), Revision)]
  BY CallFacts
<1>4. PICK w \in CallState(Len(execs), Revision) :
        /\ call' = [call EXCEPT ![c] = w] /\ w.at = "marking" /\ w.exec = e /\ w.word = x.status /\ w.next = "idle"
  BY <1>2, <1>3, MarkCall
<1>5. Placed(c)'
  BY <1>1, <1>3, <1>4, PlacedToMark
<1>6. LockMoves(c)
  BY <1>1 DEF LockMoves
<1>7. QED
  BY <1>1, <1>2, <1>4, <1>5, <1>6

LEMMA CompletedKeeps ==
  ASSUME MissionInv, NEW c \in Call, Completed(c)
  PROVE  MissionInv'
<1> DEFINE e == call[c].exec
           s == call[c].step
           x == AsCompleted(Target(c), s, After(c))
           y == [x EXCEPT !.status = IF Unfinished(x) = {} THEN "completed" ELSE "running"]
<1>1. Reporting(c, {"completed", "overspent"}) /\ Held(c) /\ Verified(c) /\ Quiet
      /\ IF Mission(c) = "cancelled"
         THEN WriteAndLeave(c, Stopped(x))
         ELSE WriteAndMarkMission(c, IF Mission(c) = "planned anew" \/ Overspent(c) THEN Blocked(x) ELSE y)
  BY DEF Completed, AsCompleted, Quiet
<1>2. call[c].at = "reporting" /\ lock = Nobody
  BY <1>1 DEF Reporting
<1>3. /\ e \in DOMAIN execs /\ s \in Step /\ Target(c) = execs[e] /\ execs[e] \in ExecState /\ Sound(execs[e])
      /\ Owned(execs[e].step[s])
  BY <1>1, <1>2, HeldFacts
<1>4. After(c) \in Nat
  BY <1>1, AfterIs
<1>5. /\ x \in ExecState /\ Sound(x) /\ x.status = execs[e].status /\ x.active = 0
      /\ \A t \in Step : ~Begun(x.step[t])
  BY <1>3, <1>4, CompletedRecord DEF Ends
<1>6. (Mission(c) = "cancelled" <=> mission.status = "cancelled")
      /\ (x.status = "cancelled" => mission.status = "cancelled") /\ e # 0
  BY <1>3, <1>5, RecordFacts DEF Mission
<1> x = AsCompleted(Target(c), s, After(c))
  OBVIOUS
<1> HIDE DEF x
<1>7. CASE Mission(c) = "cancelled"
  <2>1. WriteAndLeave(c, Stopped(x)) /\ mission.status = "cancelled"
    BY <1>1, <1>6, <1>7
  <2>2. Gives(x, Stopped(x)) /\ Stopped(x).status = "cancelled"
    BY <1>5, StoppedGives
  <2> DEFINE q == Stopped(x)
  <2> HIDE DEF q
  <2>3. Gives(x, q) /\ WriteAndLeave(c, q) /\ (q.status = "cancelled" => mission.status = "cancelled")
    BY <2>1, <2>2 DEF q
  <2>4. /\ Idle \in CallState(Len(execs), Revision) /\ call' = [call EXCEPT ![c] = Idle] /\ Write(e, q)
        /\ LockMoves(c) /\ Placed(c)' /\ Idle.at = "idle"
    BY <1>2, <2>3, LeavesWithResult
  <2>5. Idle.at \notin {"running", "reporting"} /\ (Idle.at = "marking" => Idle.next # "running")
    BY <2>4
  <2>6. QED
    BY <1>1, <2>3, <2>4, <2>5, CompletesWith
<1>8. ASSUME NEW q, Gives(x, q), q.status \in Marks, WriteAndMarkMission(c, q)
      PROVE  MissionInv'
  <2>1. /\ Write(e, q) /\ LockMoves(c) /\ Placed(c)'
        /\ \E w \in CallState(Len(execs), Revision) :
             /\ call' = [call EXCEPT ![c] = w] /\ w.at = "marking" /\ w.next = "idle"
    BY <1>2, <1>6, <1>8, MarksResult
  <2>2. PICK w \in CallState(Len(execs), Revision) :
          /\ call' = [call EXCEPT ![c] = w] /\ w.at = "marking" /\ w.next = "idle"
    BY <2>1
  <2>3. (q.status = "cancelled" => mission.status = "cancelled")
        /\ w.at \notin {"running", "reporting"} /\ (w.at = "marking" => w.next # "running")
    BY <1>8, <2>2 DEF Marks
  <2>4. QED
    BY <1>1, <1>8, <2>1, <2>2, <2>3, CompletesWith
<1>9. CASE Mission(c) # "cancelled" /\ (Mission(c) = "planned anew" \/ Overspent(c))
  <2>1. WriteAndMarkMission(c, Blocked(x)) /\ x.status # "cancelled"
    BY <1>1, <1>6, <1>9
  <2>2. Gives(x, Blocked(x)) /\ Blocked(x).status \in Marks
    BY <1>5, <2>1, BlockedGives DEF Marks
  <2>3. QED
    BY <1>8, <2>1, <2>2
<1>10. CASE Mission(c) # "cancelled" /\ ~(Mission(c) = "planned anew" \/ Overspent(c))
  <2>1. WriteAndMarkMission(c, y) /\ x.status # "cancelled"
    BY <1>1, <1>6, <1>10
  <2>2. Gives(x, y) /\ y.status \in {"completed", "running"}
    BY <1>5, <2>1, RestingRecord
  <2> HIDE DEF y
  <2>3. QED
    BY <1>8, <2>1, <2>2 DEF Marks
<1>11. QED
  BY <1>7, <1>9, <1>10

LEMMA UnverifiedKeeps ==
  ASSUME MissionInv, NEW c \in Call, Unverified(c)
  PROVE  MissionInv'
<1> DEFINE e == call[c].exec
           s == call[c].step
           x == execs[e]
           y == [SetStep(x, s, "blocked") EXCEPT !.status = "cancelled", !.active = 0]
<1>1. Reporting(c, {"completed", "overspent"}) /\ Held(c) /\ Quiet
  BY DEF Unverified, Quiet
<1>2. call[c].at = "reporting" /\ lock = Nobody
  BY <1>1 DEF Reporting
<1>3. /\ e \in DOMAIN execs /\ s \in Step /\ Target(c) = x /\ x \in ExecState /\ Sound(x) /\ Owned(x.step[s])
      /\ \A d \in Call : d # c /\ Works(d) => Operation(d) # <<e, s>>
      /\ \A q : SparesOthers(x, q, s)
  BY <1>1, <1>2, HeldFacts
<1>4. (Mission(c) = "cancelled" <=> mission.status = "cancelled")
      /\ (x.status = "cancelled" => mission.status = "cancelled") /\ e # 0
  BY <1>3, RecordFacts DEF Mission
<1>5. CASE Mission(c) = "cancelled"
  <2>1. WriteAndLeave(c, y) /\ mission.status = "cancelled"
    BY <1>3, <1>4, <1>5 DEF Unverified
  <2>2. Ends(x, y, s) /\ y.expected = x.expected /\ y.step[s].status # "completed"
    BY <1>3, UnverifiedRecord
  <2>3. x.step[s].status # "completed"
    BY <1>3, OwnedMeans
  <2> HIDE DEF y, e, s
  <2>4. /\ Idle \in CallState(Len(execs), Revision) /\ call' = [call EXCEPT ![c] = Idle] /\ Write(e, y)
        /\ LockMoves(c) /\ Placed(c)' /\ Idle.at = "idle"
    BY <1>2, <2>1, LeavesWithResult DEF e
  <2>5. \A t \in Step : /\ Owned(y.step[t]) => Owned(x.step[t])
                        /\ y.step[t].status = "completed" <=> x.step[t].status = "completed"
    BY <1>3, <2>2, <2>3, EndsOwners
  <2>6. /\ y \in ExecState /\ Sound(y) /\ y.plan = x.plan /\ execs' = [execs EXCEPT ![e] = y]
        /\ \A t \in Step : t # s => Passes(x.step[t], y.step[t])
        /\ UNCHANGED <<mission, base, project, draft, life, torn>>
        /\ Idle.at \notin {"running", "reporting"} /\ (Idle.at = "marking" => Idle.next # "running")
    BY <1>1, <2>2, <2>4 DEF Ends, Quiet, Write
  <2>7. QED
    BY <1>3, <2>1, <2>2, <2>4, <2>5, <2>6, EndKeeps
<1>6. CASE Mission(c) # "cancelled"
  <2>1. WriteAndMarkMission(c, Blocked(x)) /\ x.status # "cancelled"
    BY <1>3, <1>4, <1>6 DEF Unverified
  <2>2. Gives(x, Blocked(x)) /\ Blocked(x).status = "blocked"
    BY <1>3, <2>1, BlockedGives
  <2> DEFINE q == Blocked(x)
  <2> HIDE DEF q, e
  <2>3. Gives(x, q) /\ q.status = "blocked" /\ WriteAndMarkMission(c, q) /\ q.status \in Marks
    BY <2>1, <2>2 DEF q, Marks
  <2>4. LockMoves(c) /\ lock' = c /\ WriteAndMark(c, e, q, "idle")
    BY <1>2, <1>4, <2>3, MarksResult DEF e
  <2>5. QED
    BY <1>1, <1>3, <2>3, <2>4, GivesAndMarks
<1>7. QED
  BY <1>5, <1>6

LEMMA EndsThenEnds ==
  ASSUME NEW x, NEW y, NEW z, NEW s \in Step, Gives(x, y), Ends(y, z, s), z.expected = y.expected,
         z.step[s].status = "completed" <=> y.step[s].status = "completed"
  PROVE  Ends(x, z, s) /\ z.expected = x.expected /\ (z.step[s].status = "completed" <=> x.step[s].status = "completed")
<1>1. \A t \in Step : Passes(x.step[t], y.step[t])
  BY DEF Gives
<1>2. z.step[s].owner \in {x.step[s].owner, NoOwner}
  BY <1>1 DEF Passes, Ends
<1>3. \A t \in Step : t # s => Passes(x.step[t], z.step[t])
  <2> SUFFICES ASSUME NEW t \in Step, t # s PROVE Passes(x.step[t], z.step[t])
    OBVIOUS
  <2>1. Passes(x.step[t], y.step[t]) /\ Passes(y.step[t], z.step[t])
    BY <1>1 DEF Ends
  <2>2. QED
    BY <2>1 DEF Passes, Owned
<1>4. QED
  BY <1>1, <1>2, <1>3 DEF Ends, Gives, Passes

LEMMA StrandedKeeps ==
  ASSUME MissionInv, NEW c \in Call, Stranded(c)
  PROVE  MissionInv'
<1> DEFINE e == call[c].exec
           s == call[c].step
           x == execs[e]
           y == IF x.status = "cancelled" THEN x ELSE Stopped(x)
           z == [y EXCEPT !.step[s].owner = NoOwner]
<1>1. Reporting(c, {"retryable", "blocked"}) /\ Held(c) /\ Quiet
  BY DEF Stranded, Quiet
<1>2. call[c].at = "reporting" /\ lock = Nobody
  BY <1>1 DEF Reporting
<1>3. /\ e \in DOMAIN execs /\ s \in Step /\ Target(c) = x /\ x \in ExecState /\ Sound(x) /\ Owned(x.step[s])
      /\ \A d \in Call : d # c /\ Works(d) => Operation(d) # <<e, s>>
      /\ \A q : SparesOthers(x, q, s)
  BY <1>1, <1>2, HeldFacts
<1>4. mission.status = "cancelled"
  <2>1. x.status = "cancelled" \/ Mission(c) = "cancelled"
    BY <1>3 DEF Stranded
  <2>2. Mission(c) = "cancelled" => mission.status = "cancelled"
    BY DEF Mission
  <2>3. QED
    BY <1>3, <2>1, <2>2, RecordFacts
<1>5. WriteAndLeave(c, z)
  BY <1>3 DEF Stranded
<1>6. Ends(x, z, s) /\ z.expected = x.expected /\ (z.step[s].status = "completed" <=> x.step[s].status = "completed")
  <2>1. CASE x.status = "cancelled"
    <3>1. y = x
      BY <2>1
    <3>2. QED
      BY <1>3, <2>1, <3>1, StrandedRecord
  <2>2. CASE x.status # "cancelled"
    <3>1. y = Stopped(x) /\ Gives(x, Stopped(x)) /\ Stopped(x).status = "cancelled"
      BY <1>3, <2>2, StoppedGives
    <3>2. Gives(x, y) /\ y.status = "cancelled"
      BY <3>1
    <3>3. y \in ExecState /\ Sound(y)
      BY <3>2 DEF Gives
    <3> HIDE DEF y
    <3>4. Ends(y, z, s) /\ z.expected = y.expected /\ (z.step[s].status = "completed" <=> y.step[s].status = "completed")
      BY <1>3, <3>2, <3>3, StrandedRecord
    <3> HIDE DEF z, x, s
    <3>5. QED
      BY <1>3, <3>2, <3>4, EndsThenEnds
  <2>3. QED
    BY <2>1, <2>2
<1> HIDE DEF z, y, e, s
<1>7. /\ Idle \in CallState(Len(execs), Revision) /\ call' = [call EXCEPT ![c] = Idle] /\ Write(e, z)
      /\ LockMoves(c) /\ Placed(c)' /\ Idle.at = "idle"
  BY <1>2, <1>5, LeavesWithResult DEF e
<1>8. \A t \in Step : /\ Owned(z.step[t]) => Owned(x.step[t])
                      /\ z.step[t].status = "completed" <=> x.step[t].status = "completed"
  BY <1>3, <1>6, EndsOwners
<1>9. /\ z \in ExecState /\ Sound(z) /\ z.plan = x.plan /\ execs' = [execs EXCEPT ![e] = z]
      /\ \A t \in Step : t # s => Passes(x.step[t], z.step[t])
      /\ UNCHANGED <<mission, base, project, draft, life, torn>>
      /\ Idle.at \notin {"running", "reporting"} /\ (Idle.at = "marking" => Idle.next # "running")
  BY <1>1, <1>6, <1>7 DEF Ends, Quiet, Write
<1>10. QED
  BY <1>3, <1>4, <1>6, <1>7, <1>8, <1>9, EndKeeps

LEMMA FailedKeeps ==
  ASSUME MissionInv, NEW c \in Call, Failed(c)
  PROVE  MissionInv'
<1> DEFINE e == call[c].exec
           s == call[c].step
           x == execs[e]
           y == [SetStep(x, s, "retrying") EXCEPT !.status = "running", !.active = s]
<1>1. Reporting(c, {"retryable", "blocked"}) /\ Held(c) /\ Quiet
  BY DEF Failed, Quiet
<1>2. call[c].at = "reporting" /\ lock = Nobody
  BY <1>1 DEF Reporting
<1>3. /\ e \in DOMAIN execs /\ s \in Step /\ Target(c) = x /\ x \in ExecState /\ Sound(x) /\ Owned(x.step[s])
      /\ \A d \in Call : d # c /\ Works(d) => Operation(d) # <<e, s>>
      /\ \A q : SparesOthers(x, q, s)
  BY <1>1, <1>2, HeldFacts
<1>4. x.status # "cancelled" /\ e # 0
  BY <1>3, RecordFacts DEF Failed
<1>5. \/ WriteAndMarkMission(c, Blocked(x))
      \/ WriteAndMarkMission(c, Blocked(y))
      \/ WriteAndMarkMission(c, y)
  BY <1>3 DEF Failed
<1>6. /\ Ends(x, y, s) /\ y.expected = x.expected /\ y.step[s].status # "completed"
      /\ ~Owned(y.step[s]) /\ y.status = "running"
  BY <1>3, <1>4, FailedRecord
<1>7. x.step[s].status # "completed"
  BY <1>3, OwnedMeans
<1> HIDE DEF y
<1>8. ASSUME WriteAndMarkMission(c, Blocked(x)) PROVE MissionInv'
  <2>1. Gives(x, Blocked(x)) /\ Blocked(x).status = "blocked"
    BY <1>3, <1>4, BlockedGives
  <2> DEFINE q == Blocked(x)
  <2> HIDE DEF q, e
  <2>2. Gives(x, q) /\ q.status = "blocked" /\ WriteAndMarkMission(c, q) /\ q.status \in Marks
    BY <1>8, <2>1 DEF q, Marks
  <2>3. LockMoves(c) /\ lock' = c /\ WriteAndMark(c, e, q, "idle")
    BY <1>2, <1>4, <2>2, MarksResult DEF e
  <2>4. QED
    BY <1>1, <1>3, <2>2, <2>3, GivesAndMarks
<1>9. ASSUME NEW q, WriteAndMarkMission(c, q), q.status \in Marks,
             Ends(x, q, s), q.expected = x.expected, q.step[s].status # "completed"
      PROVE  MissionInv'
  <2>1. LockMoves(c) /\ lock' = c /\ WriteAndMark(c, e, q, "idle")
    BY <1>2, <1>4, <1>9, MarksResult
  <2>2. q.step[s].status = "completed" <=> x.step[s].status = "completed"
    BY <1>7, <1>9
  <2> HIDE DEF e, s
  <2>3. QED
    BY <1>1, <1>3, <1>9, <2>1, <2>2, EndsAndMarks
<1>10. ASSUME WriteAndMarkMission(c, Blocked(y)) PROVE MissionInv'
  <2>1. y \in ExecState /\ Sound(y)
    BY <1>6 DEF Ends
  <2>2. Gives(y, Blocked(y)) /\ Blocked(y).status \in Marks
    BY <1>6, <2>1, BlockedGives DEF Marks
  <2> DEFINE q == Blocked(y)
  <2>3. Gives(y, q) /\ q.status \in Marks /\ WriteAndMarkMission(c, q)
    BY <1>10, <2>2
  <2> HIDE DEF q, e, s, x
  <2>4. Ends(x, q, s) /\ q.expected = y.expected /\ (q.step[s].status = "completed" <=> y.step[s].status = "completed")
    BY <1>3, <1>6, <2>3, GivesEnds
  <2>5. QED
    BY <1>6, <1>9, <2>3, <2>4
<1>11. ASSUME WriteAndMarkMission(c, y) PROVE MissionInv'
  BY <1>6, <1>9, <1>11 DEF Marks
<1>12. QED
  BY <1>5, <1>8, <1>10, <1>11

-------------------------------------------------------------------------------
(* review and cancel. *)
LEMMA ReviewKeeps ==
  ASSUME MissionInv, NEW c \in Call, Approve(c) \/ Reject(c)
  PROVE  MissionInv'
<1> DEFINE e == mission.exec
           x == execs[e]
<1>1. PICK s \in Step, st \in {"pending", "blocked"}, answer \in {"approved", "rejected"} :
        Reviewed(c, s) /\ WriteAndMark(c, e, Answered(x, s, st, answer), "idle")
  <2>1. CASE Approve(c)
    <3>1. PICK s \in Step :
            /\ Reviewed(c, s)
            /\ WriteAndMark(c, e, [SetStep(x, s, "pending")
                                     EXCEPT !.status = "running", !.active = 0,
                                            !.step[s].checkpoint = "approved"], "idle")
      BY <2>1 DEF Approve
    <3>2. Answered(x, s, "pending", "approved")
            = [SetStep(x, s, "pending") EXCEPT !.status = "running", !.active = 0, !.step[s].checkpoint = "approved"]
      BY DEF Answered
    <3>3. Reviewed(c, s) /\ WriteAndMark(c, e, Answered(x, s, "pending", "approved"), "idle")
      BY <3>1, <3>2, Zenon
    <3>4. QED
      BY <3>3
  <2>2. CASE Reject(c)
    <3>1. PICK s \in Step :
            /\ Reviewed(c, s)
            /\ WriteAndMark(c, e, [SetStep(x, s, "blocked")
                                     EXCEPT !.status = "blocked", !.active = 0,
                                            !.step[s].checkpoint = "rejected"], "idle")
      BY <2>2 DEF Reject
    <3>2. Answered(x, s, "blocked", "rejected")
            = [SetStep(x, s, "blocked") EXCEPT !.status = "blocked", !.active = 0, !.step[s].checkpoint = "rejected"]
      BY DEF Answered
    <3>3. Reviewed(c, s) /\ WriteAndMark(c, e, Answered(x, s, "blocked", "rejected"), "idle")
      BY <3>1, <3>2, Zenon
    <3>4. QED
      BY <3>3
  <2>3. QED
    BY <2>1, <2>2
<1>2. e \in DOMAIN execs
  BY <1>1, CurrentIs, CallFacts DEF Reviewed
<1>3. x \in ExecState /\ Sound(x)
  BY <1>2, RecordFacts
<1>4. x.status = "waiting-review" /\ x.step[s].status = "waiting-review"
      /\ lock = Nobody /\ lock' = c /\ Quiet
  BY <1>1 DEF Reviewed, Hold, Quiet
<1> DEFINE y == Answered(x, s, st, answer)
<1>5. /\ Ends(x, y, s) /\ y.expected = x.expected /\ y.step[s].status # "completed"
      /\ ~Owned(y.step[s]) /\ y.status = IF st = "pending" THEN "running" ELSE "blocked"
  BY <1>3, <1>4, AnsweredRecord
<1>6. WriteAndMark(c, e, y, "idle")
  BY <1>1
<1> HIDE DEF y, e
<1>7. y.status \in Marks /\ LockMoves(c)
  BY <1>4, <1>5 DEF Marks, LockMoves
<1>8. \A t \in Step : ~Owned(x.step[t])
  BY <1>3, <1>4, OwnedMeans
<1>9. SparesOthers(x, y, s)
  BY <1>4, <1>8 DEF SparesOthers, Dormant
<1>10. \A d \in Call : d # c /\ Works(d) => Operation(d) # <<e, s>>
  BY <1>4, WorkedOn
<1>11. y.step[s].status = "completed" <=> x.step[s].status = "completed"
  BY <1>4, <1>5
<1>12. QED
  BY <1>2, <1>4, <1>5, <1>6, <1>7, <1>9, <1>10, <1>11, EndsAndMarks

LEMMA CancelledIs ==
  ASSUME MissionInv
  PROVE  LET m == [mission EXCEPT !.status = "cancelled"]
         IN  m \in MissionState /\ m.plan <= Len(base) /\ m.exec <= Len(execs) /\ m.status = "cancelled"
<1>1. mission \in MissionState /\ mission.plan <= Len(base) /\ mission.exec <= Len(execs)
  BY Typed DEF MissionInv
<1> DEFINE m == [mission EXCEPT !.status = "cancelled"]
<1>2. m \in MissionState /\ m.plan = mission.plan /\ m.exec = mission.exec /\ m.status = "cancelled"
  BY <1>1 DEF MissionState
<1> HIDE DEF m
<1>3. QED
  BY <1>1, <1>2 DEF m

LEMMA CancelKeeps ==
  ASSUME MissionInv, NEW c \in Call, Cancel(c)
  PROVE  MissionInv'
<1> DEFINE w == [Idle EXCEPT !.at = "cancelling"]
<1>1. /\ mission' \in MissionState /\ mission'.plan <= Len(base) /\ mission'.exec <= Len(execs)
      /\ mission'.status = "cancelled"
  BY CancelledIs DEF Cancel
<1>2. Idle \in CallState(Len(execs), Revision) /\ "cancelling" \in Ats
  BY CallFacts, IdleIsCall DEF Ats
<1>3. w \in CallState(Len(execs), Revision) /\ w.at = "cancelling"
  BY <1>2 DEF CallState
<1>4. call' = [call EXCEPT ![c] = w] /\ lock' = c /\ lock = Nobody
      /\ UNCHANGED <<base, execs, project, draft, life, torn>>
  BY DEF Cancel, Hold
<1> HIDE DEF w
<1>5. call'[c] = w
  BY <1>4, CallFacts
<1>6. Placed(c)' /\ ~Works(c)' /\ Reported(c)' /\ LockMoves(c)
  BY <1>1, <1>3, <1>4, <1>5 DEF Placed, Works, Reported, LockMoves
<1>7. QED
  BY <1>1, <1>3, <1>4, <1>6, CallKeeps

LEMMA StopKeeps ==
  ASSUME MissionInv, NEW c \in Call, Stop(c)
  PROVE  MissionInv'
<1>1. lock = c /\ mission.status = "cancelled"
  BY DEF MissionInv, Placed, Stop
<1>2. call' = [call EXCEPT ![c] = Idle] /\ lock' = Nobody /\ Quiet
  BY DEF Stop, Leave, Quiet
<1>3. LockMoves(c)
  BY <1>1, <1>2 DEF LockMoves
<1>4. CASE UNCHANGED execs
  BY <1>2, <1>3, <1>4, LeaveKeeps DEF Quiet, files
<1>5. CASE Current # 0 /\ Write(Current, Stopped(execs[Current]))
  <2> DEFINE e == Current
             y == Stopped(execs[e])
  <2>1. e \in DOMAIN execs
    BY <1>5, CurrentIs, CallFacts
  <2>2. execs[e] \in ExecState /\ Sound(execs[e])
    BY <2>1, RecordFacts
  <2>3. Gives(execs[e], y) /\ y.status = "cancelled"
    BY <2>2, StoppedGives
  <2>4. execs' = [execs EXCEPT ![e] = y]
    BY <1>5 DEF Write
  <2> HIDE DEF e, y
  <2>5. Idle \in CallState(Len(execs), Revision) /\ Idle.at = "idle" /\ call'[c] = Idle
    BY <1>2, CallFacts, IdleIsCall DEF Idle
  <2>6. /\ Placed(c)' /\ Idle.at \notin {"running", "reporting"} /\ (Idle.at = "marking" => Idle.next # "running")
        /\ y.status \in {"blocked", "cancelled"} /\ (y.status = "cancelled" => mission.status = "cancelled")
        /\ UNCHANGED <<mission, base, project, draft, life, torn>>
    BY <1>1, <1>2, <2>3, <2>5 DEF Placed, Quiet
  <2>7. QED
    BY <1>2, <1>3, <2>1, <2>3, <2>4, <2>5, <2>6, GivesKeeps
<1>6. QED
  BY <1>4, <1>5 DEF Stop

-------------------------------------------------------------------------------
(* Others: the Mission's page and the planner. *)
LEMMA DraftFacts ==
  /\ \A r \in DraftState : r.base \in Nat /\ r.status \in {"", "draft", "ready", "blocked"}
  /\ \A n \in Nat, m \in MissionState :
       m.status \in {"draft", "ready", "blocked"} =>
         LET r == [base |-> n, status |-> m.status, plan |-> m.plan]
         IN  r \in DraftState /\ r.base = n
  /\ NoDraft \in DraftState /\ NoDraft.base = 0
BY DEF DraftState, MissionState, NoDraft

LEMMA LenFacts ==
  ASSUME NEW q \in Seq(Nat)
  PROVE  Len(q) \in Nat /\ Len(q) <= Len(q) /\ DOMAIN q = 1 .. Len(q)
OBVIOUS

LEMMA OneMore ==
  ASSUME NEW q \in Seq(Nat), NEW b \in Nat
  PROVE  LET more == Append(q, b)
         IN  /\ more \in Seq(Nat) /\ Len(more) = Len(q) + 1 /\ Len(more) \in Nat /\ Len(q) <= Len(more)
             /\ \A p \in DOMAIN q : more[p] = q[p]
             /\ \A p \in DOMAIN more : p \in DOMAIN q \/ more[p] = b
OBVIOUS

LEMMA Within ==
  ASSUME NEW n \in Nat, NEW m \in Nat, n <= m
  PROVE  1 .. n \subseteq 1 .. m
OBVIOUS

LEMMA OutsideKeeps ==
  ASSUME MissionInv, UNCHANGED <<execs, project, lock, life, call, torn>>,
         mission' \in MissionState, mission'.plan <= Len(base'), mission'.exec <= Len(execs),
         base' \in Seq(Nat), Len(base) <= Len(base'), \A p \in DOMAIN base : base'[p] = base[p],
         draft' \in DraftState, Past',
         mission.status = "cancelled" => mission'.status = "cancelled"
  PROVE  MissionInv'
<1>1. Revision' = Revision
  BY DEF Revision
<1>2. TypeOK'
  <2>1. /\ execs \in Seq(ExecState) /\ project \in Seq(Nat \X Nat) /\ lock \in Call \cup {Nobody} /\ life \in [Call -> Nat]
        /\ call \in [Call -> CallState(Len(execs), Revision)] /\ torn \in BOOLEAN
    BY Typed DEF MissionInv
  <2>2. QED
    BY <1>1, <2>1, TypedNext
<1>3. DOMAIN base = 1 .. Len(base) /\ DOMAIN base' = 1 .. Len(base') /\ Len(base) \in Nat /\ Len(base') \in Nat
  BY CallFacts, LenFacts, Zenon
<1>4. 1 .. Len(base) \subseteq 1 .. Len(base')
  BY <1>3, Within, Zenon
<1>5. \A d \in Call : Placed(d)'
  BY <1>4 DEF MissionInv, Placed
<1>6. \A d \in Call : /\ StepOf(d)' = StepOf(d) /\ Target(d)' = Target(d) /\ Operation(d)' = Operation(d) /\ Me(d)' = Me(d)
                      /\ Works(d)' <=> Works(d)
  BY DEF StepOf, Target, Operation, Me, Works
<1>7. Workers'
  <2>1. \A d \in Call : HasStep(d)' <=> HasStep(d)
    BY <1>6 DEF HasStep
  <2>2. QED
    BY <1>6, <2>1 DEF MissionInv, Workers
<1>8. Reports'
  <2> SUFFICES ASSUME NEW d \in Call PROVE Reported(d)'
    BY DEF Reports
  <2>1. Reported(d)
    BY DEF MissionInv, Reports
  <2>2. QED
    BY <1>1, <1>6, <2>1 DEF Reported, Tells
<1>9. CancelsFirst' /\ EditsAreOf' /\ NoneTwice'
  BY DEF MissionInv, CancelsFirst, EditsAreOf, NoneTwice
<1>10. Records' /\ EditsAreOwn'
  <2> SUFFICES ASSUME NEW e \in DOMAIN execs
               PROVE  /\ execs[e].plan \in 1 .. Len(base') /\ Sound(execs[e])
                      /\ base'[execs[e].plan] <= execs[e].expected /\ execs[e].expected <= Revision
                      /\ OwnEdits(project, e, execs[e], base'[execs[e].plan])
                      /\ Alone(project, e, execs[e], base'[execs[e].plan])
    BY <1>1 DEF Records, EditsAreOwn
  <2>1. execs[e].plan \in DOMAIN base /\ base'[execs[e].plan] = base[execs[e].plan]
    BY RecordFacts
  <2>2. execs[e].plan \in 1 .. Len(base')
    BY <1>3, <1>4, <2>1
  <2>3. QED
    BY <2>1, <2>2, RecordFacts
<1>11. QED
  BY <1>2, <1>5, <1>7, <1>8, <1>9, <1>10 DEF MissionInv

LEMMA PageKeeps ==
  ASSUME MissionInv, CancelFromPage
  PROVE  MissionInv'
<1>1. /\ mission' \in MissionState /\ mission'.plan <= Len(base) /\ mission'.exec <= Len(execs)
      /\ mission'.status = "cancelled"
  BY CancelledIs DEF CancelFromPage
<1>2. UNCHANGED <<base, draft, execs, project, lock, life, call, torn>>
  BY DEF CancelFromPage
<1>3. /\ base \in Seq(Nat) /\ Len(base) \in Nat /\ Past
      /\ draft \in DraftState
  BY CallFacts, Typed DEF MissionInv
<1>4. Past' /\ Len(base) <= Len(base')
  BY <1>2, <1>3, LenFacts, Zenon DEF Past, Revision
<1>5. QED
  BY <1>1, <1>2, <1>3, <1>4, OutsideKeeps

LEMMA PlannerKeeps ==
  ASSUME MissionInv, DraftPlan \/ SavePlan
  PROVE  MissionInv'
<1>1. /\ base \in Seq(Nat) /\ Len(base) \in Nat /\ Past /\ Revision \in Nat
      /\ draft \in DraftState
      /\ mission \in MissionState /\ mission.plan <= Len(base) /\ mission.exec <= Len(execs)
  BY CallFacts, Typed DEF MissionInv
<1>2. UNCHANGED <<execs, project, lock, life, call, torn>> /\ Revision' = Revision
  BY DEF DraftPlan, SavePlan, files, Revision
<1>3. CASE DraftPlan
  <2>1. mission' = mission /\ base' = base
        /\ draft' = [base |-> Revision, status |-> mission.status, plan |-> mission.plan]
        /\ mission.status \in {"draft", "ready", "blocked"}
    BY <1>3 DEF DraftPlan, files, Plannable
  <2>2. draft' \in DraftState /\ draft'.base = Revision
    BY <1>1, <2>1, DraftFacts, Zenon
  <2>3. Past' /\ Len(base) <= Len(base')
    <3>1. Revision <= Revision
      BY <1>1
    <3>2. QED
      BY <1>1, <1>2, <2>1, <2>2, <3>1, LenFacts, Zenon DEF Past
  <2>4. QED
    BY <1>1, <1>2, <2>1, <2>2, <2>3, OutsideKeeps
<1>4. CASE SavePlan
  <2>1. draft' = NoDraft
    BY <1>4 DEF SavePlan
  <2>2. draft' \in DraftState /\ draft'.base = 0
    BY <2>1, DraftFacts, Zenon
  <2>3. CASE UNCHANGED <<base, mission>>
    <3>2. 0 <= Revision
      BY <1>1
    <3>1. Past' /\ Len(base) <= Len(base')
      BY <1>1, <1>2, <2>2, <2>3, <3>2, LenFacts, Zenon DEF Past
    <3>3. QED
      BY <1>1, <1>2, <2>2, <2>3, <3>1, OutsideKeeps
  <2>4. CASE /\ mission.status = draft.status /\ mission.plan = draft.plan
             /\ base' = Append(base, draft.base)
             /\ mission' = [mission EXCEPT !.plan = Len(base'), !.status = "ready"]
    <3>8. 0 <= Revision
      BY <1>1
    <3>1. draft.base \in Nat /\ draft.base <= Revision /\ 0 <= Revision
      BY <1>1, <3>8, DraftFacts, Zenon DEF Past
    <3>2. /\ base' \in Seq(Nat) /\ Len(base') = Len(base) + 1 /\ Len(base') \in Nat /\ Len(base) <= Len(base')
          /\ \A p \in DOMAIN base : base'[p] = base[p]
          /\ \A p \in DOMAIN base' : p \in DOMAIN base \/ base'[p] = draft.base
      BY <1>1, <2>4, <3>1, OneMore, ZenonT(40)
    <3>3. /\ mission' \in MissionState /\ mission'.plan = Len(base') /\ mission'.exec = mission.exec
      BY <1>1, <2>4, <3>2 DEF MissionState
    <3>4. Past'
      <4>1. \A p \in DOMAIN base' : base'[p] <= Revision
        BY <1>1, <3>1, <3>2, Zenon DEF Past
      <4>2. QED
        BY <1>2, <2>2, <3>1, <4>1, Zenon DEF Past
    <3>5. mission.status # "cancelled"
      BY <1>1, <2>4, DraftFacts
    <3>6. mission'.plan <= Len(base') /\ mission'.exec <= Len(execs)
      <4>1. Len(base') <= Len(base')
        BY <3>2, LenFacts, Zenon
      <4>2. QED
        BY <1>1, <3>3, <4>1, Zenon
    <3>7. QED
      BY <1>1, <1>2, <2>2, <3>2, <3>3, <3>4, <3>5, <3>6, OutsideKeeps
  <2>5. QED
    BY <1>4, <2>3, <2>4 DEF SavePlan
<1>5. QED
  BY <1>3, <1>4

-------------------------------------------------------------------------------
(* The project is edited: by others, or by a call that has a step of an          *)
(* execution which expects the revision that is there.                          *)
OfOthers(o) == o = <<0, 0>>
OfStep(o, e, s) ==
  /\ o = <<e, s>> /\ Kind[s] # "inspection" /\ execs[e].expected = Revision
  /\ execs[e].step[s].status # "completed"
  /\ \A t \in Step : Owned(execs[e].step[t]) => t = s

LEMMA GrowsKeeps ==
  ASSUME MissionInv, NEW o \in Nat \X Nat, project' = Append(project, o),
         UNCHANGED <<files, draft, lock, life, torn>>,
         call' \in [Call -> CallState(Len(execs), Revision + 1)],
         OfOthers(o) \/ \E e \in DOMAIN execs, s \in Step : OfStep(o, e, s),
         \A d \in Call : Placed(d)' /\ (Works(d)' => Works(d)) /\ Operation(d)' = Operation(d),
         Reports'
  PROVE  MissionInv'
<1>1. /\ project \in Seq(Nat \X Nat) /\ Revision = Len(project) /\ Revision \in Nat
      /\ UNCHANGED <<mission, base, execs, draft, lock, life, torn>>
  BY CallFacts, Typed DEF MissionInv, Revision, files
<1>2. /\ project' \in Seq(Nat \X Nat) /\ Revision' = Revision + 1
      /\ DOMAIN project = 1 .. Revision /\ DOMAIN project' = 1 .. Revision + 1
      /\ \A i \in 1 .. Revision : project'[i] = project[i]
      /\ project'[Revision + 1] = o
  <2>1. Revision' = Len(project')
    BY DEF Revision
  <2>2. QED
    BY <1>1, <2>1, AppendedLast
<1>3. TypeOK'
  <2>1. /\ mission \in MissionState /\ mission.plan <= Len(base) /\ mission.exec <= Len(execs)
        /\ base \in Seq(Nat) /\ execs \in Seq(ExecState) /\ draft \in DraftState
        /\ lock \in Call \cup {Nobody} /\ life \in [Call -> Nat] /\ torn \in BOOLEAN
    BY Typed DEF MissionInv
  <2>2. QED
    BY <1>1, <1>2, <2>1, TypedNext, Zenon
<1>4. Workers'
  <2>1. \A d \in Call : Works(d)' => HasStep(d)'
    <3> SUFFICES ASSUME NEW d \in Call, Works(d)' PROVE HasStep(d)'
      OBVIOUS
    <3>1. HasStep(d) /\ call'[d].exec = call[d].exec /\ call'[d].step = call[d].step
      BY DEF MissionInv, Workers, Operation
    <3>2. StepOf(d)' = StepOf(d) /\ Target(d)' = Target(d) /\ Me(d)' = Me(d)
      BY <1>1, <3>1 DEF StepOf, Target, Me
    <3>3. QED
      BY <3>1, <3>2 DEF HasStep
  <2>2. QED
    BY <2>1 DEF MissionInv, Workers
<1>5. Past' /\ CancelsFirst' /\ Records'
  <2>1. \A n \in Nat : n <= Revision => n <= Revision + 1
    BY <1>1
  <2>2. CancelsFirst'
    BY <1>1, Zenon DEF MissionInv, CancelsFirst
  <2>3. draft.base \in Nat /\ \A p \in DOMAIN base : base[p] \in Nat
    <3>1. draft \in DraftState /\ base \in Seq(Nat)
      BY Typed DEF MissionInv
    <3>2. \A p \in DOMAIN base : base[p] \in Nat
      BY <3>1
    <3>3. QED
      BY <3>1, <3>2, DraftFacts, Zenon
  <2>4. Past'
    BY <1>1, <1>2, <2>1, <2>3, Zenon DEF MissionInv, Past
  <2>5. \A e \in DOMAIN execs : execs[e].expected \in Nat
    BY RecordFacts DEF ExecState
  <2>6. Records'
    BY <1>1, <1>2, <2>1, <2>5, Zenon DEF MissionInv, Records
  <2>7. QED
    BY <2>2, <2>4, <2>6
<1>6. EditsAreOwn'
  <2> SUFFICES ASSUME NEW e \in DOMAIN execs
               PROVE  /\ OwnEdits(project', e, execs[e], base[execs[e].plan])
                      /\ Alone(project', e, execs[e], base[execs[e].plan])
    BY <1>1 DEF EditsAreOwn
  <2> DEFINE x == execs[e]
             first == base[x.plan]
  <2>1. /\ x \in ExecState /\ first \in Nat /\ first <= x.expected /\ x.expected <= Len(project)
        /\ OwnEdits(project, e, x, first) /\ Alone(project, e, x, first) /\ e \in Nat /\ e # 0
    BY <1>1, RecordFacts
  <2> HIDE DEF first
  <2>2. CASE \A s \in Step : o # <<e, s>>
    BY <1>1, <2>1, <2>2, ForeignBuild DEF first
  <2>3. CASE \E s \in Step : o = <<e, s>>
    <3>1. PICK s \in Step : o = <<e, s>>
      BY <2>3
    <3>2. OfStep(o, e, s)
      BY <2>1, <3>1 DEF OfOthers, OfStep
    <3>3. x.expected = Len(project) /\ Kind[s] # "inspection" /\ x.step[s].status # "completed"
          /\ \A t \in Step : Owned(x.step[t]) => t = s
      BY <1>1, <3>2 DEF OfStep
    <3>4. OwnEdits(Append(project, <<e, s>>), e, x, first) /\ Alone(Append(project, <<e, s>>), e, x, first)
      BY <1>1, <2>1, <3>3, OwnBuild
    <3>5. QED
      BY <3>1, <3>4 DEF first
  <2>4. QED
    BY <2>2, <2>3
<1>7. EditsAreOf'
  <2>1. OfOthers(o) \/ o \in (DOMAIN execs) \X Step
    BY DEF OfStep
  <2>2. \A i \in 1 .. Revision + 1 : i \in 1 .. Revision \/ i = Revision + 1
    BY <1>1
  <2>3. QED
    BY <1>1, <1>2, <2>1, <2>2 DEF MissionInv, EditsAreOf, OfOthers
<1>8. NoneTwice'
  <2>1. ASSUME NEW i \in 1 .. Revision, project[i] = o PROVE o = <<0, 0>>
    <3> SUFFICES ASSUME NEW e \in DOMAIN execs, NEW s \in Step, OfStep(o, e, s) PROVE FALSE
      BY DEF OfOthers
    <3>1. execs[e].expected = Revision /\ execs[e].step[s].status # "completed" /\ o = <<e, s>>
      BY DEF OfStep
    <3>2. OwnEdits(project, e, execs[e], base[execs[e].plan])
      BY RecordFacts
    <3>3. i <= execs[e].expected
      BY <1>1, <2>1, <3>1
    <3>4. QED
      BY <1>2, <2>1, <3>1, <3>2, <3>3 DEF OwnEdits
  <2>2. \A i \in 1 .. Revision + 1 : i \in 1 .. Revision \/ i = Revision + 1
    BY <1>1
  <2>3. QED
    BY <1>2, <2>1, <2>2 DEF MissionInv, NoneTwice
<1>9. QED
  BY <1>3, <1>4, <1>5, <1>6, <1>7, <1>8 DEF MissionInv

(* What the other calls report stays true. *)
LEMMA ReportsStand ==
  ASSUME MissionInv, NEW o, project' = Append(project, o), UNCHANGED <<files, life>>,
         NEW d \in Call, call'[d] = call[d]
  PROVE  Reported(d)'
<1>1. project \in Seq(Nat \X Nat) /\ Revision = Len(project) /\ Revision \in Nat /\ Reported(d)
  BY CallFacts, Typed DEF MissionInv, Revision, Reports
<1>2. Revision' = Revision + 1 /\ \A i \in 1 .. Revision : project'[i] = project[i]
  BY <1>1 DEF Revision
<1>3. StepOf(d)' = StepOf(d) /\ Target(d)' = Target(d) /\ Operation(d)' = Operation(d) /\ Me(d)' = Me(d)
  BY DEF StepOf, Target, Operation, Me, files
<1> DEFINE n == Target(d).expected
           k == Kind[call[d].step]
<1>4. CASE Works(d)
  <2>1. n \in 0 .. Revision
    BY <1>4, WorkerFacts
  <2>2. Tells(call[d].rev, k, n, Operation(d)) => Tells(call[d].rev, k, n, Operation(d))'
    <3> HIDE DEF n, k
    <3>1. 0 .. Revision \subseteq 0 .. Revision'
      BY <1>1, <1>2
    <3>2. n < Revision => n < Revision' /\ project'[n + 1] = project[n + 1]
      BY <1>1, <1>2, <2>1
    <3>3. n' = n /\ k' = k /\ call'[d].rev = call[d].rev /\ Operation(d)' = Operation(d)
      BY <1>3 DEF n, k
    <3>4. QED
      BY <3>1, <3>2, <3>3 DEF Tells
  <2>3. QED
    BY <1>1, <1>3, <2>2 DEF Reported
<1>5. CASE ~Works(d)
  BY <1>5 DEF Works, Reported
<1>6. QED
  BY <1>4, <1>5

LEMMA IsOfStep ==
  ASSUME MissionInv, NEW c \in Call, call[c].at = "running",
         Kind[call[c].step] # "inspection", Revision = Target(c).expected
  PROVE  /\ call[c].exec \in DOMAIN execs /\ call[c].step \in Step
         /\ OfStep(Operation(c), call[c].exec, call[c].step)
<1> DEFINE e == call[c].exec
           s == call[c].step
<1>1. Works(c)
  BY DEF Works
<1>2. HasStep(c) /\ e \in DOMAIN execs /\ s \in Step /\ Target(c) = execs[e] /\ StepOf(c) = execs[e].step[s]
  BY <1>1, WorkerFacts
<1>3. OneAtATime(execs[e])
  BY <1>2, RecordFacts DEF Sound
<1>4. CASE StepOf(c).owner = Me(c) /\ StepOf(c).status \in {"running", "stopped"}
  <2>1. Owned(execs[e].step[s])
    BY <1>2, <1>4, NobodyAssumption DEF Owned, Me, NoOwner
  <2>2. \A t \in Step : Owned(execs[e].step[t]) => t = s
    BY <1>2, <1>3, <2>1 DEF OneAtATime
  <2>3. QED
    BY <1>2, <1>4, <2>2 DEF OfStep, Operation
<1>5. CASE StepOf(c).owner = NoOwner /\ StepOf(c).status = "blocked" /\ Dormant(Target(c))
  BY <1>2, <1>5 DEF OfStep, Operation, Dormant
<1>6. QED
  BY <1>2, <1>4, <1>5 DEF HasStep

LEMMA EditsKeep ==
  ASSUME MissionInv, EditByOthers \/ \E c \in Call : WorkflowEdits(c)
  PROVE  MissionInv'
<1>1. UNCHANGED <<files, draft, lock, life, torn>> /\ call' = call
  BY DEF EditByOthers, WorkflowEdits
<1>2. PICK o \in Nat \X Nat :
        /\ project' = Append(project, o)
        /\ OfOthers(o) \/ \E e \in DOMAIN execs, s \in Step : OfStep(o, e, s)
  <2>1. CASE EditByOthers
    BY <2>1 DEF EditByOthers, OfOthers
  <2>2. CASE \E c \in Call : WorkflowEdits(c)
    <3>1. PICK c \in Call : WorkflowEdits(c)
      BY <2>2
    <3>2. /\ call[c].at = "running" /\ Kind[call[c].step] = "workflow" /\ Revision = Target(c).expected
          /\ project' = Append(project, Operation(c))
      BY <3>1, Zenon DEF WorkflowEdits, Running
    <3>3. /\ call[c].exec \in DOMAIN execs /\ call[c].step \in Step
          /\ OfStep(Operation(c), call[c].exec, call[c].step)
      BY <3>2, IsOfStep
    <3>4. Operation(c) \in Nat \X Nat
      BY <3>3, CallFacts, PlanAssumption DEF Operation, Step
    <3>5. QED
      BY <3>2, <3>3, <3>4
  <2>3. QED
    BY <2>1, <2>2
<1>3. call' \in [Call -> CallState(Len(execs), Revision + 1)]
  <2>1. /\ Len(execs) \in Nat /\ Revision \in Nat /\ Revision + 1 \in Nat
        /\ Len(execs) <= Len(execs) /\ Revision <= Revision + 1
        /\ call \in [Call -> CallState(Len(execs), Revision)]
    BY CallFacts
  <2>2. call \in [Call -> CallState(Len(execs), Revision + 1)]
    BY <2>1, CallsTyped
  <2>3. QED
    BY <1>1, <2>2
<1>4. \A d \in Call : Placed(d)' /\ (Works(d)' => Works(d)) /\ Operation(d)' = Operation(d)
  <2>1. \A d \in Call : Placed(d)
    BY DEF MissionInv
  <2>2. UNCHANGED <<mission, base, lock>>
    BY <1>1 DEF files
  <2>3. \A d \in Call : Placed(d)'
    BY <1>1, <2>1, <2>2 DEF Placed, Marks
  <2>4. \A d \in Call : (Works(d)' => Works(d)) /\ Operation(d)' = Operation(d)
    BY <1>1 DEF Works, Operation
  <2>5. QED
    BY <2>3, <2>4
<1>5. Reports'
  <2>1. \A d \in Call : Reported(d)'
    BY <1>1, <1>2, ReportsStand
  <2>2. QED
    BY <2>1 DEF Reports
<1>6. QED
  BY <1>1, <1>2, <1>3, <1>4, <1>5, GrowsKeeps

LEMMA EditKeeps ==
  ASSUME MissionInv, NEW c \in Call, Edit(c)
  PROVE  MissionInv'
<1> DEFINE o == Operation(c)
           n == Target(c).expected
<1>1. /\ call[c].at = "running" /\ Kind[call[c].step] = "edit" /\ Revision = n
      /\ project' = Append(project, o)
      /\ UNCHANGED <<files, draft, lock, life, torn>>
  BY DEF Edit, Running
<1>2. PICK word \in {"completed", "overspent"} :
        call' = [call EXCEPT ![c].at = "reporting", ![c].word = word, ![c].rev = {Len(project')}]
  BY Zenon DEF Edit, Report
<1>3. call[c].exec \in DOMAIN execs /\ call[c].step \in Step /\ OfStep(o, call[c].exec, call[c].step)
  BY <1>1, IsOfStep
<1>4. o \in Nat \X Nat
  BY <1>3, CallFacts, PlanAssumption DEF Operation, Step
<1>5. /\ project \in Seq(Nat \X Nat) /\ Revision = Len(project) /\ Revision \in Nat
      /\ Len(execs) \in Nat /\ call \in [Call -> CallState(Len(execs), Revision)]
  BY CallFacts, Typed DEF MissionInv, Revision
<1>6. Len(project') = Revision + 1 /\ Revision' = Revision + 1 /\ project'[Revision + 1] = o
  BY <1>1, <1>4, <1>5 DEF Revision
<1> DEFINE w == [call[c] EXCEPT !.at = "reporting", !.word = word, !.rev = {Len(project')}]
<1>7. call' = [call EXCEPT ![c] = w]
  BY <1>2, <1>5, Zenon
<1>8. /\ w \in CallState(Len(execs), Revision + 1)
      /\ w.at = "reporting" /\ w.rev = {Revision + 1} /\ w.exec = call[c].exec /\ w.step = call[c].step
  <2>1. {Revision + 1} \in SUBSET (0 .. Revision + 1)
    BY <1>5
  <2>2. word \in CallWords
    BY DEF CallWords
  <2>3. call[c] \in CallState(Len(execs), Revision)
    BY <1>5
  <2>4. QED
    BY <1>6, <2>1, <2>2, <2>3 DEF CallState, Ats
<1> HIDE DEF w
<1>9. /\ call' \in [Call -> CallState(Len(execs), Revision + 1)]
      /\ call'[c] = w /\ \A d \in Call : d # c => call'[d] = call[d]
  <2>1. Revision + 1 \in Nat /\ Len(execs) <= Len(execs) /\ Revision <= Revision + 1
    BY <1>5
  <2>2. [call EXCEPT ![c] = w] \in [Call -> CallState(Len(execs), Revision + 1)]
    BY <1>5, <1>8, <2>1, CallsTyped
  <2>3. QED
    BY <1>5, <1>7, <2>2
<1>10. \A d \in Call : Placed(d)' /\ (Works(d)' => Works(d)) /\ Operation(d)' = Operation(d)
  <2> SUFFICES ASSUME NEW d \in Call
               PROVE  Placed(d)' /\ (Works(d)' => Works(d)) /\ Operation(d)' = Operation(d)
    OBVIOUS
  <2>1. UNCHANGED <<mission, base, lock>> /\ Placed(d)
    BY <1>1 DEF files, MissionInv
  <2>2. CASE d = c
    <3>1. Placed(c)'
      BY <1>8, <1>9 DEF Placed
    <3>2. Works(c)
      BY <1>1 DEF Works
    <3>3. QED
      BY <1>8, <1>9, <2>2, <3>1, <3>2 DEF Operation
  <2>3. CASE d # c
    <3>1. call'[d] = call[d]
      BY <1>9, <2>3
    <3>2. Placed(d)'
      BY <2>1, <3>1 DEF Placed
    <3>3. QED
      BY <3>1, <3>2 DEF Works, Operation
  <2>4. QED
    BY <2>2, <2>3
<1>11. Reports'
  <2>1. \A d \in Call : d # c => Reported(d)'
    BY <1>1, <1>9, ReportsStand
  <2>2. Target(c)' = Target(c) /\ call'[c].step = call[c].step /\ Operation(c)' = o
    BY <1>1, <1>8, <1>9 DEF Target, Operation, files
  <2>3. call'[c].rev = {n + 1} /\ n < Revision' /\ project'[n + 1] = o /\ Kind[call'[c].step] = "edit"
    BY <1>1, <1>5, <1>6, <1>8, <1>9, <2>2
  <2>4. Reported(c)'
    <3>1. Target(c)'.expected = n
      BY <2>2
    <3> HIDE DEF n, o
    <3>2. QED
      BY <2>2, <2>3, <3>1 DEF Reported, Tells
  <2>5. QED
    BY <2>1, <2>4 DEF Reports
<1>12. QED
  BY <1>1, <1>3, <1>4, <1>9, <1>10, <1>11, GrowsKeeps

-------------------------------------------------------------------------------
(* A process dies: what it had claimed has an owner that is no more. *)
LEMMA CrashKeeps ==
  ASSUME MissionInv, NEW c \in Call, Crash(c)
  PROVE  MissionInv'
<1>1. /\ execs \in Seq(ExecState) /\ call \in [Call -> CallState(Len(execs), Revision)] /\ lock \in Call \cup {Nobody}
      /\ base \in Seq(Nat) /\ project \in Seq(Nat \X Nat) /\ torn \in BOOLEAN /\ life \in [Call -> Nat]
      /\ draft \in DraftState /\ mission \in MissionState /\ mission.plan <= Len(base) /\ mission.exec <= Len(execs)
  BY Typed DEF MissionInv
<1>2. UNCHANGED <<mission, base, execs, project, draft>> /\ Revision' = Revision
  BY DEF Crash, files, Revision
<1>3. /\ life' = [life EXCEPT ![c] = life[c] + 1] /\ call' = [call EXCEPT ![c] = Idle]
      /\ lock' = IF lock = c THEN Nobody ELSE lock
      /\ torn' = (torn \/ call[c].at \in {"marking", "cancelling"})
  BY DEF Crash
<1>4. Idle \in CallState(Len(execs), Revision) /\ call'[c] = Idle /\ Idle.at = "idle"
  BY <1>1, <1>3, CallFacts, IdleIsCall DEF Idle
<1>5. LockMoves(c)
  BY <1>3 DEF LockMoves
<1>6. TypeOK'
  <2>1. life' \in [Call -> Nat] /\ lock' \in Call \cup {Nobody} /\ torn' \in BOOLEAN
    BY <1>1, <1>3
  <2>2. call' \in [Call -> CallState(Len(execs), Revision)]
    BY <1>1, <1>3, <1>4
  <2>3. QED
    BY <1>1, <1>2, <2>1, <2>2, TypedNext, Zenon
<1>7. \A d \in Call : Placed(d)' /\ (d # c => call'[d] = call[d] /\ Me(d)' = Me(d))
  <2> SUFFICES ASSUME NEW d \in Call
               PROVE  Placed(d)' /\ (d # c => call'[d] = call[d] /\ Me(d)' = Me(d))
    OBVIOUS
  <2>1. Placed(c)'
    BY <1>4 DEF Placed
  <2>2. CASE d # c
    <3>1. Len(base) \in Nat /\ Len(base') = Len(base)
      BY <1>1, <1>2
    <3>2. Len(base) <= Len(base') /\ base' \in Seq(Nat)
      BY <1>1, <1>2, <3>1
    <3>3. call'[d] = call[d] /\ Placed(d)'
      BY <1>2, <1>3, <1>5, <2>2, <3>2, OthersStay
    <3>4. life'[d] = life[d]
      BY <1>1, <1>3, <2>2
    <3>5. QED
      BY <3>3, <3>4 DEF Me
  <2>3. QED
    BY <2>1, <2>2
<1>8. ~Works(c)' /\ Reported(c)'
  BY <1>4 DEF Works, Reported
<1>9. \A d \in Call : Works(d)' => d # c /\ Works(d) /\ HasStep(d)' /\ Operation(d)' = Operation(d)
  <2> SUFFICES ASSUME NEW d \in Call, Works(d)'
               PROVE  d # c /\ Works(d) /\ HasStep(d)' /\ Operation(d)' = Operation(d)
    OBVIOUS
  <2>1. d # c
    BY <1>8
  <2>2. call'[d] = call[d] /\ Me(d)' = Me(d)
    BY <1>7, <2>1
  <2>3. Works(d) /\ Operation(d)' = Operation(d) /\ StepOf(d)' = StepOf(d) /\ Target(d)' = Target(d)
    BY <1>2, <2>2 DEF Works, Operation, StepOf, Target
  <2>4. HasStep(d)
    BY <2>3 DEF MissionInv, Workers
  <2>5. QED
    BY <2>1, <2>2, <2>3, <2>4 DEF HasStep
<1>10. Workers'
  BY <1>9 DEF MissionInv, Workers
<1>11. Reports'
  <2> SUFFICES ASSUME NEW d \in Call, d # c PROVE Reported(d)'
    BY <1>8 DEF Reports
  <2>1. Reported(d) /\ call'[d] = call[d] /\ Me(d)' = Me(d)
    BY <1>7 DEF MissionInv, Reports
  <2>2. /\ StepOf(d)' = StepOf(d) /\ Target(d)' = Target(d) /\ Operation(d)' = Operation(d)
        /\ Revision' = Revision /\ project' = project
    BY <1>2, <2>1 DEF StepOf, Target, Operation
  <2>3. QED
    BY <2>1, <2>2 DEF Reported, Tells
<1>12. /\ Past' /\ CancelsFirst' /\ Records' /\ EditsAreOwn' /\ EditsAreOf' /\ NoneTwice'
  BY <1>2, Zenon DEF MissionInv, Past, CancelsFirst, Records, EditsAreOwn, EditsAreOf, NoneTwice
<1>13. QED
  BY <1>6, <1>7, <1>10, <1>11, <1>12 DEF MissionInv

-------------------------------------------------------------------------------
LEMMA InitInv == Init => MissionInv
<1> SUFFICES ASSUME Init PROVE MissionInv
  OBVIOUS
<1>1. /\ base = << >> /\ execs = << >> /\ project = << >> /\ draft = NoDraft /\ lock = Nobody
      /\ life = [c \in Call |-> 1] /\ call = [c \in Call |-> Idle] /\ torn = FALSE
      /\ mission = [status |-> "draft", plan |-> 0, exec |-> 0]
  BY DEF Init
<1>2. Len(base) = 0 /\ Len(execs) = 0 /\ Revision = 0 /\ DOMAIN base = {} /\ DOMAIN execs = {} /\ DOMAIN project = {}
  BY <1>1 DEF Revision
<1>3. \A c \in Call : call[c] = Idle /\ Idle.at = "idle"
  BY <1>1 DEF Idle
<1>4. TypeOK
  <2>1. mission \in MissionState /\ mission.plan <= Len(base) /\ mission.exec <= Len(execs)
    BY <1>1, <1>2 DEF MissionState
  <2>2. base \in Seq(Nat) /\ execs \in Seq(ExecState) /\ project \in Seq(Nat \X Nat)
    BY <1>1
  <2>3. draft \in DraftState /\ lock \in Call \cup {Nobody} /\ life \in [Call -> Nat] /\ torn \in BOOLEAN
    BY <1>1, DraftFacts
  <2>4. Idle \in CallState(0, 0)
    BY IdleIsCall
  <2>5. call \in [Call -> CallState(Len(execs), Revision)]
    BY <1>1, <1>2, <2>4
  <2>6. QED
    BY <2>1, <2>2, <2>3, <2>5, Typed
<1>5. \A c \in Call : Placed(c) /\ ~Works(c) /\ Reported(c)
  BY <1>3 DEF Placed, Works, Reported
<1>6. Workers /\ Reports
  BY <1>5 DEF Workers, Reports
<1>7. Past
  <2>1. draft.base = 0
    BY <1>1, DraftFacts, Zenon
  <2>2. 0 <= 0
    OBVIOUS
  <2>3. QED
    BY <1>2, <2>1, <2>2, Zenon DEF Past
<1>8. CancelsFirst /\ Records /\ EditsAreOwn /\ EditsAreOf /\ NoneTwice
  BY <1>2 DEF CancelsFirst, Records, EditsAreOwn, EditsAreOf, NoneTwice
<1>9. QED
  BY <1>4, <1>5, <1>6, <1>7, <1>8 DEF MissionInv

LEMMA StutterKeeps ==
  ASSUME MissionInv, UNCHANGED vars
  PROVE  MissionInv'
<1>1. UNCHANGED <<mission, base, execs, project, draft, lock, life, call, torn>> /\ Revision' = Revision
  BY DEF vars, Revision
<1>2. TypeOK'
  BY <1>1, Typed, TypedNext, Zenon DEF MissionInv
<1>3. \A d \in Call : /\ Placed(d)' = Placed(d) /\ Works(d)' = Works(d) /\ HasStep(d)' = HasStep(d)
                      /\ Operation(d)' = Operation(d) /\ Reported(d)' = Reported(d)
  BY <1>1 DEF Placed, Works, HasStep, Operation, Reported, StepOf, Target, Me, Tells
<1>4. /\ Past' /\ CancelsFirst' /\ Records' /\ EditsAreOwn' /\ EditsAreOf' /\ NoneTwice'
  BY <1>1, Zenon DEF MissionInv, Past, CancelsFirst, Records, EditsAreOwn, EditsAreOf, NoneTwice
<1>5. QED
  BY <1>2, <1>3, <1>4 DEF MissionInv, Workers, Reports

LEMMA NextKeeps == MissionInv /\ [Next]_vars => MissionInv'
<1> SUFFICES ASSUME MissionInv, [Next]_vars PROVE MissionInv'
  OBVIOUS
<1>1. ASSUME NEW c \in Call, Advance(c) \/ Supersede(c) \/ Create(c) \/ TakeOver(c) \/ AskReview(c) \/ Claim(c) \/ Mark(c)
      PROVE  MissionInv'
  BY <1>1, AdvanceKeeps, SupersedeKeeps, CreateKeeps, TakeOverKeeps, AskReviewKeeps, ClaimKeeps, MarkKeeps, Zenon
<1>2. ASSUME NEW c \in Call, Rest(c) \/ LetRun(c) \/ Dropped(c) \/ Overtaken(c) \/ DeadEnd(c) \/ Exhausted(c)
      PROVE  MissionInv'
  BY <1>2, LeavesKeep, BlocksKeep, Zenon
<1>3. ASSUME NEW c \in Call,
             Inspect(c) \/ WorkflowEnds(c) \/ Fail(c) \/ EditNothing(c) \/ EditRefused(c) \/ WorkflowEdits(c) \/ Edit(c)
      PROVE  MissionInv'
  BY <1>3, ReportsKeep, EditsKeep, EditKeeps, Zenon
<1>4. ASSUME NEW c \in Call, Completed(c) \/ Unverified(c) \/ Stranded(c) \/ Failed(c)
      PROVE  MissionInv'
  BY <1>4, CompletedKeeps, UnverifiedKeeps, StrandedKeeps, FailedKeeps, Zenon
<1>5. ASSUME NEW c \in Call, Approve(c) \/ Reject(c) \/ Cancel(c) \/ Stop(c) \/ Crash(c)
      PROVE  MissionInv'
  BY <1>5, ReviewKeeps, CancelKeeps, StopKeeps, CrashKeeps, Zenon
<1>6. CASE CancelFromPage \/ DraftPlan \/ SavePlan \/ EditByOthers
  BY <1>6, PageKeeps, PlannerKeeps, EditsKeep, Zenon
<1>7. CASE UNCHANGED vars
  BY <1>7, StutterKeeps
<1>8. QED
  BY <1>1, <1>2, <1>3, <1>4, <1>5, <1>6, <1>7, Zenon DEF Next

(* What the executor, the planner, the page and the editors of the project keep *)
(* true between them, whoever dies in between.                                  *)
THEOREM Invariant == Spec => []MissionInv
<1>1. QED
  BY InitInv, NextKeeps, PTL DEF Spec

-------------------------------------------------------------------------------
(* The files, the lock and the calls hold what the schemas allow. *)
THEOREM TypeCorrect == Spec => []TypeOK
<1>1. MissionInv => TypeOK
  BY DEF MissionInv
<1>2. QED
  BY <1>1, Invariant, PTL

(* A step has one runner at a time and edits the project at most once, whoever  *)
(* claims it, takes it over or dies in it: see the mission's executor.          *)
THEOREM EditsOnce == Spec => []EditedOnce
<1>1. MissionInv => EditedOnce
  <2>1. ASSUME Workers, NEW c \in Call, NEW d \in Call, c # d, call[c].at = "running", call[d].at = "running"
        PROVE  Operation(c) # Operation(d)
    BY <2>1 DEF Workers, Works
  <2>2. QED
    BY <2>1, Zenon DEF MissionInv, NoneTwice, EditedOnce
<1>2. QED
  BY <1>1, Invariant, PTL

(* No call, in whatever order the calls come, is to save an execution that its  *)
(* schema would refuse.                                                         *)
THEOREM AlwaysAccepted == Spec => []RecordsAreAccepted
<1>1. MissionInv => RecordsAreAccepted
  <2> SUFFICES ASSUME MissionInv, NEW e \in DOMAIN execs PROVE Accepted(execs[e])
    BY DEF RecordsAreAccepted
  <2> DEFINE x == execs[e]
  <2>1. Sound(x) /\ base[x.plan] \in Nat /\ x.expected \in Nat /\ base[x.plan] <= x.expected
    BY RecordFacts DEF ExecState
  <2>2. x.expected >= base[x.plan]
    BY <2>1
  <2> HIDE DEF x
  <2>3. Accepted(x)
    BY <2>1, <2>2 DEF Sound, Accepted, Begun
  <2>4. QED
    BY <2>3 DEF x
<1>2. QED
  BY <1>1, Invariant, PTL

(* What an execution expects the project to be was made, since its plan's base  *)
(* revision, by its own completed steps and by nobody else.                     *)
THEOREM BuildsOn == Spec => []BuildsOnItsOwn
<1>1. MissionInv => BuildsOnItsOwn
  <2> SUFFICES ASSUME MissionInv, NEW e \in DOMAIN execs
               PROVE  LET own   == {<<e, s>> : s \in Finished(execs[e])}
                          built == base[execs[e].plan] + 1 .. execs[e].expected
                      IN  /\ execs[e].expected <= Revision
                          /\ \A i \in DOMAIN project : project[i] \in own => i \in built
                          /\ (\A s \in Finished(execs[e]) : Kind[s] # "workflow")
                               => {project[i] : i \in built} \subseteq own
    BY DEF BuildsOnItsOwn
  <2> DEFINE x     == execs[e]
             first == base[x.plan]
             own   == {<<e, s>> : s \in Finished(x)}
             built == first + 1 .. x.expected
  <2>1. /\ first \in Nat /\ x.expected \in Nat /\ x.expected <= Revision
        /\ OwnEdits(project, e, x, first) /\ Alone(project, e, x, first)
        /\ DOMAIN project = 1 .. Revision /\ Revision \in Nat
    BY RecordFacts DEF ExecState
  <2>2. ASSUME NEW i \in DOMAIN project, project[i] \in own PROVE i \in built
    <3>1. PICK s \in Finished(x) : project[i] = <<e, s>>
      BY <2>2
    <3>2. s \in Step /\ x.step[s].status = "completed"
      BY <3>1 DEF Finished
    <3>3. first < i /\ i <= x.expected
      BY <2>1, <3>1, <3>2 DEF OwnEdits
    <3>4. QED
      BY <2>1, <3>3
  <2>3. ASSUME \A s \in Finished(x) : Kind[s] # "workflow" PROVE {project[i] : i \in built} \subseteq own
    <3>1. \A i \in built : \E s \in Finished(x) : project[i] = <<e, s>>
      BY <2>1, <2>3 DEF Alone
    <3>2. QED
      BY <3>1
  <2>4. QED
    BY <2>1, <2>2, <2>3
<1>2. QED
  BY <1>1, Invariant, PTL

-------------------------------------------------------------------------------
(* The Mission and the execution of its plan, and what the page says of them.   *)

(* The step an execution names as its active one is what the execution is at.   *)
ActiveIs(x) ==
  x.active # 0 => \/ x.status = "running" /\ x.step[x.active].status \in {"running", "retrying"}
                  \/ x.status = "waiting-review" /\ x.step[x.active].status = "waiting-review"

(* A call has claimed, or is to claim, in the newest plan that has an execution. *)
Aims(c) ==
  \/ call[c].at = "claiming"
  \/ call[c].at = "marking" /\ call[c].next = "claiming"
AimsRight(c) ==
  Aims(c) => call[c].plan <= mission.plan /\ \A e \in DOMAIN execs : execs[e].plan <= call[c].plan

(* What a call is to mark is what it has written.                               *)
MarksTrue(c) ==
  call[c].at = "marking" =>
    /\ call[c].word = execs[call[c].exec].status
    /\ call[c].next # "idle" => call[c].word = "running"

Marking(e) == \E c \in Call : call[c].at = "marking" /\ call[c].exec = e

(* The Mission has its execution's status, or a call is about to mark it.       *)
Agrees ==
  (/\ ~torn /\ mission.status # "cancelled"
   /\ Current # 0 /\ execs[Current].plan = mission.plan)
  => mission.status = execs[Current].status \/ Marking(Current)

(* A Mission that is completed is left alone.                                   *)
EndsWell ==
  mission.status = "completed" =>
    /\ lock = Nobody /\ mission.exec # 0
    /\ Shown.plan = mission.plan /\ Shown.status = "completed"

PageInv ==
  /\ \A e \in DOMAIN execs : ActiveIs(execs[e]) /\ execs[e].plan <= mission.plan
  /\ (mission.exec = 0 => mission.status \in {"draft", "ready", "cancelled"})
  /\ \A c \in Call : AimsRight(c) /\ MarksTrue(c)
  /\ Agrees /\ EndsWell

-------------------------------------------------------------------------------
(* A step of one call, as it bears on what the page says.                       *)

(* The record of one execution is written.  Where its status changes under the  *)
(* Mission that names it, the call marks the Mission next.                      *)
LEMMA WritePage ==
  ASSUME MissionInv, PageInv, NEW c \in Call, NEW e \in DOMAIN execs, NEW y,
         y.plan = execs[e].plan, ActiveIs(y),
         execs' = [execs EXCEPT ![e] = y], mission' = mission, torn' = torn,
         mission.status # "completed", lock \in {c, Nobody}, call[c].at # "marking",
         \A d \in Call : d # c => call'[d] = call[d],
         call'[c].at = "claiming" => call[c].at = "claiming" /\ call'[c].plan = call[c].plan,
         call'[c].at = "marking" =>
           /\ call'[c].exec = e /\ call'[c].word = y.status
           /\ call'[c].next = "idle" \/ (call'[c].next = "running" /\ y.status = "running"),
         \/ y.status = execs[e].status
         \/ mission.status = "cancelled"
         \/ execs[e].plan # mission.plan
         \/ call'[c].at = "marking"
  PROVE  PageInv'
<1>1. /\ DOMAIN execs' = DOMAIN execs /\ execs'[e] = y /\ Len(execs') = Len(execs)
      /\ \A f \in DOMAIN execs : f # e => execs'[f] = execs[f]
  BY CallFacts
<1>2. ASSUME NEW d \in Call, d # c PROVE call[d].at \notin {"marking", "claiming"}
  <2>1. Placed(d)
    BY DEF MissionInv
  <2>2. QED
    BY <1>2, <2>1, NobodyAssumption DEF Placed
<1>3. Current' = Current /\ (Current # 0 => Current \in DOMAIN execs)
  BY <1>1, CurrentIs, CallFacts DEF Current
<1>4. ASSUME NEW f \in DOMAIN execs'
      PROVE  execs'[f].plan = execs[f].plan /\ ActiveIs(execs'[f]) /\ execs'[f].plan <= mission'.plan
  BY <1>1, <1>4 DEF PageInv
<1>5. ASSUME NEW d \in Call PROVE AimsRight(d)' /\ MarksTrue(d)'
  <2>1. CASE d # c
    BY <1>2, <2>1 DEF AimsRight, Aims, MarksTrue
  <2>2. CASE d = c
    <3>1. MarksTrue(c)'
      BY <1>1 DEF MarksTrue
    <3>2. Aims(c)' => Aims(c) /\ call'[c].plan = call[c].plan
      BY DEF Aims
    <3>3. AimsRight(c)
      BY DEF PageInv
    <3>4. AimsRight(c)'
      BY <1>1, <1>4, <3>2, <3>3 DEF AimsRight
    <3>5. QED
      BY <2>2, <3>1, <3>4
  <2>3. QED
    BY <2>1, <2>2
<1>6. Agrees'
  <2> SUFFICES ASSUME ~torn', mission'.status # "cancelled", Current' # 0, execs'[Current'].plan = mission'.plan
               PROVE  mission'.status = execs'[Current'].status \/ Marking(Current)'
    BY DEF Agrees
  <2> DEFINE k == Current
  <2>1. k \in DOMAIN execs /\ k # 0 /\ Current' = k
    BY <1>3
  <2>2. execs[k].plan = mission.plan
    BY <1>1, <1>4, <2>1
  <2>3. mission.status = execs[k].status
    <3>1. ~Marking(k)
      BY <1>2 DEF Marking
    <3>2. QED
      BY <2>1, <2>2, <3>1 DEF PageInv, Agrees
  <2> HIDE DEF k
  <2>4. CASE k # e
    BY <1>1, <2>1, <2>3, <2>4
  <2>5. CASE k = e
    <3>1. CASE call'[c].at = "marking"
      <4>1. Marking(Current)'
        BY <2>1, <2>5, <3>1 DEF Marking
      <4>2. QED
        BY <4>1
    <3>2. CASE y.status = execs[e].status
      BY <1>1, <2>1, <2>3, <2>5, <3>2
    <3>3. QED
      BY <2>2, <2>5, <3>1, <3>2
  <2>6. QED
    BY <2>4, <2>5
<1>7. EndsWell'
  BY DEF EndsWell
<1>8. mission'.exec = 0 => mission'.status \in {"draft", "ready", "cancelled"}
  BY DEF PageInv
<1>9. QED
  BY <1>4, <1>5, <1>6, <1>7, <1>8 DEF PageInv

(* A call goes on, and writes nothing.                                          *)
LEMMA CallPage ==
  ASSUME MissionInv, PageInv, NEW c \in Call,
         mission' = mission, execs' = execs, torn => torn',
         \A d \in Call : d # c => call'[d] = call[d],
         call[c].at = "marking" => torn',
         call'[c].at # "marking",
         call'[c].at = "claiming" =>
           call'[c].plan = mission.plan \/ (call[c].at = "claiming" /\ call'[c].plan = call[c].plan),
         mission.status = "completed" => lock' = Nobody
  PROVE  PageInv'
<1>1. mission.plan \in Nat
  BY CurrentIs DEF MissionState
<1>2. ASSUME NEW d \in Call PROVE AimsRight(d)' /\ MarksTrue(d)'
  <2>1. AimsRight(d) /\ MarksTrue(d)
    BY DEF PageInv
  <2>2. CASE d # c
    BY <2>1, <2>2 DEF AimsRight, Aims, MarksTrue
  <2>3. CASE d = c
    <3>1. MarksTrue(d)'
      BY <2>3 DEF MarksTrue
    <3>2. CASE call'[c].plan = mission.plan
      BY <1>1, <2>3, <3>1, <3>2 DEF AimsRight, PageInv
    <3>3. CASE call[c].at = "claiming" /\ call'[c].plan = call[c].plan
      BY <2>1, <2>3, <3>1, <3>3 DEF AimsRight, Aims
    <3>4. CASE call'[c].at # "claiming"
      BY <2>3, <3>1, <3>4 DEF AimsRight, Aims
    <3>5. QED
      BY <3>2, <3>3, <3>4
  <2>4. QED
    BY <2>2, <2>3
<1>3. Current' = Current
  BY DEF Current
<1>4. Agrees'
  <2>1. Agrees
    BY DEF PageInv
  <2>2. ASSUME ~torn', Marking(Current) PROVE Marking(Current)'
    BY <1>3, <2>2 DEF Marking
  <2>3. QED
    BY <1>3, <2>1, <2>2 DEF Agrees
<1>5. EndsWell'
  BY DEF EndsWell, PageInv, Shown
<1>6. QED
  BY <1>2, <1>4, <1>5 DEF PageInv

(* The Mission is cancelled.                                                    *)
LEMMA CancelledPage ==
  ASSUME MissionInv, PageInv, mission' = [mission EXCEPT !.status = "cancelled"], execs' = execs,
         \A d \in Call : call'[d] = call[d] \/ call'[d].at \notin {"claiming", "marking"}
  PROVE  PageInv'
<1>1. mission'.plan = mission.plan /\ mission'.exec = mission.exec /\ mission'.status = "cancelled"
  BY CurrentIs DEF MissionState
<1>2. ASSUME NEW d \in Call PROVE AimsRight(d)' /\ MarksTrue(d)'
  <2>1. AimsRight(d) /\ MarksTrue(d)
    BY DEF PageInv
  <2>2. QED
    BY <1>1, <2>1 DEF AimsRight, Aims, MarksTrue
<1>3. Agrees' /\ EndsWell'
  BY <1>1 DEF Agrees, EndsWell
<1>4. QED
  BY <1>1, <1>2, <1>3 DEF PageInv

-------------------------------------------------------------------------------
(* The steps of a call that write no execution.                                 *)

(* Where a call is: no other has written what it is to mark.                    *)
LEMMA OthersCalls ==
  ASSUME MissionInv, NEW c \in Call, NEW w, call' = [call EXCEPT ![c] = w]
  PROVE  call'[c] = w /\ \A d \in Call : d # c => call'[d] = call[d]
BY CallFacts

LEMMA LeavesPage ==
  ASSUME MissionInv, PageInv, NEW c \in Call, Advance(c) \/ Rest(c) \/ LetRun(c) \/ Dropped(c)
  PROVE  PageInv'
<1>1. CASE Advance(c)
  <2> DEFINE w == [Idle EXCEPT !.at = "claiming", !.plan = mission.plan, !.exec = Current]
  <2>1. call' = [call EXCEPT ![c] = w] /\ call[c].at = "idle" /\ mission.status # "completed"
        /\ mission' = mission /\ execs' = execs /\ torn' = torn
    BY <1>1 DEF Advance, files
  <2>2. w.at = "claiming" /\ w.plan = mission.plan
    BY DEF Idle
  <2> HIDE DEF w
  <2>3. call'[c] = w /\ \A d \in Call : d # c => call'[d] = call[d]
    BY <2>1, OthersCalls
  <2>4. QED
    BY <2>1, <2>2, <2>3, CallPage
<1>2. CASE Rest(c) \/ LetRun(c) \/ Dropped(c)
  <2>1. call' = [call EXCEPT ![c] = Idle] /\ call[c].at \in {"claiming", "reporting"}
        /\ mission' = mission /\ execs' = execs /\ torn' = torn
    BY <1>2 DEF Rest, LetRun, Dropped, Leave, Found, Claiming, files
  <2>2. call'[c] = Idle /\ \A d \in Call : d # c => call'[d] = call[d]
    BY <2>1, OthersCalls
  <2>3. lock' = Nobody \/ lock' = lock
    BY <1>2 DEF Rest, LetRun, Dropped, Leave
  <2>4. mission.status = "completed" => lock' = Nobody
    BY <2>3 DEF PageInv, EndsWell
  <2>5. Idle.at = "idle"
    BY DEF Idle
  <2>6. QED
    BY <2>1, <2>2, <2>4, <2>5, CallPage
<1>3. QED
  BY <1>1, <1>2

(* The runner of a step edits the project and reports.                          *)
LEMMA ReportsPage ==
  ASSUME MissionInv, PageInv, NEW c \in Call,
         \/ Inspect(c) \/ WorkflowEnds(c) \/ Fail(c) \/ Edit(c) \/ EditNothing(c) \/ EditRefused(c)
  PROVE  PageInv'
<1>1. call[c].at = "running" /\ mission' = mission /\ execs' = execs /\ torn' = torn /\ lock' = lock
  BY DEF Inspect, WorkflowEnds, Fail, Edit, EditNothing, EditRefused, Running, files
<1>2. PICK word, rev : call' = [call EXCEPT ![c].at = "reporting", ![c].word = word, ![c].rev = rev]
  BY DEF Inspect, WorkflowEnds, Fail, Edit, EditNothing, EditRefused, Report
<1> DEFINE w == [call[c] EXCEPT !.at = "reporting", !.word = word, !.rev = rev]
<1>3. call[c] \in CallState(Len(execs), Revision)
  BY CallFacts
<1>4. w.at = "reporting"
  BY <1>3 DEF CallState
<1>5. call' = [call EXCEPT ![c] = w]
  BY <1>2, <1>3 DEF CallState
<1> HIDE DEF w
<1>6. call'[c] = w /\ \A d \in Call : d # c => call'[d] = call[d]
  BY <1>5, OthersCalls
<1>7. mission.status = "completed" => lock' = Nobody
  BY <1>1 DEF PageInv, EndsWell
<1>8. QED
  BY <1>1, <1>4, <1>6, <1>7, CallPage

(* A process dies; what it was about to mark is torn.                           *)
LEMMA CrashPage ==
  ASSUME MissionInv, PageInv, NEW c \in Call, Crash(c)
  PROVE  PageInv'
<1>1. /\ call' = [call EXCEPT ![c] = Idle] /\ mission' = mission /\ execs' = execs
      /\ (torn => torn') /\ (call[c].at = "marking" => torn')
      /\ lock' = (IF lock = c THEN Nobody ELSE lock)
  BY DEF Crash, files
<1>2. call'[c] = Idle /\ \A d \in Call : d # c => call'[d] = call[d]
  BY <1>1, OthersCalls
<1>3. mission.status = "completed" => lock' = Nobody
  BY <1>1 DEF PageInv, EndsWell
<1>4. Idle.at = "idle"
  BY DEF Idle
<1>5. QED
  BY <1>1, <1>2, <1>3, <1>4, CallPage

(* What others do to the project is not on the page.                            *)
LEMMA SamePage ==
  ASSUME PageInv, mission' = mission, execs' = execs, call' = call, lock' = lock, torn' = torn
  PROVE  PageInv'
BY DEF PageInv, AimsRight, Aims, MarksTrue, Agrees, Marking, Current, EndsWell, Shown

(* The Mission is cancelled, by the executor or from its page.                  *)
LEMMA CancelPage ==
  ASSUME MissionInv, PageInv, CancelFromPage \/ \E c \in Call : Cancel(c)
  PROVE  PageInv'
<1>1. CASE CancelFromPage
  BY <1>1, CancelledPage DEF CancelFromPage
<1>2. ASSUME NEW c \in Call, Cancel(c) PROVE PageInv'
  <2> DEFINE w == [Idle EXCEPT !.at = "cancelling"]
  <2>1. call' = [call EXCEPT ![c] = w] /\ mission' = [mission EXCEPT !.status = "cancelled"] /\ execs' = execs
    BY <1>2 DEF Cancel
  <2>2. w.at = "cancelling"
    BY DEF Idle
  <2> HIDE DEF w
  <2>3. call'[c] = w /\ \A d \in Call : d # c => call'[d] = call[d]
    BY <2>1, OthersCalls
  <2>4. \A d \in Call : call'[d] = call[d] \/ call'[d].at \notin {"claiming", "marking"}
    BY <2>2, <2>3
  <2>5. QED
    BY <2>1, <2>4, CancelledPage
<1>3. QED
  BY <1>1, <1>2

(* A new plan has no execution yet.                                             *)
LEMMA PlanPage ==
  ASSUME MissionInv, PageInv, SavePlan
  PROVE  PageInv'
<1>1. execs' = execs /\ call' = call /\ lock' = lock /\ torn' = torn
  BY DEF SavePlan
<1>2. CASE UNCHANGED <<base, mission>>
  BY <1>1, <1>2, SamePage
<1>3. CASE base' = Append(base, draft.base) /\ mission' = [mission EXCEPT !.plan = Len(base'), !.status = "ready"]
  <2>1. mission \in MissionState /\ mission.plan <= Len(base) /\ base \in Seq(Nat) /\ draft.base \in Nat
    BY Typed DEF MissionInv, DraftState
  <2>2. Len(base') = Len(base) + 1 /\ Len(base) \in Nat
    BY <1>3, <2>1
  <2>3. mission'.plan = Len(base) + 1 /\ mission'.status = "ready" /\ mission'.exec = mission.exec
        /\ mission.plan \in Nat
    BY <1>3, <2>1, <2>2 DEF MissionState
  <2>4. ASSUME NEW e \in DOMAIN execs
        PROVE  ActiveIs(execs[e]) /\ execs[e].plan < mission'.plan /\ execs[e].plan \in Nat
    <3>1. execs[e].plan \in Nat
      BY RecordFacts DEF ExecState
    <3>2. ActiveIs(execs[e]) /\ execs[e].plan <= mission.plan
      BY DEF PageInv
    <3>3. QED
      BY <2>1, <2>2, <2>3, <3>1, <3>2
  <2>5. ASSUME NEW c \in Call PROVE AimsRight(c)' /\ MarksTrue(c)'
    <3>1. AimsRight(c) /\ MarksTrue(c) /\ call[c].plan \in Nat
      BY CallFacts DEF PageInv, CallState
    <3>2. QED
      BY <1>1, <2>1, <2>2, <2>3, <3>1 DEF AimsRight, Aims, MarksTrue
  <2>6. Current' = Current /\ (Current # 0 => Current \in DOMAIN execs)
    BY <1>1, <2>3, CurrentIs, CallFacts DEF Current
  <2>7. Agrees' /\ EndsWell'
    BY <1>1, <2>3, <2>4, <2>6 DEF Agrees, EndsWell
  <2>8. QED
    BY <1>1, <2>3, <2>4, <2>5, <2>7 DEF PageInv
<1>4. QED
  BY <1>2, <1>3 DEF SavePlan

-------------------------------------------------------------------------------
(* The steps of a call that write an execution.                                 *)

(* An execution that waits, or is over, names what its status says.             *)
LEMMA ActiveByStatus ==
  ASSUME NEW y, Sound(y), y.status \in {"waiting-review", "completed", "cancelled"} \/ y.active = 0
  PROVE  ActiveIs(y)
BY DEF Sound, ActiveIs

LEMMA BlockedIsActive ==
  ASSUME NEW x \in ExecState
  PROVE  Blocked(x).plan = x.plan /\ Blocked(x).status = "blocked" /\ ActiveIs(Blocked(x))
<1> DEFINE z == [x EXCEPT !.status = "blocked", !.active = 0]
           s == First(Unfinished(x))
<1>1. z \in ExecState /\ z.status = "blocked" /\ z.plan = x.plan /\ z.active = 0
  BY DEF ExecState
<1>2. Blocked(x) = IF Unfinished(x) = {} THEN z ELSE SetStep(z, s, "blocked")
  BY DEF Blocked
<1>3. Unfinished(x) # {} => s \in Step
  BY FirstIs DEF Unfinished
<1>4. "blocked" \in Words
  BY DEF Words
<1> HIDE DEF z, s
<1>5. CASE Unfinished(x) = {}
  BY <1>1, <1>2, <1>5 DEF ActiveIs
<1>6. CASE Unfinished(x) # {}
  <2>1. SetStep(z, s, "blocked").plan = z.plan /\ SetStep(z, s, "blocked").status = z.status
        /\ SetStep(z, s, "blocked").active = z.active
    BY <1>1, <1>3, <1>4, <1>6, SetStepFields
  <2>2. QED
    BY <1>1, <1>2, <1>6, <2>1 DEF ActiveIs
<1>7. QED
  BY <1>5, <1>6

(* An execution that a call holds a claim in, or is at, is not a completed one.  *)
LEMMA NotOver ==
  ASSUME MissionInv, PageInv, NEW c \in Call,
         lock = c \/ (call[c].at = "reporting" /\ Held(c))
  PROVE  mission.status # "completed"
<1> SUFFICES ASSUME mission.status = "completed" PROVE FALSE
  OBVIOUS
<1>1. lock = Nobody /\ mission.exec # 0 /\ Shown.status = "completed"
  BY DEF PageInv, EndsWell
<1>2. call[c].at = "reporting" /\ Held(c)
  BY <1>1, NobodyAssumption
<1>3. /\ call[c].exec = mission.exec /\ call[c].step \in Step
      /\ Sound(execs[mission.exec]) /\ Target(c) = execs[mission.exec]
  BY <1>1, <1>2, HeldFacts DEF Held, Current
<1>4. execs[mission.exec].step[call[c].step].status = "completed"
  <2>1. Finished(execs[mission.exec]) = Step
    BY <1>1, <1>3 DEF Sound, Shown
  <2>2. QED
    BY <1>3, <2>1 DEF Finished
<1>5. QED
  BY <1>2, <1>3, <1>4 DEF Held

(* It writes an execution and goes on to mark the Mission with its status.      *)
LEMMA MarksPage ==
  ASSUME MissionInv, PageInv, NEW c \in Call, NEW e \in DOMAIN execs, NEW y, y.plan = execs[e].plan, ActiveIs(y),
         WriteAndMark(c, e, y, "idle"), y.status \in Marks, Quiet,
         mission.status # "completed", lock \in {c, Nobody}, call[c].at # "marking"
  PROVE  PageInv'
<1>1. e \in 1 .. Len(execs) /\ "idle" \in Nexts /\ Len(execs) \in Nat /\ Revision \in Nat
      /\ call \in [Call -> CallState(Len(execs), Revision)]
  BY CallFacts DEF Nexts
<1>2. PICK w \in CallState(Len(execs), Revision) :
        /\ call' = [call EXCEPT ![c] = w] /\ w.at = "marking" /\ w.exec = e /\ w.word = y.status /\ w.next = "idle"
  BY <1>1, MarkCall DEF WriteAndMark
<1>3. call'[c] = w /\ \A d \in Call : d # c => call'[d] = call[d]
  BY <1>2, OthersCalls
<1>4. execs' = [execs EXCEPT ![e] = y] /\ mission' = mission /\ torn' = torn
  BY DEF WriteAndMark, Write, Quiet
<1>5. QED
  BY <1>2, <1>3, <1>4, WritePage

(* It writes an execution that the Mission asks nothing of, and leaves.         *)
LEMMA WritesAndLeavesPage ==
  ASSUME MissionInv, PageInv, NEW c \in Call, NEW e \in DOMAIN execs, NEW y, y.plan = execs[e].plan, ActiveIs(y),
         execs' = [execs EXCEPT ![e] = y], call' = [call EXCEPT ![c] = Idle], Quiet,
         mission.status = "cancelled", lock \in {c, Nobody}, call[c].at # "marking"
  PROVE  PageInv'
<1>1. call'[c] = Idle /\ Idle.at = "idle" /\ \A d \in Call : d # c => call'[d] = call[d]
  BY OthersCalls DEF Idle
<1>2. mission' = mission /\ torn' = torn
  BY DEF Quiet
<1>3. QED
  BY <1>1, <1>2, WritePage

LEMMA SupersedePage ==
  ASSUME MissionInv, PageInv, NEW c \in Call, Supersede(c)
  PROVE  PageInv'
<1> DEFINE e == call[c].exec
           w == [call[c] EXCEPT !.exec = 0]
<1>1. Claiming(c) /\ e # 0 /\ Target(c).plan # call[c].plan /\ mission' = mission /\ torn' = torn /\ lock' = lock
      /\ call[c].at = "claiming"
  BY DEF Supersede, Claiming
<1>2. e \in DOMAIN execs /\ Target(c) = execs[e] /\ execs[e] \in ExecState /\ lock = c
  BY <1>1, ClaimingFacts
<1>3. call[c] \in CallState(Len(execs), Revision)
  BY CallFacts
<1>4. w.at = "claiming" /\ w.plan = call[c].plan
  BY <1>1, <1>3 DEF CallState
<1>5. call' = [call EXCEPT ![c] = w]
  BY <1>3 DEF Supersede, CallState
<1> HIDE DEF w
<1>6. call'[c] = w /\ \A d \in Call : d # c => call'[d] = call[d]
  BY <1>5, OthersCalls
<1>7. mission.status # "completed"
  BY <1>2, NotOver
<1>8. execs[e].plan # mission.plan
  <2>1. AimsRight(c)
    BY DEF PageInv
  <2>2. execs[e].plan <= call[c].plan /\ call[c].plan <= mission.plan
    BY <1>1, <1>2, <2>1 DEF AimsRight, Aims
  <2>3. execs[e].plan \in Nat /\ call[c].plan \in Nat /\ mission.plan \in Nat
    BY <1>2, <1>3, CurrentIs DEF ExecState, CallState, MissionState
  <2>4. execs[e].plan # call[c].plan
    BY <1>1, <1>2
  <2> HIDE DEF e
  <2>5. QED
    BY <2>2, <2>3, <2>4
<1>9. CASE UNCHANGED execs
  BY <1>1, <1>4, <1>6, <1>7, <1>9, CallPage
<1>10. CASE Write(e, Blocked(execs[e]))
  <2> DEFINE y == Blocked(execs[e])
  <2>1. y.plan = execs[e].plan /\ ActiveIs(y)
    BY <1>2, BlockedIsActive
  <2>2. execs' = [execs EXCEPT ![e] = y]
    BY <1>10 DEF Write
  <2> HIDE DEF y, e
  <2>3. QED
    BY <1>1, <1>2, <1>4, <1>6, <1>7, <1>8, <2>1, <2>2, WritePage
<1>11. QED
  BY <1>2, <1>9, <1>10 DEF Supersede

LEMMA BlocksPage ==
  ASSUME MissionInv, PageInv, NEW c \in Call, Overtaken(c) \/ DeadEnd(c) \/ Exhausted(c)
  PROVE  PageInv'
<1> DEFINE e == call[c].exec
           y == Blocked(Target(c))
<1>1. Found(c) /\ Claiming(c) /\ call[c].at = "claiming"
  BY DEF Overtaken, DeadEnd, Exhausted, Free, Ready, Found, Claiming
<1>2. WriteAndMark(c, e, y, "idle") /\ Quiet
  BY DEF Overtaken, DeadEnd, Exhausted, Quiet
<1>3. e \in DOMAIN execs /\ Target(c) = execs[e] /\ execs[e] \in ExecState /\ lock = c
  BY <1>1, ClaimingFacts DEF Found
<1>4. y.plan = execs[e].plan /\ ActiveIs(y) /\ y.status \in Marks
  BY <1>3, BlockedIsActive DEF Marks
<1>5. mission.status # "completed"
  BY <1>3, NotOver
<1> HIDE DEF y, e
<1>6. QED
  BY <1>1, <1>2, <1>3, <1>4, <1>5, MarksPage

LEMMA AskReviewPage ==
  ASSUME MissionInv, PageInv, NEW c \in Call, AskReview(c)
  PROVE  PageInv'
<1> DEFINE e == call[c].exec
           x == execs[e]
           y(s) == [SetStep(x, s, "waiting-review")
                      EXCEPT !.status = "waiting-review", !.active = s, !.step[s].checkpoint = "pending"]
<1>1. PICK s \in Step :
        /\ Ready(c, s)
        /\ WriteAndMark(c, e, [SetStep(Target(c), s, "waiting-review")
                                 EXCEPT !.status = "waiting-review", !.active = s,
                                        !.step[s].checkpoint = "pending"], "idle")
  BY DEF AskReview
<1>2. Found(c) /\ Target(c).status = "running" /\ Working(Target(c)) = {} /\ Claiming(c) /\ call[c].at = "claiming"
      /\ Runnable(Target(c)) # {} /\ s = First(Runnable(Target(c)))
  BY <1>1 DEF Ready, Free, Found, Claiming
<1>3. e \in DOMAIN execs /\ Target(c) = x /\ x \in ExecState /\ Sound(x) /\ lock = c
  BY <1>2, ClaimingFacts DEF Found
<1> HIDE DEF e
<1>4. /\ x.step[s].status \in {"pending", "retrying"} /\ InTurn(x, s)
      /\ \A t \in Step : t # s => ~Begun(x.step[t])
  BY <1>2, <1>3, RunnableIsNext
<1>5. Ends(x, y(s), s) /\ y(s).status = "waiting-review"
  BY <1>2, <1>3, <1>4, AskedRecord
<1>6. WriteAndMark(c, e, y(s), "idle") /\ Quiet
  BY <1>1, <1>3 DEF AskReview, Quiet
<1> HIDE DEF y
<1>7. y(s).plan = x.plan /\ ActiveIs(y(s)) /\ y(s).status \in Marks
  BY <1>5, ActiveByStatus DEF Ends, Marks
<1>8. mission.status # "completed"
  BY <1>3, NotOver
<1>9. QED
  BY <1>2, <1>3, <1>6, <1>7, <1>8, MarksPage

LEMMA TakeOverPage ==
  ASSUME MissionInv, PageInv, NEW c \in Call, TakeOver(c)
  PROVE  PageInv'
<1> DEFINE e == call[c].exec
           x == execs[e]
           w(s) == [call[c] EXCEPT !.at = "running", !.step = s]
           y(s) == [x EXCEPT !.step[s].owner = Me(c)]
<1>1. PICK s \in Working(Target(c)) :
        /\ Write(e, [Target(c) EXCEPT !.step[s].owner = Me(c)])
        /\ call' = [call EXCEPT ![c].at = "running", ![c].step = s]
  BY DEF TakeOver
<1>2. Found(c) /\ Claiming(c) /\ call[c].at = "claiming" /\ Target(c).status = "running"
      /\ mission' = mission /\ torn' = torn
  BY DEF TakeOver, Found, Claiming
<1>3. e \in DOMAIN execs /\ Target(c) = x /\ x \in ExecState /\ Sound(x) /\ lock = c
  BY <1>2, ClaimingFacts DEF Found
<1>4. s \in Step /\ x.step[s].status = "running"
  BY <1>1, <1>3 DEF Working
<1>5. call[c] \in CallState(Len(execs), Revision)
  BY CallFacts
<1>6. w(s).at = "running" /\ call' = [call EXCEPT ![c] = w(s)]
  BY <1>1, <1>5 DEF CallState
<1>7. execs' = [execs EXCEPT ![e] = y(s)]
  BY <1>1, <1>3 DEF Write
<1>8. Takes(x, y(s), s, Me(c))
  BY <1>2, <1>3, <1>4, MeIsOwner, TakenRecord
<1>9. y(s).active = x.active /\ \A t \in Step : t # s => y(s).step[t] = x.step[t]
  BY <1>3, <1>4 DEF ExecState
<1>10. ActiveIs(x) /\ x.active \in {0} \cup Step
  BY <1>3 DEF PageInv, ExecState
<1> HIDE DEF e, w, y
<1>11. y(s).plan = x.plan /\ y(s).status = x.status /\ y(s).step[s].status = "running" /\ x.status = "running"
  BY <1>2, <1>3, <1>8 DEF Takes
<1>12. ActiveIs(y(s))
  BY <1>9, <1>10, <1>11 DEF ActiveIs
<1>13. call'[c] = w(s) /\ \A d \in Call : d # c => call'[d] = call[d]
  BY <1>6, OthersCalls
<1>14. mission.status # "completed"
  BY <1>3, NotOver
<1>15. QED
  BY <1>2, <1>3, <1>6, <1>7, <1>11, <1>12, <1>13, <1>14, WritePage

LEMMA ClaimPage ==
  ASSUME MissionInv, PageInv, NEW c \in Call, Claim(c)
  PROVE  PageInv'
<1> DEFINE e == call[c].exec
           x == execs[e]
           w(s) == [call[c] EXCEPT !.at = "marking", !.step = s, !.word = "running", !.next = "running"]
           y(s) == Claimed(x, s, Me(c))
<1>1. PICK s \in Step :
        /\ Ready(c, s) /\ ~OverBudget(Target(c), s)
        /\ Write(e, [Target(c) EXCEPT !.total = @ + 1, !.active = s, !.step[s].attempts = @ + 1,
                                      !.step[s].status = "running", !.step[s].owner = Me(c)])
        /\ call' = [call EXCEPT ![c].at = "marking", ![c].step = s, ![c].word = "running", ![c].next = "running"]
  BY DEF Claim
<1>2. Found(c) /\ Claiming(c) /\ call[c].at = "claiming" /\ Target(c).status = "running" /\ Working(Target(c)) = {}
      /\ Runnable(Target(c)) # {} /\ s = First(Runnable(Target(c))) /\ mission' = mission /\ torn' = torn
  BY <1>1 DEF Ready, Free, Found, Claiming, Claim
<1>3. e \in DOMAIN execs /\ Target(c) = x /\ x \in ExecState /\ Sound(x) /\ lock = c
  BY <1>2, ClaimingFacts DEF Found
<1>4. /\ x.step[s].status \in {"pending", "retrying"} /\ InTurn(x, s)
      /\ \A t \in Step : t # s => ~Begun(x.step[t])
      /\ \A t \in Step : ~Owned(x.step[t])
  BY <1>2, <1>3, RunnableIsNext
<1>5. call[c] \in CallState(Len(execs), Revision)
  BY CallFacts
<1>6. w(s).at = "marking" /\ w(s).exec = e /\ w(s).word = "running" /\ w(s).next = "running"
      /\ call' = [call EXCEPT ![c] = w(s)]
  BY <1>1, <1>5 DEF CallState
<1>7. execs' = [execs EXCEPT ![e] = y(s)]
  BY <1>1, <1>3 DEF Write, Claimed
<1>8. ~OverBudget(x, s) /\ Me(c) \in Call \X Nat
  BY <1>1, <1>3, MeIsOwner
<1>9. Takes(x, y(s), s, Me(c))
  BY <1>2, <1>3, <1>4, <1>8, ClaimedRecord
<1>10. y(s).active = s
  BY <1>3 DEF ExecState, Claimed
<1> HIDE DEF e, w, y
<1>11. y(s).plan = x.plan /\ y(s).status = "running" /\ ActiveIs(y(s))
  BY <1>9, <1>10 DEF Takes, ActiveIs
<1>12. call'[c] = w(s) /\ \A d \in Call : d # c => call'[d] = call[d]
  BY <1>6, OthersCalls
<1>13. mission.status # "completed"
  BY <1>3, NotOver
<1>14. QED
  BY <1>2, <1>3, <1>6, <1>7, <1>11, <1>12, <1>13, WritePage

(* The new execution is marked next; what the Mission named before is as it was. *)
LEMMA CreatePage ==
  ASSUME MissionInv, PageInv, NEW c \in Call, Create(c)
  PROVE  PageInv'
<1> DEFINE n == Len(execs)
           p == call[c].plan
           x == [plan |-> p, expected |-> base[p], status |-> "running",
                 active |-> 0, total |-> 0, step |-> [s \in Step |-> NotStarted]]
<1>1. /\ execs \in Seq(ExecState) /\ call \in [Call -> CallState(n, Revision)] /\ n \in Nat
      /\ DOMAIN execs = 1 .. n /\ p \in Nat
  BY CallFacts DEF CallState
<1>2. call[c].at = "claiming" /\ lock = c
  BY ClaimingFacts DEF Create, Claiming
<1>3. execs' = Append(execs, x) /\ ThenMark(c, Len(execs'), "running", "claiming")
      /\ mission' = mission /\ torn' = torn
  BY DEF Create
<1>4. x.plan = p /\ x.status = "running" /\ ActiveIs(x)
  BY DEF ActiveIs
<1> HIDE DEF x
<1>5. /\ Len(execs') = n + 1 /\ DOMAIN execs' = 1 .. n + 1 /\ execs'[n + 1] = x
      /\ \A e \in 1 .. n : execs'[e] = execs[e]
  BY <1>1, <1>3
<1>6. /\ call'[c].at = "marking" /\ call'[c].exec = n + 1 /\ call'[c].word = "running" /\ call'[c].next = "claiming"
      /\ call'[c].plan = p /\ \A d \in Call : d # c => call'[d] = call[d]
  BY <1>1, <1>3, <1>5 DEF ThenMark, CallState
<1>7. mission.status # "completed"
  BY <1>2, NotOver
<1>8. p <= mission.plan /\ \A e \in DOMAIN execs : execs[e].plan <= p
  BY <1>2 DEF PageInv, AimsRight, Aims
<1> HIDE DEF n, p
<1>9. ASSUME NEW e \in DOMAIN execs'
      PROVE  ActiveIs(execs'[e]) /\ execs'[e].plan <= mission'.plan /\ execs'[e].plan <= p
  <2>1. CASE e = n + 1
    BY <1>1, <1>3, <1>4, <1>5, <1>8, <2>1
  <2>2. CASE e # n + 1
    <3>1. e \in 1 .. n
      BY <1>1, <1>5, <1>9, <2>2
    <3>2. QED
      BY <1>1, <1>3, <1>5, <1>8, <3>1 DEF PageInv
  <2>3. QED
    BY <2>1, <2>2
<1>10. ASSUME NEW d \in Call, d # c PROVE call[d].at \notin {"marking", "claiming"}
  <2>1. Placed(d)
    BY DEF MissionInv
  <2>2. QED
    BY <1>2, <1>10, <2>1, NobodyAssumption DEF Placed
<1>11. ASSUME NEW d \in Call PROVE AimsRight(d)' /\ MarksTrue(d)'
  <2>1. CASE d # c
    BY <1>6, <1>10, <2>1 DEF AimsRight, Aims, MarksTrue
  <2>2. CASE d = c
    BY <1>3, <1>4, <1>5, <1>6, <1>8, <1>9, <2>2 DEF AimsRight, MarksTrue
  <2>3. QED
    BY <2>1, <2>2
<1>12. Agrees'
  <2>1. CASE Current' = n + 1
    BY <1>6, <2>1 DEF Agrees, Marking
  <2>2. CASE Current' # n + 1
    <3>1. mission.exec \in 1 .. n /\ Current = mission.exec /\ Current' = mission.exec
      BY <1>1, <1>3, <1>5, <2>2, CurrentIs DEF Current, n
    <3>2. ~Marking(Current)
      BY <1>2, <1>10 DEF Marking
    <3>3. QED
      BY <1>3, <1>5, <3>1, <3>2 DEF Agrees, PageInv
  <2>3. QED
    BY <2>1, <2>2
<1>13. EndsWell' /\ (mission'.exec = 0 => mission'.status \in {"draft", "ready", "cancelled"})
  BY <1>3, <1>7 DEF EndsWell, PageInv
<1>14. QED
  BY <1>9, <1>11, <1>12, <1>13 DEF PageInv

(* The Mission has the status of the execution that is now its own.             *)
LEMMA MarkPage ==
  ASSUME MissionInv, PageInv, NEW c \in Call, Mark(c)
  PROVE  PageInv'
<1> DEFINE e == call[c].exec
<1>1. lock = c /\ e # 0 /\ call[c].word \in Marks /\ call[c].at = "marking"
  BY DEF MissionInv, Mark, Placed
<1>2. call[c] \in CallState(Len(execs), Revision) /\ e \in DOMAIN execs
  BY <1>1, CallFacts
<1>3. /\ mission' = Marked(e, call[c].word) /\ execs' = execs /\ torn' = torn
      /\ lock' = IF call[c].next = "claiming" THEN c ELSE Nobody
  BY DEF Mark
<1>4. call[c].word = execs[e].status /\ (call[c].next # "idle" => call[c].word = "running")
  BY <1>1 DEF PageInv, MarksTrue
<1>5. mission.status # "completed"
  BY <1>1, NotOver
<1>6. ASSUME NEW d \in Call, d # c PROVE call[d].at \notin {"marking", "claiming"} /\ call'[d] = call[d]
  <2>1. Placed(d)
    BY DEF MissionInv
  <2>2. QED
    BY <1>1, <1>6, <2>1, NobodyAssumption, CallFacts DEF Placed, Mark
<1>7. call'[c].at # "marking" /\ (call'[c].at = "claiming" => call[c].next = "claiming" /\ call'[c].plan = call[c].plan)
  <2>1. CASE call[c].next = "idle"
    <3>1. call'[c] = Idle
      BY <2>1, CallFacts DEF Mark
    <3>2. Idle.at = "idle"
      BY DEF Idle
    <3>3. QED
      BY <3>1, <3>2
  <2>2. CASE call[c].next # "idle"
    <3> DEFINE v == [call[c] EXCEPT !.at = call[c].next, !.word = "", !.next = "idle"]
    <3>1. call'[c] = v
      BY <2>2, CallFacts DEF Mark
    <3>2. call[c].next \in Nexts
      BY <1>2 DEF CallState
    <3>3. v.at = call[c].next /\ v.plan = call[c].plan
      BY <1>2 DEF CallState
    <3> HIDE DEF v
    <3>4. QED
      BY <3>1, <3>2, <3>3 DEF Nexts
  <2>3. QED
    BY <2>1, <2>2
<1>8. mission'.plan = mission.plan
      /\ \/ mission' = mission /\ (mission.status = "cancelled" \/ mission.plan # execs[e].plan)
         \/ mission'.exec = e /\ mission'.status = call[c].word /\ mission.plan = execs[e].plan
  BY <1>3, CurrentIs DEF Marked, MissionState
<1> HIDE DEF e
<1>9. ASSUME NEW d \in Call PROVE AimsRight(d)' /\ MarksTrue(d)'
  <2>1. CASE d # c
    BY <1>6, <2>1 DEF AimsRight, Aims, MarksTrue
  <2>2. CASE d = c
    <3>1. AimsRight(c)
      BY DEF PageInv
    <3>2. Aims(c)' => Aims(c) /\ call'[c].plan = call[c].plan
      BY <1>1, <1>7 DEF Aims
    <3>3. QED
      BY <1>3, <1>7, <1>8, <2>2, <3>1, <3>2 DEF AimsRight, MarksTrue
  <2>3. QED
    BY <2>1, <2>2
<1>10. CASE mission' = mission /\ (mission.status = "cancelled" \/ mission.plan # execs[e].plan)
  <2>1. Current' = Current
    BY <1>3, <1>10 DEF Current
  <2>2. Agrees'
    <3>1. CASE mission.status = "cancelled"
      BY <1>10, <3>1 DEF Agrees
    <3>2. CASE mission.plan # execs[e].plan /\ execs[Current].plan = mission.plan
      <4>1. ~Marking(Current)
        BY <1>6, <3>2 DEF Marking, e
      <4>2. QED
        BY <1>3, <1>10, <2>1, <4>1 DEF Agrees, PageInv
    <3>3. CASE execs[Current].plan # mission.plan
      BY <1>3, <1>10, <2>1, <3>3 DEF Agrees
    <3>4. QED
      BY <1>10, <3>1, <3>2, <3>3
  <2>3. EndsWell'
    BY <1>5, <1>10 DEF EndsWell
  <2>4. QED
    BY <1>3, <1>9, <1>10, <2>2, <2>3 DEF PageInv
<1>11. CASE mission'.exec = e /\ mission'.status = call[c].word /\ mission.plan = execs[e].plan
  <2>1. Current' = e
    BY <1>1, <1>11 DEF Current, e
  <2>2. Agrees'
    BY <1>3, <1>4, <1>11, <2>1 DEF Agrees, e
  <2>3. EndsWell'
    <3> SUFFICES ASSUME mission'.status = "completed"
                 PROVE  /\ lock' = Nobody /\ mission'.exec # 0
                        /\ Shown'.plan = mission'.plan /\ Shown'.status = "completed"
      BY DEF EndsWell
    <3>1. Shown' = execs[e]
      BY <1>3, <1>11 DEF Shown
    <3>2. QED
      BY <1>1, <1>3, <1>4, <1>8, <1>11, <3>1 DEF e
  <2>4. mission'.exec # 0
    BY <1>1, <1>11 DEF e
  <2>5. QED
    BY <1>3, <1>8, <1>9, <2>2, <2>3, <2>4 DEF PageInv
<1>12. QED
  BY <1>8, <1>10, <1>11

(* The result of a step.  The execution that it is held in is the Mission's, and *)
(* not one that is over.                                                        *)
LEMMA ResultPage ==
  ASSUME MissionInv, PageInv, NEW c \in Call, call[c].at = "reporting", lock = Nobody, Held(c), Quiet,
         NEW y, y.plan = Target(c).plan, ActiveIs(y),
         \/ WriteAndMarkMission(c, y) /\ y.status \in Marks
         \/ WriteAndLeave(c, y) /\ mission.status = "cancelled"
  PROVE  PageInv'
<1> DEFINE e == call[c].exec
<1>1. e \in DOMAIN execs /\ Target(c) = execs[e]
  BY HeldFacts
<1>2. mission.status # "completed"
  BY NotOver
<1>3. CASE WriteAndMarkMission(c, y) /\ y.status \in Marks
  <2>1. WriteAndMark(c, e, y, "idle")
    BY <1>3 DEF WriteAndMarkMission
  <2> HIDE DEF e
  <2>2. QED
    BY <1>1, <1>2, <1>3, <2>1, MarksPage
<1>4. CASE WriteAndLeave(c, y) /\ mission.status = "cancelled"
  <2>1. execs' = [execs EXCEPT ![e] = y] /\ call' = [call EXCEPT ![c] = Idle]
    BY <1>4 DEF WriteAndLeave, Write
  <2> HIDE DEF e
  <2>2. QED
    BY <1>1, <1>4, <2>1, WritesAndLeavesPage
<1>5. QED
  BY <1>3, <1>4

LEMMA CompletedPage ==
  ASSUME MissionInv, PageInv, NEW c \in Call, Completed(c)
  PROVE  PageInv'
<1> DEFINE e == call[c].exec
           s == call[c].step
           x == AsCompleted(Target(c), s, After(c))
           y == [x EXCEPT !.status = IF Unfinished(x) = {} THEN "completed" ELSE "running"]
<1>1. Reporting(c, {"completed", "overspent"}) /\ Held(c) /\ Verified(c) /\ Quiet
      /\ IF Mission(c) = "cancelled"
         THEN WriteAndLeave(c, Stopped(x))
         ELSE WriteAndMarkMission(c, IF Mission(c) = "planned anew" \/ Overspent(c) THEN Blocked(x) ELSE y)
  BY DEF Completed, AsCompleted, Quiet
<1>2. call[c].at = "reporting" /\ lock = Nobody
  BY <1>1 DEF Reporting
<1>3. /\ s \in Step /\ Target(c) = execs[e] /\ execs[e] \in ExecState /\ Sound(execs[e])
      /\ Owned(execs[e].step[s]) /\ e \in DOMAIN execs
  BY <1>1, <1>2, HeldFacts
<1>4. After(c) \in Nat
  BY <1>1, AfterIs
<1>5. /\ x \in ExecState /\ Sound(x) /\ x.status = execs[e].status /\ x.active = 0 /\ x.plan = Target(c).plan
      /\ \A t \in Step : ~Begun(x.step[t])
  BY <1>3, <1>4, CompletedRecord DEF Ends
<1>6. (Mission(c) = "cancelled" <=> mission.status = "cancelled")
      /\ (x.status = "cancelled" => mission.status = "cancelled")
  BY <1>3, <1>5, RecordFacts DEF Mission
<1> HIDE DEF x
<1>7. CASE Mission(c) = "cancelled"
  <2>1. Gives(x, Stopped(x)) /\ Stopped(x).status = "cancelled"
    BY <1>5, StoppedGives
  <2> DEFINE q == Stopped(x)
  <2>2. /\ WriteAndLeave(c, q) /\ mission.status = "cancelled"
        /\ q.plan = Target(c).plan /\ Sound(q) /\ q.status = "cancelled"
    BY <1>1, <1>5, <1>6, <1>7, <2>1 DEF Gives
  <2> HIDE DEF q
  <2>3. QED
    BY <1>1, <1>2, <2>2, ActiveByStatus, ResultPage
<1>8. CASE Mission(c) # "cancelled" /\ (Mission(c) = "planned anew" \/ Overspent(c))
  <2> DEFINE q == Blocked(x)
  <2>1. WriteAndMarkMission(c, q) /\ q.plan = Target(c).plan /\ q.status \in Marks /\ ActiveIs(q)
    BY <1>1, <1>5, <1>8, BlockedIsActive DEF Marks
  <2> HIDE DEF q
  <2>2. QED
    BY <1>1, <1>2, <2>1, ResultPage
<1>9. CASE Mission(c) # "cancelled" /\ ~(Mission(c) = "planned anew" \/ Overspent(c))
  <2>1. WriteAndMarkMission(c, y)
    BY <1>1, <1>9
  <2>2. y.plan = Target(c).plan /\ y.active = 0 /\ y.status \in Marks
    BY <1>5 DEF ExecState, Marks
  <2> HIDE DEF y
  <2>3. ActiveIs(y)
    BY <2>2 DEF ActiveIs
  <2>4. QED
    BY <1>1, <1>2, <2>1, <2>2, <2>3, ResultPage
<1>10. QED
  BY <1>7, <1>8, <1>9

LEMMA UnverifiedPage ==
  ASSUME MissionInv, PageInv, NEW c \in Call, Unverified(c)
  PROVE  PageInv'
<1> DEFINE s == call[c].step
           x == Target(c)
           y == [SetStep(x, s, "blocked") EXCEPT !.status = "cancelled", !.active = 0]
           q == Blocked(x)
<1>1. Reporting(c, {"completed", "overspent"}) /\ Held(c) /\ Quiet
  BY DEF Unverified, Quiet
<1>2. call[c].at = "reporting" /\ lock = Nobody
  BY <1>1 DEF Reporting
<1>3. s \in Step /\ x \in ExecState /\ Sound(x) /\ Owned(x.step[s])
  BY <1>1, <1>2, HeldFacts
<1>4. Ends(x, y, s)
  BY <1>3, UnverifiedRecord
<1>5. SetStep(x, s, "blocked") \in ExecState
  BY <1>3, SetStepFields DEF Words
<1>6. y.active = 0
  BY <1>5 DEF ExecState
<1>7. q.plan = x.plan /\ q.status \in Marks /\ ActiveIs(q)
  BY <1>3, BlockedIsActive DEF Marks
<1>8. IF Mission(c) = "cancelled" THEN WriteAndLeave(c, y) ELSE WriteAndMarkMission(c, q)
  BY DEF Unverified
<1> HIDE DEF y, q
<1>9. y.plan = x.plan /\ ActiveIs(y)
  BY <1>4, <1>6, ActiveByStatus DEF Ends
<1>10. Mission(c) = "cancelled" => mission.status = "cancelled"
  BY DEF Mission
<1>11. QED
  BY <1>1, <1>2, <1>7, <1>8, <1>9, <1>10, ResultPage

LEMMA StrandedPage ==
  ASSUME MissionInv, PageInv, NEW c \in Call, Stranded(c)
  PROVE  PageInv'
<1> DEFINE e == call[c].exec
           s == call[c].step
           x == execs[e]
           y == IF x.status = "cancelled" THEN x ELSE Stopped(x)
           z == [y EXCEPT !.step[s].owner = NoOwner]
<1>1. Reporting(c, {"retryable", "blocked"}) /\ Held(c) /\ Quiet
  BY DEF Stranded, Quiet
<1>2. call[c].at = "reporting" /\ lock = Nobody
  BY <1>1 DEF Reporting
<1>3. e \in DOMAIN execs /\ s \in Step /\ Target(c) = x /\ x \in ExecState /\ Sound(x)
  BY <1>1, <1>2, HeldFacts
<1>4. mission.status = "cancelled"
  <2>1. x.status = "cancelled" \/ Mission(c) = "cancelled"
    BY <1>3 DEF Stranded
  <2>2. Mission(c) = "cancelled" => mission.status = "cancelled"
    BY DEF Mission
  <2>3. QED
    BY <1>3, <2>1, <2>2, RecordFacts
<1>5. WriteAndLeave(c, z)
  BY <1>3 DEF Stranded
<1>6. y \in ExecState /\ Sound(y) /\ y.status = "cancelled" /\ y.plan = x.plan
  BY <1>3, StoppedGives DEF Gives
<1> HIDE DEF y
<1>7. Ends(y, z, s) /\ z.status = "cancelled"
  BY <1>3, <1>6, StrandedRecord
<1> HIDE DEF z
<1>8. z.plan = Target(c).plan /\ ActiveIs(z)
  BY <1>3, <1>6, <1>7, ActiveByStatus DEF Ends
<1>9. QED
  BY <1>1, <1>2, <1>4, <1>5, <1>8, ResultPage

LEMMA FailedPage ==
  ASSUME MissionInv, PageInv, NEW c \in Call, Failed(c)
  PROVE  PageInv'
<1> DEFINE s == call[c].step
           x == Target(c)
           y == [SetStep(x, s, "retrying") EXCEPT !.status = "running", !.active = s]
<1>1. Reporting(c, {"retryable", "blocked"}) /\ Held(c) /\ Quiet /\ x.status # "cancelled"
  BY DEF Failed, Quiet
<1>2. call[c].at = "reporting" /\ lock = Nobody
  BY <1>1 DEF Reporting
<1>3. s \in Step /\ x \in ExecState /\ Sound(x) /\ Owned(x.step[s])
  BY <1>1, <1>2, HeldFacts
<1>4. \/ WriteAndMarkMission(c, Blocked(x))
      \/ WriteAndMarkMission(c, Blocked(y))
      \/ WriteAndMarkMission(c, y)
  BY DEF Failed
<1>5. Ends(x, y, s) /\ y.status = "running"
  BY <1>1, <1>3, FailedRecord
<1>6. y.active = s /\ y.step[s].status = "retrying"
  <2> DEFINE u == SetStep(x, s, "retrying")
  <2>1. "retrying" \in Words
    BY DEF Words
  <2>2. u \in ExecState
    BY <1>3, <2>1, SetStepFields
  <2>3. PICK w \in StepState : /\ u.step = [x.step EXCEPT ![s] = w]
                               /\ w.status = "retrying" /\ w.owner = NoOwner
                               /\ w.attempts = x.step[s].attempts /\ w.checkpoint = x.step[s].checkpoint
    BY <1>3, <2>1, SetStepFields
  <2>4. u.step[s].status = "retrying"
    BY <1>3, <2>3 DEF ExecState
  <2> HIDE DEF u
  <2>5. QED
    BY <2>2, <2>4 DEF ExecState, u
<1> HIDE DEF y
<1>7. y.plan = x.plan /\ y \in ExecState /\ y.status \in Marks
  BY <1>5 DEF Ends, Marks
<1>8. ActiveIs(y)
  BY <1>5, <1>6 DEF ActiveIs
<1>9. ASSUME NEW v \in {x, y}, WriteAndMarkMission(c, Blocked(v)) PROVE PageInv'
  <2> DEFINE q == Blocked(v)
  <2>1. q.plan = Target(c).plan /\ q.status \in Marks /\ ActiveIs(q) /\ WriteAndMarkMission(c, q)
    BY <1>3, <1>7, <1>9, BlockedIsActive DEF Marks
  <2> HIDE DEF q
  <2>2. QED
    BY <1>1, <1>2, <2>1, ResultPage
<1>10. CASE WriteAndMarkMission(c, y)
  BY <1>1, <1>2, <1>7, <1>8, <1>10, ResultPage
<1>11. QED
  BY <1>4, <1>9, <1>10

LEMMA ReviewPage ==
  ASSUME MissionInv, PageInv, NEW c \in Call, Approve(c) \/ Reject(c)
  PROVE  PageInv'
<1> DEFINE e == mission.exec
           x == execs[e]
<1>1. PICK s \in Step, st \in {"pending", "blocked"}, answer \in {"approved", "rejected"} :
        Reviewed(c, s) /\ WriteAndMark(c, e, Answered(x, s, st, answer), "idle")
  <2>1. CASE Approve(c)
    <3>1. PICK s \in Step :
            /\ Reviewed(c, s)
            /\ WriteAndMark(c, e, [SetStep(x, s, "pending")
                                     EXCEPT !.status = "running", !.active = 0,
                                            !.step[s].checkpoint = "approved"], "idle")
      BY <2>1 DEF Approve
    <3>2. Answered(x, s, "pending", "approved")
            = [SetStep(x, s, "pending") EXCEPT !.status = "running", !.active = 0, !.step[s].checkpoint = "approved"]
      BY DEF Answered
    <3>3. Reviewed(c, s) /\ WriteAndMark(c, e, Answered(x, s, "pending", "approved"), "idle")
      BY <3>1, <3>2, Zenon
    <3>4. QED
      BY <3>3
  <2>2. CASE Reject(c)
    <3>1. PICK s \in Step :
            /\ Reviewed(c, s)
            /\ WriteAndMark(c, e, [SetStep(x, s, "blocked")
                                     EXCEPT !.status = "blocked", !.active = 0,
                                            !.step[s].checkpoint = "rejected"], "idle")
      BY <2>2 DEF Reject
    <3>2. Answered(x, s, "blocked", "rejected")
            = [SetStep(x, s, "blocked") EXCEPT !.status = "blocked", !.active = 0, !.step[s].checkpoint = "rejected"]
      BY DEF Answered
    <3>3. Reviewed(c, s) /\ WriteAndMark(c, e, Answered(x, s, "blocked", "rejected"), "idle")
      BY <3>1, <3>2, Zenon
    <3>4. QED
      BY <3>3
  <2>3. QED
    BY <2>1, <2>2
<1>2. e \in DOMAIN execs
  BY <1>1, CurrentIs, CallFacts DEF Reviewed
<1>3. x \in ExecState /\ Sound(x)
  BY <1>2, RecordFacts
<1>4. x.status = "waiting-review" /\ x.step[s].status = "waiting-review" /\ call[c].at = "idle"
      /\ lock = Nobody /\ Quiet
  BY <1>1 DEF Reviewed, Hold, Quiet
<1>5. mission.status # "completed"
  BY <1>4 DEF PageInv, EndsWell, Shown
<1> DEFINE y == Answered(x, s, st, answer)
<1>6. Ends(x, y, s) /\ y.status = IF st = "pending" THEN "running" ELSE "blocked"
  BY <1>3, <1>4, AnsweredRecord
<1>7. y.active = 0
  <2>1. SetStep(x, s, st) \in ExecState
    BY <1>3, SetStepFields DEF Words
  <2> DEFINE u == SetStep(x, s, st)
  <2>2. y = [u EXCEPT !.status = IF st = "pending" THEN "running" ELSE "blocked", !.active = 0,
                      !.step[s].checkpoint = answer]
    BY DEF Answered
  <2> HIDE DEF u, y
  <2>3. QED
    BY <2>1, <2>2 DEF ExecState, u
<1>8. WriteAndMark(c, e, y, "idle")
  BY <1>1
<1> HIDE DEF y, e
<1>9. y.plan = x.plan /\ y.status \in Marks /\ ActiveIs(y)
  BY <1>6, <1>7, ActiveByStatus DEF Ends, Marks
<1>10. QED
  BY <1>2, <1>4, <1>5, <1>8, <1>9, MarksPage

LEMMA StopPage ==
  ASSUME MissionInv, PageInv, NEW c \in Call, Stop(c)
  PROVE  PageInv'
<1>1. lock = c /\ mission.status = "cancelled" /\ call[c].at = "cancelling"
  BY DEF MissionInv, Placed, Stop
<1>2. call' = [call EXCEPT ![c] = Idle] /\ lock' = Nobody /\ Quiet
  BY DEF Stop, Leave, Quiet
<1>3. CASE UNCHANGED execs
  <2>1. call'[c] = Idle /\ Idle.at = "idle" /\ \A d \in Call : d # c => call'[d] = call[d]
    BY <1>2, OthersCalls DEF Idle
  <2>2. mission' = mission /\ torn' = torn
    BY <1>2 DEF Quiet
  <2>3. QED
    BY <1>1, <1>2, <1>3, <2>1, <2>2, CallPage
<1>4. CASE Current # 0 /\ Write(Current, Stopped(execs[Current]))
  <2> DEFINE e == Current
             y == Stopped(execs[e])
  <2>1. e \in DOMAIN execs
    BY <1>4, CurrentIs, CallFacts
  <2>2. execs[e] \in ExecState /\ Sound(execs[e])
    BY <2>1, RecordFacts
  <2>3. Gives(execs[e], y) /\ y.status = "cancelled"
    BY <2>2, StoppedGives
  <2>4. execs' = [execs EXCEPT ![e] = y]
    BY <1>4 DEF Write
  <2> HIDE DEF e, y
  <2>5. y.plan = execs[e].plan /\ ActiveIs(y)
    BY <2>3, ActiveByStatus DEF Gives
  <2>6. QED
    BY <1>1, <1>2, <2>1, <2>4, <2>5, WritesAndLeavesPage
<1>5. QED
  BY <1>3, <1>4 DEF Stop

LEMMA InitPage == Init => PageInv
<1> SUFFICES ASSUME Init PROVE PageInv
  OBVIOUS
<1>1. execs = << >> /\ mission = [status |-> "draft", plan |-> 0, exec |-> 0] /\ call = [c \in Call |-> Idle]
  BY DEF Init
<1>2. DOMAIN execs = {} /\ Len(execs) = 0
  BY <1>1
<1>3. mission.status = "draft" /\ mission.exec = 0 /\ \A c \in Call : call[c] = Idle
  BY <1>1
<1>4. Idle.at = "idle" /\ Current = 0
  BY <1>2, <1>3 DEF Idle, Current
<1>5. \A c \in Call : AimsRight(c) /\ MarksTrue(c)
  BY <1>3, <1>4 DEF AimsRight, Aims, MarksTrue
<1>6. Agrees /\ EndsWell
  BY <1>3, <1>4 DEF Agrees, EndsWell
<1>7. QED
  BY <1>2, <1>3, <1>5, <1>6 DEF PageInv

LEMMA NextPage == MissionInv /\ PageInv /\ [Next]_vars => PageInv'
<1> SUFFICES ASSUME MissionInv, PageInv, [Next]_vars PROVE PageInv'
  OBVIOUS
<1>1. CASE UNCHANGED vars
  BY <1>1, SamePage DEF vars
<1>2. CASE DraftPlan \/ EditByOthers \/ \E c \in Call : WorkflowEdits(c)
  BY <1>2, SamePage DEF DraftPlan, EditByOthers, WorkflowEdits, files
<1>3. CASE CancelFromPage \/ SavePlan
  BY <1>3, CancelPage, PlanPage
<1>4. ASSUME NEW c \in Call,
             \/ Advance(c) \/ Supersede(c) \/ Create(c) \/ Rest(c) \/ Overtaken(c) \/ LetRun(c) \/ TakeOver(c)
             \/ DeadEnd(c) \/ AskReview(c) \/ Exhausted(c) \/ Claim(c) \/ Mark(c)
             \/ Inspect(c) \/ WorkflowEnds(c) \/ Fail(c) \/ Edit(c) \/ EditNothing(c) \/ EditRefused(c)
             \/ Dropped(c) \/ Completed(c) \/ Unverified(c) \/ Stranded(c) \/ Failed(c)
             \/ Approve(c) \/ Reject(c) \/ Cancel(c) \/ Stop(c) \/ Crash(c)
      PROVE  PageInv'
  BY <1>4, LeavesPage, SupersedePage, CreatePage, BlocksPage, TakeOverPage, AskReviewPage, ClaimPage, MarkPage,
     ReportsPage, CompletedPage, UnverifiedPage, StrandedPage, FailedPage, ReviewPage, CancelPage, StopPage, CrashPage
<1>5. QED
  BY <1>1, <1>2, <1>3, <1>4 DEF Next

(* The agreement above, always. *)
LEMMA PageInvariant == Spec => [](MissionInv /\ PageInv)
<1>1. Init => MissionInv /\ PageInv
  BY InitInv, InitPage
<1>2. MissionInv /\ PageInv /\ [Next]_vars => (MissionInv /\ PageInv)'
  BY NextKeeps, NextPage
<1>3. QED
  BY <1>1, <1>2, PTL DEF Spec

-------------------------------------------------------------------------------
(* What the page says of the Mission: the first of its rules that counts.       *)
LEMMA FirstRule ==
  ASSUME NEW rules, DOMAIN rules = 1 .. 6, NEW k \in 1 .. 6, rules[k][1],
         \A j \in 1 .. 6 : j < k => ~rules[j][1]
  PROVE  ActivityOf(rules) = rules[k][2]
<1> DEFINE first == {i \in DOMAIN rules : rules[i][1] /\ \A j \in 1 .. i - 1 : ~rules[j][1]}
<1>1. k \in first
  OBVIOUS
<1>2. ASSUME NEW i \in first PROVE i = k
  <2>1. i \in Nat /\ k \in Nat
    OBVIOUS
  <2>2. CASE i < k
    BY <2>2
  <2>3. CASE i > k
    <3>1. k \in 1 .. i - 1
      BY <2>1, <2>3
    <3>2. QED
      BY <3>1
  <2>4. QED
    BY <2>1, <2>2, <2>3
<1>3. ActivityOf(rules) = IF first = {} THEN mission.status ELSE rules[CHOOSE i \in first : TRUE][2]
  BY DEF ActivityOf
<1> HIDE DEF first
<1>4. (CHOOSE i \in first : TRUE) = k
  BY <1>1, <1>2
<1>5. QED
  BY <1>1, <1>3, <1>4

LEMMA NoRule ==
  ASSUME NEW rules, \A i \in DOMAIN rules : ~rules[i][1]
  PROVE  ActivityOf(rules) = mission.status
<1>1. {i \in DOMAIN rules : rules[i][1] /\ \A j \in 1 .. i - 1 : ~rules[j][1]} = {}
  OBVIOUS
<1>2. QED
  BY <1>1 DEF ActivityOf

PageRules == << <<OfTheMission, mission.status>> >> \o OfTheExecution

LEMMA SixRules ==
  ASSUME NEW a, NEW b, NEW c, NEW d, NEW e, NEW f, NEW r, r = << a >> \o << b, c, d, e, f >>
  PROVE  /\ DOMAIN r = 1 .. 6
         /\ r[1] = a /\ r[2] = b /\ r[3] = c /\ r[4] = d /\ r[5] = e /\ r[6] = f
<1> DEFINE s == << a >>
           t == << b, c, d, e, f >>
<1>1. s \in Seq({a}) /\ Len(s) = 1 /\ s[1] = a
  OBVIOUS
<1>2. t \in Seq({b, c, d, e, f}) /\ Len(t) = 5 /\ t[1] = b /\ t[2] = c /\ t[3] = d /\ t[4] = e /\ t[5] = f
  OBVIOUS
<1>3. r = s \o t
  OBVIOUS
<1> HIDE DEF s, t
<1>4. QED
  BY <1>1, <1>2, <1>3

LEMMA RulesAre ==
  /\ DOMAIN PageRules = 1 .. 6
  /\ (PageRules[1][1] <=> OfTheMission) /\ PageRules[1][2] = mission.status
  /\ (PageRules[2][1] <=> ActiveStep = "retrying") /\ PageRules[2][2] = "retrying"
  /\ (PageRules[3][1] <=> Said("waiting-review")) /\ PageRules[3][2] = "waiting-review"
  /\ (PageRules[4][1] <=> Said("blocked")) /\ PageRules[4][2] = "blocked"
  /\ (PageRules[5][1] <=> ExecutionStatus \in {"cancelled", "completed"}) /\ PageRules[5][2] = ExecutionStatus
  /\ (PageRules[6][1] <=> Said("running")) /\ PageRules[6][2] = "running"
<1> DEFINE a == <<OfTheMission, mission.status>>
           b == <<ActiveStep = "retrying", "retrying">>
           c == <<Said("waiting-review"), "waiting-review">>
           d == <<Said("blocked"), "blocked">>
           e == <<ExecutionStatus \in {"cancelled", "completed"}, ExecutionStatus>>
           f == <<Said("running"), "running">>
<1>1. PageRules = << a >> \o << b, c, d, e, f >>
  BY DEF PageRules, OfTheExecution
<1>2. (a[1] <=> OfTheMission) /\ a[2] = mission.status
  OBVIOUS
<1>3. (b[1] <=> ActiveStep = "retrying") /\ b[2] = "retrying"
  OBVIOUS
<1>4. (c[1] <=> Said("waiting-review")) /\ c[2] = "waiting-review"
  OBVIOUS
<1>5. (d[1] <=> Said("blocked")) /\ d[2] = "blocked"
  OBVIOUS
<1>6. (e[1] <=> ExecutionStatus \in {"cancelled", "completed"}) /\ e[2] = ExecutionStatus
  OBVIOUS
<1>7. (f[1] <=> Said("running")) /\ f[2] = "running"
  OBVIOUS
<1> HIDE DEF a, b, c, d, e, f
<1>8. /\ DOMAIN PageRules = 1 .. 6
      /\ PageRules[1] = a /\ PageRules[2] = b /\ PageRules[3] = c
      /\ PageRules[4] = d /\ PageRules[5] = e /\ PageRules[6] = f
  BY <1>1, SixRules
<1>9. QED
  BY <1>2, <1>3, <1>4, <1>5, <1>6, <1>7, <1>8

LEMMA ActivityIs ==
  Activity = IF OfTheMission THEN mission.status
             ELSE IF ActiveStep = "retrying" THEN "retrying"
             ELSE IF Said("waiting-review") THEN "waiting-review"
             ELSE IF Said("blocked") THEN "blocked"
             ELSE IF ExecutionStatus \in {"cancelled", "completed"} THEN ExecutionStatus
             ELSE IF Said("running") THEN "running"
             ELSE mission.status
<1> DEFINE Counts(k) == PageRules[k][1] /\ \A j \in 1 .. 6 : j < k => ~PageRules[j][1]
<1>1. Activity = ActivityOf(PageRules)
  BY DEF Activity, PageRules
<1>2. ASSUME NEW k \in 1 .. 6, Counts(k) PROVE Activity = PageRules[k][2]
  BY <1>1, <1>2, FirstRule, RulesAre
<1>3. CASE OfTheMission
  BY <1>2, <1>3, RulesAre
<1>4. CASE ~OfTheMission /\ ActiveStep = "retrying"
  BY <1>2, <1>4, RulesAre
<1>5. CASE ~OfTheMission /\ ActiveStep # "retrying" /\ Said("waiting-review")
  BY <1>2, <1>5, RulesAre
<1>6. CASE ~OfTheMission /\ ActiveStep # "retrying" /\ ~Said("waiting-review") /\ Said("blocked")
  BY <1>2, <1>6, RulesAre
<1>7. CASE /\ ~OfTheMission /\ ActiveStep # "retrying" /\ ~Said("waiting-review") /\ ~Said("blocked")
           /\ ExecutionStatus \in {"cancelled", "completed"}
  BY <1>2, <1>7, RulesAre
<1>8. CASE /\ ~OfTheMission /\ ActiveStep # "retrying" /\ ~Said("waiting-review") /\ ~Said("blocked")
           /\ ExecutionStatus \notin {"cancelled", "completed"} /\ Said("running")
  BY <1>2, <1>8, RulesAre
<1>9. CASE /\ ~OfTheMission /\ ActiveStep # "retrying" /\ ~Said("waiting-review") /\ ~Said("blocked")
           /\ ExecutionStatus \notin {"cancelled", "completed"} /\ ~Said("running")
  <2>1. \A i \in DOMAIN PageRules : ~PageRules[i][1]
    BY <1>9, RulesAre
  <2>2. QED
    BY <1>1, <1>9, <2>1, NoRule
<1>10. QED
  BY <1>3, <1>4, <1>5, <1>6, <1>7, <1>8, <1>9

(* The Mission and the execution of its plan agree.                             *)
LEMMA InvAgrees == MissionInv /\ PageInv => MissionAgrees
<1> SUFFICES ASSUME MissionInv, PageInv PROVE MissionAgrees
  OBVIOUS
<1>1. ASSUME mission.status = "completed"
      PROVE  execs[mission.exec].plan = mission.plan /\ Finished(execs[mission.exec]) = Step
  <2>1. mission.exec # 0 /\ Shown.plan = mission.plan /\ Shown.status = "completed"
    BY <1>1 DEF PageInv, EndsWell
  <2>2. mission.exec \in DOMAIN execs
    BY <2>1, CurrentIs, CallFacts
  <2>3. QED
    BY <2>1, <2>2, RecordFacts DEF Shown, Sound
<1>2. ASSUME lock = Nobody, ~torn, mission.status # "cancelled", Current # 0, execs[Current].plan = mission.plan
      PROVE  mission.status = execs[Current].status
  <2>1. ~Marking(Current)
    BY <1>2, NobodyAssumption DEF MissionInv, Placed, Marking
  <2>2. QED
    BY <1>2, <2>1 DEF PageInv, Agrees
<1>3. QED
  BY <1>1, <1>2 DEF MissionAgrees

(* The page says what the executor would do.                                    *)
LEMMA InvWorkspace == MissionInv /\ PageInv => WorkspaceIsTrue
<1> SUFFICES ASSUME MissionInv, PageInv, lock = Nobody, ~torn, ~Refused
             PROVE  /\ Activity = "waiting-review" <=> \E s \in PendingReviews : Reviewable(s)
                    /\ Activity = "blocked" => Plannable
                    /\ Activity \in {"running", "retrying"} => Advances
                    /\ Activity = "completed" => Finished(Shown) = Step
  BY InvAgrees DEF WorkspaceIsTrue
<1>1. /\ MissionAgrees
      /\ mission.status \in {"draft", "ready", "running", "waiting-review", "blocked", "completed", "cancelled"}
  BY InvAgrees, CurrentIs DEF MissionState
<1>2. CASE mission.exec = 0
  <2>1. mission.status \in {"draft", "ready", "cancelled"}
    BY <1>2 DEF PageInv
  <2>2. ActiveStep = "none" /\ ExecutionStatus = "none"
    BY <1>2 DEF ActiveStep, ExecutionStatus
  <2>3. Activity = mission.status
    BY <2>1, <2>2, ActivityIs DEF Said, OfTheMission
  <2>4. QED
    BY <1>2, <2>1, <2>3 DEF Reviewable
<1>3. CASE mission.exec # 0
  <2> DEFINE x == execs[mission.exec]
  <2>1. mission.exec \in DOMAIN execs /\ Shown = x /\ x \in ExecState /\ Sound(x) /\ ActiveIs(x)
    BY <1>3, CurrentIs, CallFacts, RecordFacts DEF Shown, PageInv
  <2>2. ExecutionStatus = x.status /\ ActiveStep = (IF x.active = 0 THEN "none" ELSE x.step[x.active].status)
    BY <1>3, <2>1 DEF ExecutionStatus, ActiveStep
  <2>3. x.plan = mission.plan
    BY <1>3, <2>1 DEF Refused
  <2>4. mission.status = "cancelled" \/ mission.status = x.status
    BY <1>1, <1>3, <2>3 DEF MissionAgrees, Current
  <2>5. x.active \in {0} \cup Step
    BY <2>1 DEF ExecState
  <2>6. x.status = "completed" => Finished(x) = Step
    BY <2>1 DEF Sound
  <2>7. x.status = "waiting-review" =>
          /\ x.active \in Step /\ x.step[x.active].status = "waiting-review"
          /\ x.step[x.active].checkpoint = "pending"
    BY <2>1, <2>5 DEF Sound, AcceptedStep
  <2>8. x.status \in {"running", "waiting-review", "blocked", "completed", "cancelled"}
    BY <2>1 DEF ExecState
  <2> HIDE DEF x
  <2>9. ActiveStep # "none" => \/ x.status = "running" /\ ActiveStep \in {"running", "retrying"}
                               \/ x.status = "waiting-review" /\ ActiveStep = "waiting-review"
    BY <2>1, <2>2 DEF ActiveIs
  <2>10. CASE mission.status = "cancelled"
    <3>1. Activity = "cancelled"
      BY <2>10, ActivityIs DEF OfTheMission
    <3>2. QED
      BY <2>10, <3>1 DEF Reviewable
  <2>11. CASE mission.status # "cancelled"
    <3>1. mission.status = x.status
      BY <2>4, <2>11
    <3>2. Activity = IF ActiveStep = "retrying" THEN "retrying" ELSE x.status
      BY <2>2, <2>8, <2>9, <2>11, <3>1, ActivityIs DEF Said, OfTheMission
    <3>3. Activity = "waiting-review" <=> x.status = "waiting-review"
      BY <2>9, <3>2
    <3>4. x.status = "waiting-review" => x.active \in PendingReviews /\ Reviewable(x.active)
      BY <1>3, <2>1, <2>3, <2>7, <2>11 DEF PendingReviews, Reviewable
    <3>5. ASSUME NEW s \in PendingReviews, Reviewable(s) PROVE x.status = "waiting-review"
      BY <2>1, <3>5 DEF Reviewable
    <3>6. Activity = "blocked" => Plannable
      BY <3>1, <3>2 DEF Plannable
    <3>7. Activity \in {"running", "retrying"} => Advances
      BY <1>3, <2>1, <2>8, <2>9, <3>2 DEF Advances
    <3>8. Activity = "completed" => Finished(Shown) = Step
      BY <2>1, <2>6, <3>2
    <3>9. QED
      BY <3>3, <3>4, <3>5, <3>6, <3>7, <3>8
  <2>12. QED
    BY <2>10, <2>11
<1>4. QED
  BY <1>2, <1>3

(* A Mission that reads completed has had every step of its own plan completed,  *)
(* and in every state in which no call is under way it agrees with the execution *)
(* of its plan, unless a process died between the two files or the Mission was   *)
(* cancelled (executor.ts, markMission).  What its page tells is then what the   *)
(* executor would do: a review is offered exactly when an answer would be taken, *)
(* what reads blocked can be planned, what reads running is advanced, and what   *)
(* reads completed is (workspace/service.ts).                                    *)
THEOREM MissionIsShown == Spec => []WorkspaceIsTrue
<1>1. MissionInv /\ PageInv => WorkspaceIsTrue
  BY InvWorkspace
<1>2. QED
  BY <1>1, PageInvariant, PTL

-------------------------------------------------------------------------------
(* What a record's files keep (module RecordStore).                              *)

Files == {Torn, Gone} \cup {Whole(held) : held \in SUBSET Caller}
Places == {"idle", "entering", "peeking", "answered", "failed", "dead", "reading", "recovering", "restoring",
           "holding", "copying", "replacing", "making", "writing"}
Doings == [op : {"none", "create", "change", "load"}, at : Places, holds : SUBSET Caller, before : SUBSET Caller]

(* What a call does at its places, and what it can hold there.                    *)
InItsPlace(c) ==
  /\ caller[c].op = "none" <=> Stage(c) = "idle"
  /\ caller[c].op \in Its.offers \cup {"none"}
  /\ Stage(c) \in {"holding", "copying", "replacing"} => caller[c].op = "change"
  /\ Stage(c) \in {"making", "writing"} => caller[c].op = "create"
  /\ Stage(c) = "restoring" => Its.recovers
  /\ Stage(c) \in {"idle", "peeking", "entering", "reading", "recovering", "making", "writing"} =>
       caller[c].holds = {}
  /\ caller[c].before \subseteq stored

(* The record's lock, and the chain of each process.                              *)
Excludes(c, d) ==
  /\ ~(Locked(c) /\ Locked(d))
  /\ ServerOf(c) = ServerOf(d) => ~(Chained(c) /\ Chained(d))

(* A change that is under way lets in readers only, and creations that will fail. *)
LetsIn(c, d) ==
  /\ Stage(c) = "holding" /\ Inside(d) => Stage(d) \in {"reading", "making"}
  /\ ~Its.named => ~(caller[c].op = "create" /\ caller[d].op = "create")
  /\ ~(Stage(c) = "writing" /\ Stage(d) = "writing")

One(S) == \A x, y \in S : x = y
Few(S) == /\ spoilt = 0 => S = {}
          /\ spoilt <= 1 => One(S)

NoRecord == primary = Gone /\ backup = Gone /\ stored = {}
Blank(c) == store = "protection" /\ primary = Gone /\ backup = Gone /\ caller[c].holds = {}

(* What the files are to a call at each of its places.                            *)
SeesTheRecord(c) ==
  /\ Stage(c) = "recovering" => \/ ~Legible(primary)
                                \/ ~Legible(backup) /\ caller[c].before = {}
  /\ Stage(c) = "restoring" => backup = Whole(caller[c].holds) /\ ~Legible(primary)
  /\ Stage(c) = "holding" => primary = Whole(caller[c].holds) \/ Blank(c)
  /\ Stage(c) = "copying" => primary = Whole(caller[c].holds)
  /\ Stage(c) = "replacing" => \/ primary = Whole(caller[c].holds) /\ backup = primary
                               \/ Blank(c)
  /\ Stage(c) = "writing" => NoRecord /\ (Its.named => made)
  /\ ~Its.named /\ caller[c].op = "create" /\ Stage(c) # "answered" => NoRecord
  /\ caller[c].op = "load" /\ Stage(c) \in {"answered", "failed"} => Few(caller[c].before \ caller[c].holds)

(* What the files must be for a call to be at a place with what it holds.         *)
CanBe(c, at, held) ==
  /\ at = "recovering" => ~Legible(primary)
  /\ at = "restoring" => backup = Whole(held) /\ ~Legible(primary)
  /\ at = "holding" => primary = Whole(held) \/ (Blank(c) /\ held = {})
  /\ at = "copying" => primary = Whole(held)
  /\ at = "replacing" => \/ primary = Whole(held) /\ backup = primary
                         \/ Blank(c) /\ held = {}
  /\ at = "writing" => NoRecord
  /\ caller[c].op = "load" /\ at \in {"answered", "failed"} => Few(caller[c].before \ held)

(* What the backup alone would keep.                                              *)
BackedUp == IF Its.recovers /\ Legible(backup) THEN backup.holds ELSE {}
KeepsTheRecord ==
  /\ Few(stored \ Readable)
  /\ spoilt = 0 /\ (\A c \in Caller : Stage(c) # "copying") => One(stored \ BackedUp)
  /\ spoilt = 0 /\ ~Legible(primary) => backup = Gone
  /\ Its.named /\ ~made => NoRecord
  /\ (\A c \in Caller : Stage(c) = "idle") => stored = {} /\ backup = Gone

(* What the lock and the chains rest on, and what the files do.                   *)
Kempt ==
  /\ StoreTypeOK
  /\ \A c \in Caller : InItsPlace(c)
  /\ \A c, d \in Caller : c # d => Excludes(c, d)
Preserved ==
  /\ \A c, d \in Caller : c # d => LetsIn(c, d)
  /\ \A c \in Caller : SeesTheRecord(c)
  /\ KeepsTheRecord
StoreInv == Kempt /\ (~Its.blind => Preserved)

JobsHaveOneServer == "job" \in OneServer

(* A step of a call that leaves the others alone.                                 *)
Goes(c, at, held) ==
  /\ caller' \in [Caller -> Doings]
  /\ \A d \in Caller \ {c} : caller'[d] = caller[d]
  /\ caller'[c].at = at /\ caller'[c].holds = held
  /\ caller'[c].op = caller[c].op /\ caller'[c].before = caller[c].before

(* The lock and the chain are taken where they are free.                          *)
Gains(c) ==
  /\ Locked(c)' => Locked(c) \/ LockFree(c)
  /\ Chained(c)' => Chained(c) \/ ChainFree(c)

-------------------------------------------------------------------------------
(* The files, and what the repositories have in common.                          *)

LEMMA FilesAre ==
  /\ Torn \in Files /\ Gone \in Files /\ Torn # Gone /\ ~Legible(Torn) /\ ~Legible(Gone)
  /\ \A h : Legible(Whole(h)) /\ Whole(h).holds = h /\ Whole(h) # Gone /\ Whole(h) # Torn
  /\ \A h \in SUBSET Caller : Whole(h) \in Files
  /\ \A f \in Files : Legible(f) => f = Whole(f.holds) /\ f.holds \in SUBSET Caller
<1>1. /\ Torn.state = "torn" /\ Gone.state = "gone"
      /\ \A h : Whole(h).state = "whole" /\ Whole(h).holds = h
  BY DEF Torn, Gone, Whole
<1>2. Torn # Gone /\ \A h : Whole(h) # Gone /\ Whole(h) # Torn
  BY <1>1
<1>3. ~Legible(Torn) /\ ~Legible(Gone) /\ \A h : Legible(Whole(h))
  BY <1>1 DEF Legible
<1>4. \A f \in Files : f = Torn \/ f = Gone \/ \E h \in SUBSET Caller : f = Whole(h)
  BY DEF Files
<1>5. \A f \in Files : Legible(f) => f = Whole(f.holds) /\ f.holds \in SUBSET Caller
  BY <1>1, <1>3, <1>4
<1>6. QED
  BY <1>1, <1>2, <1>3, <1>5 DEF Files

Rules(name, its) ==
  /\ {its.peeks, its.named, its.split, its.bare, its.blind, its.recovers} \subseteq BOOLEAN
  /\ its.offers \subseteq {"create", "change", "load"}
  /\ "create" \in its.locks
  /\ "change" \in its.offers => "change" \in its.locks /\ its.recovers
  /\ its.recovers /\ "load" \notin its.locks => name = "job"
  /\ its.bare => its.named /\ name = "workflow"
  /\ its.named => its.split
  /\ name = "protection" => "create" \notin its.offers /\ "load" \in its.locks
  /\ its.split => name \in {"job", "workflow"}

LEMMA RepositoriesKeepRules ==
  \A name \in DOMAIN Repository : Rules(name, Repository[name])
<1>1. Rules("job", JobStore)
  BY DEF Rules, JobStore
<1>2. /\ WorkflowStore.peeks = FALSE /\ WorkflowStore.locks = {"create", "change", "load"} /\ WorkflowStore.named = TRUE
      /\ WorkflowStore.split = TRUE /\ WorkflowStore.bare = TRUE /\ WorkflowStore.blind = FALSE
      /\ WorkflowStore.recovers = TRUE /\ WorkflowStore.offers = {"create", "change", "load"}
  BY DEF WorkflowStore, JobStore
<1>3. /\ SessionStore.peeks = FALSE /\ SessionStore.locks = {"create", "change", "load"} /\ SessionStore.named = FALSE
      /\ SessionStore.split = FALSE /\ SessionStore.bare = FALSE /\ SessionStore.blind = FALSE
      /\ SessionStore.recovers = TRUE /\ SessionStore.offers = {"create", "change", "load"}
  BY <1>2 DEF SessionStore
<1>4. /\ MissionStore.peeks = TRUE /\ MissionStore.locks = {"create", "change", "load"} /\ MissionStore.named = FALSE
      /\ MissionStore.split = FALSE /\ MissionStore.bare = FALSE /\ MissionStore.blind = FALSE
      /\ MissionStore.recovers = TRUE /\ MissionStore.offers = {"create", "change", "load"}
  BY <1>3 DEF MissionStore
<1>5. /\ ProtectionStore.peeks = FALSE /\ ProtectionStore.locks = {"create", "change", "load"} /\ ProtectionStore.named = FALSE
      /\ ProtectionStore.split = FALSE /\ ProtectionStore.bare = FALSE /\ ProtectionStore.blind = FALSE
      /\ ProtectionStore.recovers = TRUE /\ ProtectionStore.offers = {"change", "load"}
  BY <1>3 DEF ProtectionStore
<1>6. /\ AnalysisStore.peeks = TRUE /\ AnalysisStore.locks = {"create", "change", "load"} /\ AnalysisStore.named = FALSE
      /\ AnalysisStore.split = FALSE /\ AnalysisStore.bare = FALSE /\ AnalysisStore.blind = TRUE
      /\ AnalysisStore.recovers = TRUE /\ AnalysisStore.offers = {"change", "load"}
  BY <1>4 DEF AnalysisStore
<1>7. /\ ReportStore.peeks = TRUE /\ ReportStore.locks = {"create"} /\ ReportStore.named = FALSE
      /\ ReportStore.split = FALSE /\ ReportStore.bare = FALSE /\ ReportStore.blind = FALSE
      /\ ReportStore.recovers = FALSE /\ ReportStore.offers = {"create", "load"}
  BY <1>4 DEF ReportStore
<1>8. /\ Rules("workflow", WorkflowStore) /\ Rules("session", SessionStore) /\ Rules("execution", SessionStore)
      /\ Rules("mission", MissionStore) /\ Rules("campaign", MissionStore)
  BY <1>2, <1>3, <1>4 DEF Rules
<1>9. /\ Rules("protection", ProtectionStore) /\ Rules("analysis", AnalysisStore)
      /\ Rules("report", ReportStore) /\ Rules("plan", ReportStore)
  BY <1>5, <1>6, <1>7 DEF Rules
<1>10. QED
  BY <1>1, <1>8, <1>9 DEF Repository, ExecutionStore, CampaignStore, PlanStore

LEMMA ItsRules ==
  ASSUME StoreTypeOK
  PROVE  Rules(store, Its)
BY RepositoriesAssumption, RepositoriesKeepRules DEF StoreTypeOK, Its

LEMMA StoreTyped ==
  ASSUME StoreTypeOK
  PROVE  /\ primary \in Files /\ backup \in Files /\ caller \in [Caller -> Doings] /\ stored \subseteq Caller
         /\ spoilt \in Nat /\ failures \in Nat /\ MaxSpoilt \in Nat /\ MaxFailures \in Nat
         /\ \A c \in Caller : /\ Stage(c) \in Places /\ caller[c].op \in {"none", "create", "change", "load"}
                              /\ caller[c].holds \subseteq Caller /\ caller[c].before \subseteq Caller
<1>1. primary \in Files /\ backup \in Files
  BY DEF StoreTypeOK, Files
<1>2. Outside \cup {"reading", "recovering", "restoring", "holding", "copying", "replacing", "making", "writing"} = Places
  BY DEF Outside, Places
<1>3. caller \in [Caller -> Doings]
  BY <1>2 DEF StoreTypeOK, Doings
<1>4. spoilt \in Nat /\ failures \in Nat /\ MaxSpoilt \in Nat /\ MaxFailures \in Nat
  BY FaultsAssumption DEF StoreTypeOK
<1>5. \A c \in Caller : /\ Stage(c) \in Places /\ caller[c].op \in {"none", "create", "change", "load"}
                        /\ caller[c].holds \subseteq Caller /\ caller[c].before \subseteq Caller
  BY <1>3 DEF Doings, Stage
<1>6. QED
  BY <1>1, <1>3, <1>4, <1>5 DEF StoreTypeOK

-------------------------------------------------------------------------------
(* The lock and the chains.                                                      *)

LEMMA BecomesGoes ==
  ASSUME caller \in [Caller -> Doings], NEW c \in Caller, NEW at \in Places, Becomes(c, at)
  PROVE  Goes(c, at, caller[c].holds)
<1>1. caller[c] \in Doings /\ caller' = [caller EXCEPT ![c] = [caller[c] EXCEPT !.at = at]]
  BY DEF Becomes
<1>2. [caller[c] EXCEPT !.at = at] \in Doings
  BY <1>1 DEF Doings
<1>3. QED
  BY <1>1, <1>2 DEF Goes, Doings

LEMMA KeepsGoes ==
  ASSUME caller \in [Caller -> Doings], NEW c \in Caller, NEW at \in Places, NEW held \in SUBSET Caller,
         Keeps(c, at, held)
  PROVE  Goes(c, at, held)
<1>1. caller[c] \in Doings /\ caller' = [caller EXCEPT ![c] = [caller[c] EXCEPT !.at = at, !.holds = held]]
  BY DEF Keeps
<1>2. [caller[c] EXCEPT !.at = at, !.holds = held] \in Doings
  BY <1>1 DEF Doings
<1>3. QED
  BY <1>1, <1>2 DEF Goes, Doings

LEMMA HoldsOfFile ==
  ASSUME StoreTypeOK
  PROVE  /\ Legible(primary) => primary.holds \in SUBSET Caller
         /\ Legible(backup) => backup.holds \in SUBSET Caller
BY FilesAre, StoreTyped

(* The steps of a call, as what becomes of the call.                              *)
LEMMA PeekGoes ==
  ASSUME StoreTypeOK, NEW c \in Caller, Peek(c)
  PROVE  \/ Legible(primary) /\ Goes(c, "answered", primary.holds)
         \/ ~Legible(primary) /\ Its.recovers /\ Goes(c, "entering", caller[c].holds)
         \/ ~Legible(primary) /\ ~Its.recovers /\ Goes(c, "failed", caller[c].holds)
<1>1. caller \in [Caller -> Doings] /\ {"answered", "entering", "failed"} \subseteq Places
  BY StoreTyped DEF Places
<1>2. CASE Legible(primary) /\ Keeps(c, "answered", primary.holds)
  BY <1>1, <1>2, HoldsOfFile, KeepsGoes
<1>3. CASE ~Legible(primary) /\ Its.recovers /\ Becomes(c, "entering")
  BY <1>1, <1>3, BecomesGoes
<1>4. CASE ~Legible(primary) /\ ~Its.recovers /\ Becomes(c, "failed")
  BY <1>1, <1>4, BecomesGoes
<1>5. QED
  BY <1>2, <1>3, <1>4 DEF Peek

LEMMA AdmitGoes ==
  ASSUME StoreTypeOK, NEW c \in Caller, Admit(c)
  PROVE  \/ Its.blind /\ caller[c].op = "change" /\ Goes(c, "holding", caller[c].holds)
         \/ ~(Its.blind /\ caller[c].op = "change") /\ Goes(c, "reading", caller[c].holds)
<1>1. caller \in [Caller -> Doings] /\ {"holding", "reading"} \subseteq Places
  BY StoreTyped DEF Places
<1>2. CASE Its.blind /\ caller[c].op = "change" /\ Becomes(c, "holding")
  BY <1>1, <1>2, BecomesGoes
<1>3. CASE ~(Its.blind /\ caller[c].op = "change") /\ Becomes(c, "reading")
  BY <1>1, <1>3, BecomesGoes
<1>4. QED
  BY <1>2, <1>3 DEF Admit

LEMMA OnwardIs ==
  ASSUME NEW c \in Caller
  PROVE  /\ Onward(c) \in {"answered", "holding", "failed"}
         /\ caller[c].op = "load" => Onward(c) = "answered"
         /\ caller[c].op = "change" <=> Onward(c) = "holding"
BY DEF Onward

LEMMA ReadFileGoes ==
  ASSUME StoreTypeOK, NEW c \in Caller, ReadFile(c)
  PROVE  \/ Legible(primary) /\ Goes(c, Onward(c), primary.holds)
         \/ ~Legible(primary) /\ Goes(c, "recovering", caller[c].holds)
<1>1. caller \in [Caller -> Doings] /\ {"answered", "holding", "failed", "recovering"} \subseteq Places
  BY StoreTyped DEF Places
<1>2. CASE Legible(primary) /\ Keeps(c, Onward(c), primary.holds)
  BY <1>1, <1>2, HoldsOfFile, KeepsGoes, OnwardIs
<1>3. CASE ~Legible(primary) /\ Becomes(c, "recovering")
  BY <1>1, <1>3, BecomesGoes
<1>4. QED
  BY <1>2, <1>3 DEF ReadFile

LEMMA RecoverGoes ==
  ASSUME StoreTypeOK, NEW c \in Caller, Recover(c)
  PROVE  \/ Its.recovers /\ Legible(backup) /\ Goes(c, "restoring", backup.holds)
         \/ /\ ~(Its.recovers /\ Legible(backup))
            /\ \/ Goes(c, "failed", caller[c].holds)
               \/ caller[c].op = "create" /\ primary = Gone /\ backup = Gone /\ Goes(c, "making", caller[c].holds)
               \/ /\ store = "protection" /\ primary = Gone /\ backup = Gone /\ caller[c].op = "change"
                  /\ Goes(c, "holding", caller[c].holds)
<1>1. caller \in [Caller -> Doings] /\ {"restoring", "holding", "failed", "making"} \subseteq Places
  BY StoreTyped DEF Places
<1> DEFINE next == CASE caller[c].op = "load" -> "failed"
                     [] caller[c].op = "create" /\ {primary, backup} = {Gone} -> "making"
                     [] caller[c].op = "change" /\ store = "protection" /\ {primary, backup} = {Gone} -> "holding"
                     [] OTHER -> "failed"
<1>2. CASE Its.recovers /\ Legible(backup) /\ Keeps(c, "restoring", backup.holds)
  BY <1>1, <1>2, HoldsOfFile, KeepsGoes
<1>3. CASE ~(Its.recovers /\ Legible(backup)) /\ Becomes(c, next)
  <2>1. \/ next = "failed"
        \/ next = "making" /\ caller[c].op = "create" /\ primary = Gone /\ backup = Gone
        \/ next = "holding" /\ store = "protection" /\ primary = Gone /\ backup = Gone /\ caller[c].op = "change"
    OBVIOUS
  <2> HIDE DEF next
  <2>2. next \in Places
    BY <1>1, <2>1
  <2>3. Goes(c, next, caller[c].holds)
    BY <1>1, <1>3, <2>2, BecomesGoes
  <2>4. QED
    BY <1>3, <2>1, <2>3
<1>4. QED
  BY <1>2, <1>3 DEF Recover

LEMMA MakeRoomGoes ==
  ASSUME StoreTypeOK, NEW c \in Caller, MakeRoom(c)
  PROVE  \/ Its.named /\ made' = TRUE /\ made /\ Goes(c, "failed", caller[c].holds)
         \/ Its.named /\ made' = TRUE /\ ~made /\ Goes(c, "writing", caller[c].holds)
         \/ ~Its.named /\ made' = made /\ Goes(c, "writing", caller[c].holds)
<1>1. caller \in [Caller -> Doings] /\ {"writing", "failed"} \subseteq Places
  BY StoreTyped DEF Places
<1>2. CASE Its.named /\ made' = TRUE /\ made /\ Becomes(c, "failed")
  BY <1>1, <1>2, BecomesGoes
<1>3. CASE Its.named /\ made' = TRUE /\ ~made /\ Becomes(c, "writing")
  BY <1>1, <1>3, BecomesGoes
<1>4. CASE ~Its.named /\ made' = made /\ Becomes(c, "writing")
  BY <1>1, <1>4, BecomesGoes
<1>5. QED
  BY <1>2, <1>3, <1>4 DEF MakeRoom

LEMMA SimpleGoes ==
  ASSUME StoreTypeOK, NEW c \in Caller
  PROVE  /\ Restore(c) => Goes(c, Onward(c), caller[c].holds)
         /\ Refuse(c) \/ WriteFails(c) => Goes(c, "failed", caller[c].holds)
         /\ BackUp(c) /\ primary = Gone => Goes(c, "replacing", caller[c].holds)
         /\ BackUp(c) /\ primary # Gone => Goes(c, "copying", caller[c].holds)
         /\ Copied(c) => Goes(c, "replacing", caller[c].holds)
         /\ Replace(c) \/ WriteFirst(c) => Goes(c, "answered", caller[c].holds)
<1>1. /\ caller \in [Caller -> Doings] /\ {"failed", "replacing", "copying", "answered"} \subseteq Places
      /\ Onward(c) \in Places
  BY StoreTyped, OnwardIs DEF Places
<1>2. \A at \in Places : Becomes(c, at) => Goes(c, at, caller[c].holds)
  BY <1>1, BecomesGoes
<1>3. QED
  BY <1>1, <1>2 DEF Restore, Refuse, WriteFails, BackUp, Copied, Replace, WriteFirst

LEMMA BeginGoes ==
  ASSUME StoreTypeOK, NEW c \in Caller, Begin(c)
  PROVE  /\ caller' \in [Caller -> Doings]
         /\ \A d \in Caller \ {c} : caller'[d] = caller[d]
         /\ caller'[c].op \in Its.offers /\ caller'[c].holds = {} /\ caller'[c].before = stored
         /\ caller'[c].at \in {"peeking", "entering"}
         /\ caller'[c].op = "create" /\ ~Its.named => primary = Gone /\ \A d \in Caller : Stage(d) = "idle"
<1>1. PICK op \in Its.offers :
        /\ op = "create" /\ ~Its.named => primary = Gone /\ \A d \in Caller : Stage(d) = "idle"
        /\ caller' = [caller EXCEPT ![c] = [op |-> op, holds |-> {}, before |-> stored,
                                            at |-> IF op = "load" /\ Its.peeks THEN "peeking" ELSE "entering"]]
  BY DEF Begin
<1>2. PICK at \in {"peeking", "entering"} : at = IF op = "load" /\ Its.peeks THEN "peeking" ELSE "entering"
  OBVIOUS
<1> DEFINE r == [op |-> op, holds |-> {}, before |-> stored, at |-> at]
<1>3. op \in {"none", "create", "change", "load"} /\ at \in Places /\ stored \in SUBSET Caller
  BY ItsRules, StoreTyped DEF Rules, Places
<1>4. r \in Doings /\ r.op = op /\ r.holds = {} /\ r.before = stored /\ r.at = at
  BY <1>3 DEF Doings
<1>5. caller \in [Caller -> Doings] /\ caller' = [caller EXCEPT ![c] = r]
  BY <1>1, <1>2, StoreTyped
<1> HIDE DEF r
<1>6. caller'[c] = r /\ caller' \in [Caller -> Doings] /\ \A d \in Caller \ {c} : caller'[d] = caller[d]
  BY <1>4, <1>5
<1>7. QED
  BY <1>1, <1>4, <1>6

(* A call in its place that goes on.                                              *)
LEMMA GoesInPlace ==
  ASSUME StoreTypeOK, NEW c \in Caller, InItsPlace(c), Stage(c) # "idle", UNCHANGED store, stored \subseteq stored',
         NEW at \in Places \ {"idle"}, NEW held, Goes(c, at, held),
         at \in {"holding", "copying", "replacing"} => caller[c].op = "change",
         at \in {"making", "writing"} => caller[c].op = "create",
         at = "restoring" => Its.recovers,
         at \in {"peeking", "entering", "reading", "recovering", "making", "writing"} => held = {}
  PROVE  InItsPlace(c)'
<1>1. Its' = Its
  BY DEF Its
<1>2. QED
  BY <1>1 DEF InItsPlace, Goes, Stage

LEMMA GoesWithin ==
  ASSUME StoreTypeOK, NEW c \in Caller, UNCHANGED store, NEW at, NEW held, Goes(c, at, held),
         \/ at \in Outside
         \/ LockFree(c) /\ ChainFree(c)
         \/ Inside(c) /\ ~(Its.bare /\ Stage(c) \in {"making", "writing"})
              /\ (ChainFree(c) \/ ~(Its.split /\ Stage(c) \in {"holding", "making"}))
         \/ ChainFree(c) /\ Inside(c) /\ at \in {"making", "writing"}
  PROVE  Gains(c)
<1>1. Its' = Its
  BY DEF Its
<1>2. Stage(c)' = at /\ caller'[c].op = caller[c].op
  BY DEF Goes, Stage
<1>3. CASE at \in Outside
  BY <1>2, <1>3 DEF Gains, Locked, Chained, Inside
<1>4. CASE LockFree(c) /\ ChainFree(c)
  BY <1>4 DEF Gains
<1>5. CASE Inside(c) /\ ~(Its.bare /\ Stage(c) \in {"making", "writing"})
              /\ (ChainFree(c) \/ ~(Its.split /\ Stage(c) \in {"holding", "making"}))
  BY <1>1, <1>2, <1>5 DEF Gains, Locked, Chained
<1>6. CASE ChainFree(c) /\ Inside(c) /\ at \in {"making", "writing"}
  BY <1>1, <1>2, <1>6 DEF Gains, Locked, Chained
<1>7. QED
  BY <1>3, <1>4, <1>5, <1>6

LEMMA StepInPlace ==
  ASSUME StoreTypeOK, NEW c \in Caller, InItsPlace(c), StoreStep(c)
  PROVE  /\ UNCHANGED store /\ stored \subseteq stored' /\ caller' \in [Caller -> Doings]
         /\ \A d \in Caller \ {c} : caller'[d] = caller[d]
         /\ InItsPlace(c)' /\ Gains(c) /\ Stage(c)' # "idle"
<1>1. UNCHANGED store /\ stored \subseteq stored' /\ Its' = Its
  BY DEF StoreStep, Begin, Peek, Admit, ReadFile, Recover, Restore, Refuse, BackUp, Copied, Replace, MakeRoom,
         WriteFirst, WriteFails, Its
<1>2. Rules(store, Its) /\ Stage(c) \in Places /\ caller[c].op \in {"none", "create", "change", "load"}
  BY ItsRules, StoreTyped
<1>3. CASE Begin(c)
  <2>1. InItsPlace(c)'
    BY <1>1, <1>2, <1>3, BeginGoes DEF InItsPlace, Stage, Rules
  <2>2. Gains(c)
    BY <1>3, BeginGoes DEF Gains, Locked, Chained, Inside, Outside, Stage
  <2>3. QED
    BY <1>1, <1>3, <2>1, <2>2, BeginGoes DEF Stage
<1>4. ASSUME NEW at \in Places \ {"idle"}, NEW held, Goes(c, at, held), InItsPlace(c)', Gains(c)
      PROVE  /\ caller' \in [Caller -> Doings]
             /\ \A d \in Caller \ {c} : caller'[d] = caller[d]
             /\ Stage(c)' # "idle"
  BY <1>4 DEF Goes, Stage
<1>5. CASE Peek(c)
  <2>1. Stage(c) = "peeking" /\ caller[c].holds = {}
    BY <1>5 DEF Peek, InItsPlace
  <2>2. PICK at \in {"answered", "entering", "failed"}, held \in SUBSET Caller : Goes(c, at, held) /\ (at = "entering" => held = {})
    BY <1>5, <2>1, PeekGoes, HoldsOfFile
  <2>3. InItsPlace(c)'
    BY <1>1, <2>1, <2>2, GoesInPlace DEF Places
  <2>4. Gains(c)
    BY <1>1, <2>2, GoesWithin DEF Outside
  <2>5. QED
    BY <1>1, <1>4, <2>2, <2>3, <2>4 DEF Places
<1>6. CASE Admit(c)
  <2>1. Stage(c) = "entering" /\ caller[c].holds = {} /\ LockFree(c) /\ ChainFree(c)
    BY <1>6 DEF Admit, InItsPlace
  <2>2. PICK at \in {"holding", "reading"} : Goes(c, at, {}) /\ (at = "holding" => caller[c].op = "change")
    BY <1>6, <2>1, AdmitGoes
  <2>3. InItsPlace(c)'
    BY <1>1, <2>1, <2>2, GoesInPlace DEF Places
  <2>4. Gains(c)
    BY <1>1, <2>1, <2>2, GoesWithin
  <2>5. QED
    BY <1>1, <1>4, <2>2, <2>3, <2>4 DEF Places
<1>7. ASSUME Inside(c), Stage(c) \in {"reading", "recovering", "restoring", "copying", "replacing"},
             NEW at \in Places \ {"idle"}, NEW held, Goes(c, at, held), InItsPlace(c)'
      PROVE  Gains(c)
  BY <1>1, <1>7, GoesWithin
<1>8. CASE ReadFile(c)
  <2>1. Stage(c) = "reading" /\ caller[c].holds = {} /\ Inside(c)
    BY <1>8 DEF ReadFile, InItsPlace, Inside, Outside
  <2>2. PICK at \in {"answered", "holding", "failed", "recovering"}, held \in SUBSET Caller :
          Goes(c, at, held) /\ (at = "recovering" => held = {}) /\ (at = "holding" => caller[c].op = "change")
    BY <1>8, <2>1, ReadFileGoes, HoldsOfFile, OnwardIs
  <2>3. InItsPlace(c)'
    BY <1>1, <2>1, <2>2, GoesInPlace DEF Places
  <2>4. QED
    BY <1>1, <1>4, <1>7, <2>1, <2>2, <2>3 DEF Places
<1>9. CASE Recover(c)
  <2>1. Stage(c) = "recovering" /\ caller[c].holds = {} /\ Inside(c)
    BY <1>9 DEF Recover, InItsPlace, Inside, Outside
  <2>2. PICK at \in {"restoring", "holding", "failed", "making"}, held \in SUBSET Caller :
          /\ Goes(c, at, held) /\ (at = "making" => held = {} /\ caller[c].op = "create")
          /\ (at = "holding" => caller[c].op = "change") /\ (at = "restoring" => Its.recovers)
    BY <1>9, <2>1, RecoverGoes, HoldsOfFile
  <2>3. InItsPlace(c)'
    BY <1>1, <2>1, <2>2, GoesInPlace DEF Places
  <2>4. QED
    BY <1>1, <1>4, <1>7, <2>1, <2>2, <2>3 DEF Places
<1>10. CASE Restore(c)
  <2>1. Stage(c) = "restoring" /\ Inside(c)
    BY <1>10 DEF Restore, Inside, Outside
  <2>2. PICK at \in {"answered", "holding", "failed"} :
          Goes(c, at, caller[c].holds) /\ (at = "holding" => caller[c].op = "change")
    BY <1>10, SimpleGoes, OnwardIs
  <2>3. InItsPlace(c)'
    BY <1>1, <2>1, <2>2, GoesInPlace DEF Places
  <2>4. QED
    BY <1>1, <1>4, <1>7, <2>1, <2>2, <2>3 DEF Places
<1>11. CASE Refuse(c) \/ WriteFails(c) \/ Replace(c) \/ WriteFirst(c)
  <2>1. Stage(c) # "idle"
    BY <1>11 DEF Refuse, WriteFails, Replace, WriteFirst
  <2>2. PICK at \in {"answered", "failed"} : Goes(c, at, caller[c].holds)
    BY <1>11, SimpleGoes
  <2>3. InItsPlace(c)'
    BY <1>1, <2>1, <2>2, GoesInPlace DEF Places
  <2>4. Gains(c)
    BY <1>1, <2>2, GoesWithin DEF Outside
  <2>5. QED
    BY <1>1, <1>4, <2>2, <2>3, <2>4 DEF Places
<1>12. CASE BackUp(c) \/ Copied(c)
  <2>1. Stage(c) \in {"holding", "copying"} /\ caller[c].op = "change" /\ Inside(c)
        /\ (Stage(c) = "holding" => ChainFree(c))
    BY <1>12 DEF BackUp, Copied, InItsPlace, Inside, Outside
  <2>2. PICK at \in {"copying", "replacing"} : Goes(c, at, caller[c].holds)
    BY <1>12, SimpleGoes
  <2>3. InItsPlace(c)'
    BY <1>1, <2>1, <2>2, GoesInPlace DEF Places
  <2>4. Gains(c)
    BY <1>1, <2>1, <2>2, GoesWithin
  <2>5. QED
    BY <1>1, <1>4, <2>2, <2>3, <2>4 DEF Places
<1>13. CASE MakeRoom(c)
  <2>1. Stage(c) = "making" /\ caller[c].op = "create" /\ caller[c].holds = {} /\ ChainFree(c) /\ Inside(c)
    BY <1>13 DEF MakeRoom, InItsPlace, Inside, Outside
  <2>2. PICK at \in {"failed", "writing"} : Goes(c, at, {})
    BY <1>13, <2>1, MakeRoomGoes
  <2>3. InItsPlace(c)'
    BY <1>1, <2>1, <2>2, GoesInPlace DEF Places
  <2>4. Gains(c)
    BY <1>1, <2>1, <2>2, GoesWithin DEF Outside
  <2>5. QED
    BY <1>1, <1>4, <2>2, <2>3, <2>4 DEF Places
<1>14. QED
  BY <1>3, <1>5, <1>6, <1>8, <1>9, <1>10, <1>11, <1>12, <1>13 DEF StoreStep

LEMMA OneCounts ==
  ASSUME NEW S \in SUBSET Caller, One(S)
  PROVE  Cardinality(S) \in {0, 1} /\ (Cardinality(S) = 0 <=> S = {})
<1>1. CASE S = {}
  BY <1>1, FS_EmptySet
<1>2. CASE S # {}
  <2>1. PICK x : x \in S
    BY <1>2
  <2>2. S = {x}
    BY <2>1 DEF One
  <2>3. Cardinality(S) = 1
    BY <2>2, FS_Singleton
  <2>4. QED
    BY <1>2, <2>3
<1>3. QED
  BY <1>1, <1>2

LEMMA StepExcludes ==
  ASSUME Kempt, NEW c \in Caller, StoreStep(c)
  PROVE  \A d, e \in Caller : d # e => Excludes(d, e)'
<1>1. /\ UNCHANGED store /\ \A d \in Caller \ {c} : caller'[d] = caller[d]
      /\ Gains(c)
  BY StepInPlace DEF Kempt
<1>2. Its' = Its /\ \A d \in Caller : ServerOf(d)' = ServerOf(d)
  BY <1>1 DEF Its, ServerOf
<1>3. \A d \in Caller \ {c} : (Locked(d)' <=> Locked(d)) /\ (Chained(d)' <=> Chained(d))
  BY <1>1, <1>2 DEF Locked, Chained, Inside, Stage
<1>4. \A d \in Caller \ {c} : ~(Locked(c)' /\ Locked(d)')
  <2>1. ASSUME NEW d \in Caller \ {c}, Locked(c)', Locked(d)'
        PROVE  FALSE
    <3>1. Locked(d)
      BY <1>3, <2>1
    <3>2. ~Locked(c)
      BY <2>1, <3>1 DEF Kempt, Excludes
    <3>3. LockFree(c)
      BY <1>1, <2>1, <3>2 DEF Gains
    <3>4. caller'[c].op \in Its.locks
      BY <1>2, <2>1 DEF Locked
    <3>5. caller[c].op \in Its.locks
      <4>1. CASE Begin(c)
        BY <4>1, <2>1, BeginGoes DEF Kempt, Locked, Inside, Outside, Stage
      <4>2. CASE ~Begin(c)
        <5>1. caller'[c].op = caller[c].op
          BY <4>2, PeekGoes, AdmitGoes, ReadFileGoes, RecoverGoes, MakeRoomGoes, SimpleGoes DEF StoreStep, Goes, Kempt
        <5>2. QED
          BY <3>4, <5>1
      <4>3. QED
        BY <4>1, <4>2
    <3>6. QED
      BY <2>1, <3>1, <3>3, <3>5 DEF LockFree
  <2>2. QED
    BY <2>1
<1>5. \A d \in Caller \ {c} : ServerOf(c) = ServerOf(d) => ~(Chained(c)' /\ Chained(d)')
  BY <1>1, <1>3 DEF Kempt, Excludes, Gains, ChainFree
<1>6. QED
  BY <1>2, <1>3, <1>4, <1>5 DEF Kempt, Excludes

LEMMA OneCopies ==
  ASSUME Kempt, NEW S \in SUBSET {c \in Caller : Stage(c) = "copying"}
  PROVE  S \in SUBSET Caller /\ One(S)
<1>1. ASSUME NEW c \in S, NEW d \in S, c # d
      PROVE  FALSE
  <2>1. Locked(c) /\ Locked(d)
    BY <1>1, ItsRules DEF Kempt, InItsPlace, Locked, Inside, Outside, Rules
  <2>2. QED
    BY <1>1, <2>1 DEF Kempt, Excludes
<1>2. QED
  BY <1>1 DEF One

LEMMA TypedAgain ==
  ASSUME store' \in Kept, made' \in BOOLEAN, primary' \in Files, backup' \in Files,
         caller' \in [Caller -> Doings], stored' \subseteq Caller,
         failures' \in 0 .. MaxFailures, spoilt' \in 0 .. (MaxSpoilt + failures')
  PROVE  StoreTypeOK'
<1>1. Outside \cup {"reading", "recovering", "restoring", "holding", "copying", "replacing", "making", "writing"} = Places
  BY DEF Outside, Places
<1>2. {primary', backup'} \subseteq {Torn, Gone} \cup {Whole(held) : held \in SUBSET Caller}
  BY DEF Files
<1>3. QED
  BY <1>1, <1>2 DEF StoreTypeOK, Doings

LEMMA StepTyped ==
  ASSUME Kempt, NEW c \in Caller, StoreStep(c)
  PROVE  StoreTypeOK'
<1>1. /\ UNCHANGED store /\ caller' \in [Caller -> Doings]
  BY StepInPlace DEF Kempt
<1>2. /\ store \in Kept /\ made \in BOOLEAN /\ primary \in Files /\ backup \in Files
      /\ stored \subseteq Caller /\ caller[c].holds \subseteq Caller /\ failures \in 0 .. MaxFailures
      /\ spoilt \in 0 .. (MaxSpoilt + failures) /\ MaxSpoilt \in Nat /\ MaxFailures \in Nat
  BY StoreTyped DEF Kempt, StoreTypeOK
<1>3. made' \in BOOLEAN
  BY <1>2 DEF StoreStep, Begin, Peek, Admit, ReadFile, Recover, Restore, Refuse, BackUp, Copied, Replace, MakeRoom,
              WriteFirst, WriteFails
<1>4. stored' \subseteq Caller
  BY <1>2 DEF StoreStep, Begin, Peek, Admit, ReadFile, Recover, Restore, Refuse, BackUp, Copied, Replace, MakeRoom,
              WriteFirst, WriteFails
<1>5. primary' \in Files
  <2>1. Written(c) \in SUBSET Caller /\ {c} \in SUBSET Caller
    BY <1>2 DEF Written
  <2>2. Whole(Written(c)) \in Files /\ Whole({c}) \in Files /\ Whole(caller[c].holds) \in Files
    BY <1>2, <2>1, FilesAre
  <2>3. QED
    BY <1>2, <2>2 DEF StoreStep, Begin, Peek, Admit, ReadFile, Recover, Restore, Refuse, BackUp, Copied, Replace, MakeRoom,
              WriteFirst, WriteFails
<1>6. backup' \in Files
  BY <1>2, FilesAre DEF StoreStep, Begin, Peek, Admit, ReadFile, Recover, Restore, Refuse, BackUp, Copied, Replace, MakeRoom,
              WriteFirst, WriteFails
<1>7. failures' \in 0 .. MaxFailures /\ spoilt' \in 0 .. (MaxSpoilt + failures')
  <2>1. CASE WriteFails(c)
    <3>1. failures < MaxFailures /\ failures' = failures + 1 /\ spoilt' \in {spoilt, spoilt + 1}
      BY <1>2, <2>1 DEF WriteFails
    <3>2. QED
      BY <1>2, <3>1
  <2>2. CASE ~WriteFails(c)
    BY <1>2, <2>2 DEF StoreStep, Begin, Peek, Admit, ReadFile, Recover, Restore, Refuse, BackUp, Copied, Replace, MakeRoom,
              WriteFirst
  <2>3. QED
    BY <2>1, <2>2
<1>8. QED
  BY <1>1, <1>2, <1>3, <1>4, <1>5, <1>6, <1>7, TypedAgain

LEMMA StepKempt ==
  ASSUME Kempt, NEW c \in Caller, StoreStep(c)
  PROVE  Kempt'
<1>1. \A d \in Caller : InItsPlace(d)'
  <2>1. /\ UNCHANGED store /\ stored \subseteq stored' /\ InItsPlace(c)'
        /\ \A d \in Caller \ {c} : caller'[d] = caller[d]
    BY StepInPlace DEF Kempt
  <2>2. Its' = Its
    BY <2>1 DEF Its
  <2>3. \A d \in Caller \ {c} : InItsPlace(d)'
    BY <2>1, <2>2 DEF Kempt, InItsPlace, Stage
  <2>4. QED
    BY <2>1, <2>3
<1>2. QED
  BY <1>1, StepTyped, StepExcludes DEF Kempt

(* The death of a process.                                                        *)
LEMMA DieGoes ==
  ASSUME StoreTypeOK, NEW p, Die(p)
  PROVE  /\ caller' \in [Caller -> Doings]
         /\ \A c \in Caller :
              \/ caller'[c] = caller[c] /\ ~(ServerOf(c) = p /\ Stage(c) \notin {"idle", "answered", "failed"})
              \/ /\ ServerOf(c) = p /\ Stage(c) \notin {"idle", "answered", "failed"}
                 /\ caller'[c].at = "dead" /\ caller'[c].op = caller[c].op
                 /\ caller'[c].holds = caller[c].holds /\ caller'[c].before = caller[c].before
<1>1. caller' = [c \in Caller |-> IF ServerOf(c) = p /\ Stage(c) \notin {"idle", "answered", "failed"}
                                  THEN [caller[c] EXCEPT !.at = "dead"] ELSE caller[c]]
  BY DEF Die
<1>2. \A c \in Caller : caller[c] \in Doings /\ [caller[c] EXCEPT !.at = "dead"] \in Doings
  BY StoreTyped DEF Doings, Places
<1>3. \A c \in Caller : caller'[c] = IF ServerOf(c) = p /\ Stage(c) \notin {"idle", "answered", "failed"}
                                     THEN [caller[c] EXCEPT !.at = "dead"] ELSE caller[c]
  BY <1>1
<1>4. caller' \in [Caller -> Doings]
  BY <1>1, <1>2
<1>5. \A c \in Caller : LET r == [caller[c] EXCEPT !.at = "dead"]
                        IN r.at = "dead" /\ r.op = caller[c].op /\ r.holds = caller[c].holds /\ r.before = caller[c].before
  BY <1>2 DEF Doings
<1>6. QED
  BY <1>3, <1>4, <1>5

LEMMA DieCounts ==
  ASSUME Kempt, NEW p, Die(p)
  PROVE  /\ failures' \in 0 .. MaxFailures /\ failures' = failures + 1 /\ spoilt' \in {spoilt, spoilt + 1}
         /\ spoilt' = spoilt => \A c \in Caller : Stage(c) = "copying" => caller'[c] = caller[c]
<1> DEFINE S == {c \in Caller : ServerOf(c) = p /\ Stage(c) = "copying"}
<1>1. S \in SUBSET Caller /\ One(S)
  BY OneCopies
<1>2. Cardinality(S) \in {0, 1} /\ (Cardinality(S) = 0 <=> S = {})
  BY <1>1, OneCounts
<1>3. spoilt' = spoilt + Cardinality(S) /\ failures < MaxFailures /\ failures' = failures + 1
  BY DEF Die
<1>4. S = {} => \A c \in Caller : Stage(c) = "copying" => caller'[c] = caller[c]
  BY DieGoes DEF Kempt
<1> HIDE DEF S
<1>5. spoilt \in Nat /\ failures \in Nat /\ MaxFailures \in Nat
  BY StoreTyped DEF Kempt
<1>6. QED
  BY <1>2, <1>3, <1>4, <1>5

LEMMA DieKempt ==
  ASSUME Kempt, NEW p, Die(p)
  PROVE  Kempt'
<1>1. UNCHANGED <<store, made, primary, backup, stored>>
  BY DEF Die
<1>2. Its' = Its /\ \A d \in Caller : ServerOf(d)' = ServerOf(d)
  BY <1>1 DEF Its, ServerOf
<1>3. StoreTypeOK'
  <2>1. /\ store \in Kept /\ made \in BOOLEAN /\ primary \in Files /\ backup \in Files /\ stored \subseteq Caller
        /\ spoilt \in 0 .. (MaxSpoilt + failures) /\ MaxSpoilt \in Nat /\ MaxFailures \in Nat /\ failures \in Nat
    BY StoreTyped DEF Kempt, StoreTypeOK
  <2>2. failures' \in 0 .. MaxFailures /\ spoilt' \in 0 .. (MaxSpoilt + failures')
    BY <2>1, DieCounts
  <2>3. caller' \in [Caller -> Doings]
    BY DieGoes DEF Kempt
  <2>4. QED
    BY <1>1, <2>1, <2>2, <2>3, TypedAgain
<1>4. \A c \in Caller : InItsPlace(c)'
  BY <1>1, <1>2, DieGoes DEF Kempt, InItsPlace, Stage
<1>5. \A c \in Caller : (Locked(c)' => Locked(c)) /\ (Chained(c)' => Chained(c))
  BY <1>2, DieGoes DEF Kempt, Locked, Chained, Inside, Outside, Stage
<1>6. QED
  BY <1>2, <1>3, <1>4, <1>5 DEF Kempt, Excludes

LEMMA SpoilKempt ==
  ASSUME Kempt, Spoil
  PROVE  Kempt'
<1>1. UNCHANGED <<store, made, caller, stored, failures>> /\ spoilt < MaxSpoilt /\ spoilt' = spoilt + 1
  BY DEF Spoil
<1>2. /\ store \in Kept /\ made \in BOOLEAN /\ primary \in Files /\ backup \in Files /\ stored \subseteq Caller
      /\ caller \in [Caller -> Doings] /\ spoilt \in Nat /\ failures \in 0 .. MaxFailures /\ failures \in Nat
      /\ MaxSpoilt \in Nat /\ MaxFailures \in Nat
  BY StoreTyped DEF Kempt, StoreTypeOK
<1>3. primary' \in Files /\ backup' \in Files
  BY <1>2, FilesAre DEF Spoil
<1>4. StoreTypeOK'
  BY <1>1, <1>2, <1>3, TypedAgain
<1>5. Its' = Its /\ \A c \in Caller : ServerOf(c)' = ServerOf(c)
  BY <1>1 DEF Its, ServerOf
<1>6. \A c \in Caller : InItsPlace(c)'
  BY <1>1, <1>5 DEF Kempt, InItsPlace, Stage
<1>7. \A c \in Caller : (Locked(c)' <=> Locked(c)) /\ (Chained(c)' <=> Chained(c))
  BY <1>1, <1>5 DEF Locked, Chained, Inside, Stage
<1>8. QED
  BY <1>4, <1>5, <1>6, <1>7 DEF Kempt, Excludes

-------------------------------------------------------------------------------
(* The files.                                                                    *)

(* The state before a step, of a repository whose changes read what is there.     *)
Before == Kempt /\ Preserved /\ ~Its.blind /\ JobsHaveOneServer

(* Whoever is at the files is alone with them, but for creations.                 *)
LEMMA Undisturbed ==
  ASSUME Before, NEW c \in Caller, NEW d \in Caller, c # d, Inside(d), Its.recovers,
         Stage(c) \in {"reading", "recovering", "restoring", "copying", "replacing"}
  PROVE  \/ Stage(d) \in {"making", "writing"}
         \/ Stage(d) = "holding" /\ Stage(c) = "reading"
<1>1. Rules(store, Its) /\ InItsPlace(c) /\ InItsPlace(d) /\ Excludes(c, d) /\ LetsIn(d, c) /\ Inside(c)
  BY ItsRules DEF Before, Kempt, Preserved, Inside, Outside
<1>2. Stage(d) = "holding" => Stage(c) = "reading"
  BY <1>1 DEF LetsIn
<1>3. ASSUME Stage(d) \notin {"making", "writing", "holding"}
      PROVE  FALSE
  <2>1. CASE store = "job"
    <3>1. ServerOf(c) = ServerOf(d)
      BY <2>1 DEF Before, JobsHaveOneServer, ServerOf
    <3>2. Chained(c) /\ Chained(d)
      BY <1>1, <1>3 DEF Chained
    <3>3. QED
      BY <1>1, <3>1, <3>2 DEF Excludes
  <2>2. CASE store # "job"
    <3>1. "load" \in Its.locks /\ "create" \in Its.locks /\ ("change" \in Its.offers => "change" \in Its.locks)
      BY <1>1, <2>2 DEF Rules
    <3>2. \A e \in {c, d} : caller[e].op \in Its.locks
      <4>1. \A e \in {c, d} : Inside(e) /\ caller[e].op \in Its.offers
        BY <1>1 DEF InItsPlace, Inside, Outside
      <4>2. QED
        BY <1>1, <3>1, <4>1 DEF Rules
    <3>3. Locked(c) /\ Locked(d)
      BY <1>1, <1>3, <3>2 DEF Locked
    <3>4. QED
      BY <1>1, <3>3 DEF Excludes
  <2>3. QED
    BY <2>1, <2>2
<1>4. QED
  BY <1>2, <1>3

LEMMA ChangesAlone ==
  ASSUME Before, NEW c \in Caller, NEW d \in Caller, c # d, Inside(c), Inside(d),
         caller[c].op = "change", caller[d].op = "change"
  PROVE  FALSE
<1>1. Rules(store, Its) /\ InItsPlace(c) /\ InItsPlace(d) /\ Excludes(c, d)
  BY ItsRules DEF Before, Kempt
<1>2. Locked(c) /\ Locked(d)
  BY <1>1 DEF Locked, Rules, InItsPlace
<1>3. QED
  BY <1>1, <1>2 DEF Excludes

LEMMA HoldsAlone ==
  ASSUME Before, NEW c \in Caller, Stage(c) = "holding"
  PROVE  \/ primary = Whole(caller[c].holds) /\ Legible(primary)
         \/ Blank(c) /\ \A d \in Caller \ {c} : ~Inside(d)
<1>1. Rules(store, Its) /\ InItsPlace(c) /\ SeesTheRecord(c) /\ Inside(c) /\ caller[c].op = "change"
  BY ItsRules DEF Before, Kempt, Preserved, Inside, Outside, InItsPlace
<1>2. ASSUME Blank(c), NEW d \in Caller \ {c}, Inside(d)
      PROVE  FALSE
  <2>1. store = "protection" /\ InItsPlace(d) /\ Excludes(c, d)
    BY <1>2 DEF Blank, Before, Kempt
  <2>2. ~Its.bare /\ "load" \in Its.locks /\ "create" \in Its.locks /\ "change" \in Its.locks
    BY <1>1, <2>1 DEF Rules, InItsPlace
  <2>3. Locked(c) /\ Locked(d)
    BY <1>1, <1>2, <2>1, <2>2 DEF Locked, InItsPlace, Rules, Inside, Outside
  <2>4. QED
    BY <2>1, <2>3 DEF Excludes
<1>3. QED
  BY <1>1, <1>2, FilesAre DEF SeesTheRecord

(* No creation writes what is there.                                              *)
LEMMA WritesAnew ==
  ASSUME Before, NEW c \in Caller, Stage(c) = "writing"
  PROVE  /\ NoRecord /\ ~Legible(primary) /\ ~Legible(backup) /\ Readable = {}
         /\ \A d \in Caller : Stage(d) \notin {"restoring", "holding", "copying", "replacing"}
<1>1. InItsPlace(c) /\ SeesTheRecord(c) /\ Rules(store, Its) /\ caller[c].op = "create"
  BY ItsRules DEF Before, Kempt, Preserved, InItsPlace
<1>2. NoRecord /\ ~Legible(primary) /\ ~Legible(backup)
  BY <1>1, FilesAre DEF SeesTheRecord, NoRecord
<1>3. store # "protection"
  BY <1>1 DEF InItsPlace, Rules
<1>4. ASSUME NEW d \in Caller
      PROVE  Stage(d) \notin {"restoring", "holding", "copying", "replacing"}
  <2>1. SeesTheRecord(d) /\ \A h : Whole(h) # Gone
    BY FilesAre DEF Before, Preserved
  <2>2. QED
    BY <1>2, <1>3, <2>1 DEF SeesTheRecord, Blank, NoRecord
<1>5. QED
  BY <1>2, <1>4 DEF Readable

(* The pairs of which a call that goes on is one.                                 *)
LEMMA LetsInAgain ==
  ASSUME Before, NEW c \in Caller, UNCHANGED store, \A d \in Caller \ {c} : caller'[d] = caller[d],
         caller'[c].op = caller[c].op,
         \A d \in Caller \ {c} : /\ caller'[c].at = "holding" /\ Inside(d) => Stage(d) \in {"reading", "making"}
                                 /\ Stage(d) = "holding" => caller'[c].at \in Outside \cup {"reading", "making"}
                                 /\ caller'[c].at = "writing" => Stage(d) # "writing"
  PROVE  \A d, e \in Caller : d # e => LetsIn(d, e)'
<1>1. Its' = Its
  BY DEF Its
<1>2. \A d, e \in Caller : d # e => LetsIn(d, e)
  BY DEF Before, Preserved
<1>3. ASSUME NEW d \in Caller, NEW e \in Caller, d # e
      PROVE  LetsIn(d, e)'
  <2>1. CASE d # c /\ e # c
    BY <1>1, <1>2, <1>3, <2>1 DEF LetsIn, Inside, Stage
  <2>2. CASE d = c
    BY <1>1, <1>2, <1>3, <2>2 DEF LetsIn, Inside, Stage
  <2>3. CASE e = c
    BY <1>1, <1>2, <1>3, <2>3 DEF LetsIn, Inside, Stage
  <2>4. QED
    BY <2>1, <2>2, <2>3
<1>4. QED
  BY <1>3

(* The other calls, while the files stay.                                         *)
LEMMA OthersSee ==
  ASSUME Before, NEW c \in Caller, UNCHANGED <<store, primary, backup, stored>>, made => made',
         spoilt' \in Nat, spoilt <= spoilt', \A d \in Caller \ {c} : caller'[d] = caller[d]
  PROVE  \A d \in Caller \ {c} : SeesTheRecord(d)'
<1>1. Its' = Its /\ spoilt \in Nat
  BY StoreTyped DEF Before, Kempt, Its
<1>2. ASSUME NEW d \in Caller \ {c}
      PROVE  SeesTheRecord(d)'
  <2>1. SeesTheRecord(d) /\ Stage(d)' = Stage(d) /\ caller'[d] = caller[d]
    BY <1>2 DEF Before, Preserved, Stage
  <2>2. Few(caller[d].before \ caller[d].holds) => Few(caller[d].before \ caller[d].holds)'
    BY <1>1 DEF Few, One
  <2>3. NoRecord' <=> NoRecord
    BY DEF NoRecord
  <2>4. Blank(d)' <=> Blank(d)
    BY <2>1 DEF Blank
  <2>5. Legible(primary)' <=> Legible(primary)
    BY DEF Legible
  <2>6. Legible(backup)' <=> Legible(backup)
    BY DEF Legible
  <2>7. QED
    BY <1>1, <2>1, <2>2, <2>3, <2>4, <2>5, <2>6 DEF SeesTheRecord
<1>3. QED
  BY <1>2

LEMMA KeepsAgain ==
  ASSUME Before, NEW c \in Caller, UNCHANGED <<store, primary, backup, stored>>, made => made',
         spoilt' \in Nat, spoilt <= spoilt', \A d \in Caller \ {c} : caller'[d] = caller[d],
         caller'[c].at # "idle", Stage(c) = "copying" => spoilt < spoilt'
  PROVE  KeepsTheRecord'
<1>1. KeepsTheRecord /\ Its' = Its /\ spoilt \in Nat
  BY StoreTyped DEF Before, Kempt, Preserved, Its
<1>2. Readable' = Readable /\ BackedUp' = BackedUp
  BY <1>1 DEF Readable, BackedUp, Legible
<1>3. Few(stored \ Readable)'
  <2>1. Few(stored \ Readable)
    BY <1>1 DEF KeepsTheRecord
  <2>2. QED
    BY <1>1, <1>2, <2>1 DEF Few, One
<1>4. ASSUME spoilt' = 0, \A d \in Caller : Stage(d)' # "copying"
      PROVE  One(stored \ BackedUp)'
  <2>1. spoilt = 0 /\ Stage(c) # "copying"
    BY <1>1, <1>4
  <2>2. \A d \in Caller : Stage(d) # "copying"
    BY <1>4, <2>1 DEF Stage
  <2>3. One(stored \ BackedUp)
    BY <1>1, <2>1, <2>2 DEF KeepsTheRecord
  <2>4. QED
    BY <1>2, <2>3 DEF One
<1>5. Its'.named /\ ~made' => NoRecord'
  BY <1>1 DEF KeepsTheRecord, NoRecord
<1>6. ~(\A d \in Caller : Stage(d)' = "idle")
  BY DEF Stage
<1>7. spoilt' = 0 /\ ~Legible(primary)' => backup' = Gone
  BY <1>1 DEF KeepsTheRecord, Legible
<1>8. QED
  BY <1>3, <1>4, <1>5, <1>6, <1>7 DEF KeepsTheRecord

(* What can be read has all but what faults took.                                 *)
LEMMA ReadableIsEnough ==
  ASSUME Before, NEW c \in Caller
  PROVE  /\ Legible(primary) => Few(caller[c].before \ primary.holds)
         /\ ~Legible(primary) => Few(caller[c].before \ BackedUp)
<1>1. caller[c].before \subseteq stored /\ Few(stored \ Readable)
  BY DEF Before, Kempt, Preserved, InItsPlace, KeepsTheRecord
<1>2. Few(caller[c].before \ Readable)
  BY <1>1 DEF Few, One
<1>3. QED
  BY <1>2 DEF Readable, BackedUp

(* A call that goes on, while the files stay.                                     *)
LEMMA SeesAgain ==
  ASSUME Before, NEW c \in Caller, NEW at, NEW held, Goes(c, at, held), UNCHANGED <<store, primary, backup, stored>>,
         spoilt' \in Nat, spoilt <= spoilt',
         CanBe(c, at, held), at = "writing" /\ Its.named => made',
         caller[c].op = "create" => Stage(c) # "answered"
  PROVE  SeesTheRecord(c)'
<1>1. Its' = Its /\ spoilt \in Nat /\ SeesTheRecord(c)
  BY StoreTyped DEF Before, Kempt, Preserved, Its
<1>2. Stage(c)' = at /\ caller'[c].at = at /\ caller'[c].holds = held /\ caller'[c].op = caller[c].op
      /\ caller'[c].before = caller[c].before
  BY DEF Goes, Stage
<1>3. NoRecord' <=> NoRecord
  BY DEF NoRecord
<1>4. Blank(c) /\ held = {} => Blank(c)'
  BY <1>2 DEF Blank
<1>5. (Legible(primary)' <=> Legible(primary)) /\ (Legible(backup)' <=> Legible(backup))
  BY DEF Legible
<1>6. Few(caller[c].before \ held) => Few(caller[c].before \ caller[c].holds)'
  BY <1>1, <1>2 DEF Few, One
<1>7. ~Its.named /\ caller[c].op = "create" => NoRecord
  BY <1>1 DEF SeesTheRecord
<1>8. QED
  BY <1>1, <1>2, <1>3, <1>4, <1>5, <1>6, <1>7 DEF SeesTheRecord, CanBe

LEMMA GoesPreserves ==
  ASSUME Before, NEW c \in Caller, NEW at \in Places \ {"idle"}, NEW held, Goes(c, at, held),
         UNCHANGED <<store, primary, backup, stored>>, made => made', spoilt' \in Nat, spoilt <= spoilt',
         Stage(c) = "copying" => spoilt < spoilt',
         \A d \in Caller \ {c} : /\ at = "holding" /\ Inside(d) => Stage(d) \in {"reading", "making"}
                                 /\ Stage(d) = "holding" => at \in Outside \cup {"reading", "making"}
                                 /\ at = "writing" => Stage(d) # "writing",
         SeesTheRecord(c)'
  PROVE  Preserved'
<1>1. /\ \A d \in Caller \ {c} : caller'[d] = caller[d]
      /\ caller'[c].at = at /\ caller'[c].op = caller[c].op
  BY DEF Goes
<1>2. \A d, e \in Caller : d # e => LetsIn(d, e)'
  BY <1>1, LetsInAgain
<1>3. \A d \in Caller \ {c} : SeesTheRecord(d)'
  BY <1>1, OthersSee
<1>4. KeepsTheRecord'
  BY <1>1, KeepsAgain
<1>5. QED
  BY <1>2, <1>3, <1>4 DEF Preserved

LEMMA BeginPreserves ==
  ASSUME Before, NEW c \in Caller, Begin(c)
  PROVE  Preserved'
<1>1. /\ UNCHANGED <<store, made, primary, backup, stored, spoilt, failures>> /\ Its' = Its
      /\ Stage(c) = "idle"
  BY DEF Begin, Its
<1>2. /\ \A d \in Caller \ {c} : caller'[d] = caller[d]
      /\ caller'[c].at \in {"peeking", "entering"} /\ caller'[c].op \in Its.offers
      /\ caller'[c].op = "create" /\ ~Its.named => primary = Gone /\ \A d \in Caller : Stage(d) = "idle"
  BY BeginGoes DEF Before, Kempt
<1>3. spoilt \in Nat /\ Rules(store, Its)
  BY StoreTyped, ItsRules DEF Before, Kempt
<1>4. \A d, e \in Caller : d # e => LetsIn(d, e)'
  <2>1. ASSUME NEW d \in Caller \ {c}
        PROVE  LetsIn(c, d)' /\ LetsIn(d, c)'
    <3>1. ~Its.named /\ caller'[c].op = "create" => caller[d].op # "create"
      <4>1. Stage(d) = "idle" => caller[d].op = "none"
        BY DEF Before, Kempt, InItsPlace
      <4>2. QED
        BY <1>2, <4>1
    <3>2. QED
      BY <1>1, <1>2, <3>1 DEF LetsIn, Stage, Inside, Outside
  <2>2. ASSUME NEW d \in Caller \ {c}, NEW e \in Caller \ {c}, d # e
        PROVE  LetsIn(d, e)'
    <3>1. LetsIn(d, e)
      BY <2>2 DEF Before, Preserved
    <3>2. QED
      BY <1>1, <1>2, <3>1 DEF LetsIn, Stage, Inside
  <2>3. QED
    BY <2>1, <2>2
<1>5. \A d \in Caller \ {c} : SeesTheRecord(d)'
  BY <1>1, <1>2, <1>3, OthersSee
<1>6. SeesTheRecord(c)'
  <2>1. caller'[c].op = "create" /\ ~Its.named => NoRecord
    BY <1>2 DEF Before, Preserved, KeepsTheRecord, NoRecord
  <2>2. QED
    BY <1>1, <1>2, <2>1 DEF SeesTheRecord, Stage, NoRecord
<1>7. KeepsTheRecord'
  BY <1>1, <1>2, <1>3, KeepsAgain
<1>8. QED
  BY <1>4, <1>5, <1>6, <1>7 DEF Preserved

LEMMA PeekPreserves ==
  ASSUME Before, NEW c \in Caller, Peek(c)
  PROVE  Preserved'
<1>1. /\ UNCHANGED <<store, made, primary, backup, stored, spoilt, failures>> /\ Stage(c) = "peeking"
      /\ spoilt \in Nat /\ caller[c].holds = {}
  BY StoreTyped DEF Peek, Before, Kempt, InItsPlace
<1>2. PICK at \in {"answered", "entering", "failed"}, held \in SUBSET Caller :
        Goes(c, at, held) /\ (at # "entering" => Few(caller[c].before \ held))
  <2>1. CASE Legible(primary) /\ Goes(c, "answered", primary.holds)
    BY <2>1, ReadableIsEnough, HoldsOfFile DEF Before, Kempt
  <2>2. CASE ~Legible(primary) /\ Its.recovers /\ Goes(c, "entering", caller[c].holds)
    BY <1>1, <2>2
  <2>3. CASE ~Legible(primary) /\ ~Its.recovers /\ Goes(c, "failed", caller[c].holds)
    BY <1>1, <2>3, ReadableIsEnough DEF BackedUp
  <2>4. QED
    BY <2>1, <2>2, <2>3, PeekGoes DEF Before, Kempt
<1>3. SeesTheRecord(c)'
  <2>1. /\ UNCHANGED <<store, primary, backup, stored>> /\ Stage(c) # "answered" /\ spoilt' \in Nat /\ spoilt <= spoilt'
        /\ at \notin {"recovering", "restoring", "holding", "copying", "replacing", "writing"}
    BY <1>1, <1>2
  <2>2. CanBe(c, at, held)
    BY <1>2, <2>1 DEF CanBe
  <2>3. QED
    BY <1>2, <2>1, <2>2, SeesAgain
<1>4. at \in Places \ {"idle"} /\ at \in Outside
  BY <1>2 DEF Places, Outside
<1>5. QED
  BY <1>1, <1>2, <1>3, <1>4, GoesPreserves

LEMMA AdmitPreserves ==
  ASSUME Before, NEW c \in Caller, Admit(c)
  PROVE  Preserved'
<1>1. /\ UNCHANGED <<store, made, primary, backup, stored, spoilt, failures>> /\ Stage(c) = "entering"
      /\ spoilt \in Nat
  BY StoreTyped DEF Admit, Before, Kempt
<1>2. Goes(c, "reading", caller[c].holds)
  BY AdmitGoes DEF Before, Kempt
<1>3. SeesTheRecord(c)'
  <2>1. UNCHANGED <<store, primary, backup, stored>> /\ Stage(c) # "answered" /\ spoilt' \in Nat /\ spoilt <= spoilt'
    BY <1>1
  <2>2. CanBe(c, "reading", caller[c].holds)
    BY <1>2, <2>1 DEF CanBe
  <2>3. QED
    BY <1>2, <2>1, <2>2, SeesAgain
<1>4. "reading" \in Places \ {"idle"}
  BY DEF Places
<1>5. QED
  BY <1>1, <1>2, <1>3, <1>4, GoesPreserves

LEMMA FailPreserves ==
  ASSUME Before, NEW c \in Caller, Refuse(c) \/ WriteFails(c)
  PROVE  Preserved'
<1>1. /\ UNCHANGED <<store, made, primary, backup, stored>> /\ spoilt' \in Nat /\ spoilt <= spoilt'
      /\ (Stage(c) = "copying" => spoilt < spoilt')
      /\ Stage(c) \in {"holding", "restoring", "copying", "replacing", "writing"}
  BY StoreTyped DEF Refuse, WriteFails, Before, Kempt
<1>2. Goes(c, "failed", caller[c].holds)
  BY SimpleGoes DEF Before, Kempt
<1>3. caller[c].op = "load" => Few(caller[c].before \ caller[c].holds)
  <2>1. ASSUME caller[c].op = "load"
        PROVE  Stage(c) = "restoring"
    BY <1>1, <2>1 DEF Before, Kempt, InItsPlace
  <2>2. ASSUME Stage(c) = "restoring"
        PROVE  ~Legible(primary) /\ BackedUp = caller[c].holds
    BY <2>2, FilesAre DEF Before, Kempt, Preserved, InItsPlace, SeesTheRecord, BackedUp
  <2>3. QED
    BY <2>1, <2>2, ReadableIsEnough
<1>4. SeesTheRecord(c)'
  <2>1. UNCHANGED <<store, primary, backup, stored>> /\ Stage(c) # "answered"
    BY <1>1
  <2>2. CanBe(c, "failed", caller[c].holds)
    BY <1>1, <1>2, <1>3, <2>1 DEF CanBe
  <2>3. QED
    BY <1>1, <1>2, <1>3, <2>1, <2>2, SeesAgain
<1>5. "failed" \in Places \ {"idle"} /\ "failed" \in Outside
  BY DEF Places, Outside
<1>6. QED
  BY <1>1, <1>2, <1>4, <1>5, GoesPreserves

LEMMA ReadFilePreserves ==
  ASSUME Before, NEW c \in Caller, ReadFile(c)
  PROVE  Preserved'
<1>1. /\ UNCHANGED <<store, primary, backup, stored>> /\ made' = made /\ Stage(c) = "reading" /\ Inside(c)
      /\ spoilt \in Nat /\ spoilt' = spoilt /\ caller[c].holds = {}
  BY StoreTyped DEF ReadFile, Before, Kempt, InItsPlace, Inside, Outside
<1>2. CASE Legible(primary) /\ Goes(c, Onward(c), primary.holds)
  <2>1. /\ Onward(c) \in Places \ {"idle"} /\ Onward(c) \in {"answered", "holding", "failed"}
        /\ (caller[c].op = "load" => Onward(c) = "answered") /\ (Onward(c) = "holding" => caller[c].op = "change")
    BY OnwardIs DEF Places
  <2>2. primary = Whole(primary.holds)
    BY <1>2, FilesAre, StoreTyped DEF Before, Kempt
  <2>3. Few(caller[c].before \ primary.holds)
    BY <1>2, ReadableIsEnough
  <2>4. PICK at \in {"answered", "holding", "failed"}, held \in SUBSET Caller :
          at = Onward(c) /\ held = primary.holds /\ primary = Whole(held) /\ Few(caller[c].before \ held) /\ Goes(c, at, held)
    BY <1>2, <2>1, <2>2, <2>3, HoldsOfFile DEF Before, Kempt
  <2>5. SeesTheRecord(c)'
    <3>1. /\ UNCHANGED <<store, primary, backup, stored>> /\ Stage(c) # "answered" /\ spoilt' \in Nat /\ spoilt <= spoilt'
          /\ at \notin {"recovering", "restoring", "copying", "replacing", "writing"} /\ Goes(c, at, held)
          /\ primary = Whole(held) /\ Few(caller[c].before \ held)
      BY <1>1, <2>4
    <3>2. CanBe(c, at, held)
      BY <3>1 DEF CanBe
    <3>3. QED
      BY <3>1, <3>2, SeesAgain
  <2>6. \A d \in Caller \ {c} :
          /\ at = "holding" /\ Inside(d) => Stage(d) \in {"reading", "making"}
          /\ Stage(d) = "holding" => at \in Outside \cup {"reading", "making"}
    <3>1. ASSUME NEW d \in Caller \ {c}, at = "holding", Inside(d)
          PROVE  Stage(d) \in {"reading", "making"}
      <4>1. caller[c].op = "change"
        BY <2>1, <2>4, <3>1
      <4>2. Its.recovers /\ InItsPlace(d)
        BY <1>1, <4>1, ItsRules DEF Before, Kempt, InItsPlace, Rules
      <4>3. Stage(d) # "holding"
        BY <1>1, <3>1, <4>1, <4>2, ChangesAlone DEF InItsPlace
      <4>4. Stage(d) # "writing"
        BY <1>2, WritesAnew
      <4>5. QED
        BY <1>1, <3>1, <4>2, <4>3, <4>4, Undisturbed
    <3>2. ASSUME NEW d \in Caller \ {c}, Stage(d) = "holding"
          PROVE  at # "holding"
      <4>1. InItsPlace(d) /\ Inside(d)
        BY <3>2 DEF Before, Kempt, Inside, Outside
      <4>2. caller[d].op = "change"
        BY <3>2, <4>1 DEF InItsPlace
      <4>3. QED
        BY <1>1, <2>1, <2>4, <4>1, <4>2, ChangesAlone
    <3>3. QED
      BY <3>1, <3>2, <2>4 DEF Outside
  <2>7. at \in Places \ {"idle"} /\ Goes(c, at, held) /\ at # "writing"
    BY <2>1, <2>4
  <2>8. QED
    BY <1>1, <2>5, <2>6, <2>7, GoesPreserves
<1>3. CASE ~Legible(primary) /\ Goes(c, "recovering", caller[c].holds)
  <2>1. SeesTheRecord(c)'
    <3>1. UNCHANGED <<store, primary, backup, stored>> /\ Stage(c) # "answered" /\ spoilt' \in Nat /\ spoilt <= spoilt'
      BY <1>1
    <3>2. CanBe(c, "recovering", caller[c].holds)
      BY <1>3, <3>1 DEF CanBe
    <3>3. QED
      BY <1>3, <3>1, <3>2, SeesAgain
  <2>2. \A d \in Caller \ {c} : Stage(d) # "holding"
    BY <1>1, <1>3, HoldsAlone
  <2>3. "recovering" \in Places \ {"idle"}
    BY DEF Places
  <2>4. QED
    BY <1>1, <1>3, <2>1, <2>2, <2>3, GoesPreserves
<1>4. QED
  BY <1>2, <1>3, ReadFileGoes DEF Before, Kempt

LEMMA RecoverPreserves ==
  ASSUME Before, NEW c \in Caller, Recover(c)
  PROVE  Preserved'
<1>1. /\ UNCHANGED <<store, primary, backup, stored>> /\ made' = made /\ Stage(c) = "recovering" /\ Inside(c)
      /\ spoilt \in Nat /\ spoilt' = spoilt /\ caller[c].holds = {} /\ spoilt' \in Nat /\ spoilt <= spoilt'
      /\ Stage(c) # "answered" /\ Stage(c) # "copying"
  BY StoreTyped DEF Recover, Before, Kempt, InItsPlace, Inside, Outside
<1>2. \A d \in Caller \ {c} : Stage(d) # "holding"
  <2>1. ASSUME NEW d \in Caller \ {c}, Stage(d) = "holding"
        PROVE  FALSE
    <3>1. LetsIn(d, c)
      BY DEF Before, Preserved
    <3>2. QED
      BY <1>1, <2>1, <3>1 DEF LetsIn
  <2>2. QED
    BY <2>1
<1>3. SeesTheRecord(c)
  BY DEF Before, Preserved
<1>4. CASE Its.recovers /\ Legible(backup) /\ Goes(c, "restoring", backup.holds)
  <2>1. backup = Whole(backup.holds) /\ ~Legible(primary)
    BY <1>1, <1>3, <1>4, FilesAre, StoreTyped DEF Before, Kempt, SeesTheRecord
  <2>2. SeesTheRecord(c)'
    <3>1. CanBe(c, "restoring", backup.holds)
      BY <1>1, <1>4, <2>1 DEF CanBe
    <3>2. QED
      BY <1>1, <1>4, <2>1, <3>1, SeesAgain
  <2>3. "restoring" \in Places \ {"idle"}
    BY DEF Places
  <2>4. QED
    BY <1>1, <1>2, <1>4, <2>2, <2>3, GoesPreserves
<1>5. CASE ~(Its.recovers /\ Legible(backup)) /\ Goes(c, "failed", caller[c].holds)
  <2>1. Few(caller[c].before \ caller[c].holds)
    <3>1. CASE Legible(primary) /\ caller[c].before = {}
      BY <3>1 DEF Few, One
    <3>2. CASE ~Legible(primary)
      BY <1>1, <1>5, <3>2, ReadableIsEnough DEF BackedUp
    <3>3. QED
      BY <1>1, <1>3, <3>1, <3>2 DEF SeesTheRecord
  <2>2. SeesTheRecord(c)'
    <3>1. CanBe(c, "failed", caller[c].holds)
      BY <1>1, <1>5, <2>1 DEF CanBe
    <3>2. QED
      BY <1>1, <1>5, <2>1, <3>1, SeesAgain
  <2>3. "failed" \in Places \ {"idle"}
    BY DEF Places
  <2>4. QED
    BY <1>1, <1>2, <1>5, <2>2, <2>3, GoesPreserves
<1>6. CASE caller[c].op = "create" /\ primary = Gone /\ backup = Gone /\ Goes(c, "making", caller[c].holds)
  <2>1. SeesTheRecord(c)'
    <3>1. CanBe(c, "making", caller[c].holds)
      BY <1>1, <1>6 DEF CanBe
    <3>2. QED
      BY <1>1, <1>6, <3>1, SeesAgain
  <2>2. "making" \in Places \ {"idle"}
    BY DEF Places
  <2>3. QED
    BY <1>1, <1>2, <1>6, <2>1, <2>2, GoesPreserves
<1>7. CASE /\ store = "protection" /\ primary = Gone /\ backup = Gone /\ caller[c].op = "change"
           /\ Goes(c, "holding", caller[c].holds)
  <2>1. Blank(c)
    BY <1>1, <1>7 DEF Blank
  <2>2. SeesTheRecord(c)'
    <3>1. CanBe(c, "holding", caller[c].holds)
      BY <1>1, <1>7, <2>1 DEF CanBe
    <3>2. QED
      BY <1>1, <1>7, <2>1, <3>1, SeesAgain
  <2>3. ASSUME NEW d \in Caller \ {c}, Inside(d)
        PROVE  FALSE
    <3>1. Rules(store, Its) /\ InItsPlace(d) /\ InItsPlace(c)
      BY ItsRules DEF Before, Kempt
    <3>2. Stage(d) \in {"making", "writing"} /\ caller[d].op = "create"
      BY <1>1, <1>7, <2>3, <3>1, Undisturbed DEF InItsPlace, Rules
    <3>3. QED
      BY <1>7, <3>1, <3>2 DEF InItsPlace, Rules
  <2>4. "holding" \in Places \ {"idle"}
    BY DEF Places
  <2>5. QED
    BY <1>1, <1>2, <1>7, <2>2, <2>3, <2>4, GoesPreserves
<1>8. QED
  BY <1>4, <1>5, <1>6, <1>7, RecoverGoes DEF Before, Kempt

LEMMA MakeRoomPreserves ==
  ASSUME Before, NEW c \in Caller, MakeRoom(c)
  PROVE  Preserved'
<1>1. /\ UNCHANGED <<store, primary, backup, stored>> /\ (made => made') /\ Stage(c) = "making"
      /\ spoilt \in Nat /\ spoilt' = spoilt /\ spoilt' \in Nat /\ spoilt <= spoilt'
      /\ Stage(c) # "answered" /\ Stage(c) # "copying" /\ caller[c].op = "create"
  BY StoreTyped DEF MakeRoom, Before, Kempt, InItsPlace
<1>2. CASE Goes(c, "failed", caller[c].holds)
  <2>1. SeesTheRecord(c)'
    <3>1. CanBe(c, "failed", caller[c].holds)
      BY <1>1, <1>2 DEF CanBe
    <3>2. QED
      BY <1>1, <1>2, <3>1, SeesAgain
  <2>2. "failed" \in Places \ {"idle"} /\ "failed" \in Outside
    BY DEF Places, Outside
  <2>3. QED
    BY <1>1, <1>2, <2>1, <2>2, GoesPreserves
<1>3. CASE /\ Goes(c, "writing", caller[c].holds) /\ (Its.named => made' /\ ~made)
  <2>1. NoRecord
    BY <1>1, <1>3 DEF Before, Preserved, KeepsTheRecord, SeesTheRecord
  <2>2. SeesTheRecord(c)'
    <3>1. CanBe(c, "writing", caller[c].holds)
      BY <1>1, <1>3, <2>1 DEF CanBe
    <3>2. QED
      BY <1>1, <1>3, <2>1, <3>1, SeesAgain
  <2>3. ASSUME NEW d \in Caller \ {c}
        PROVE  Stage(d) # "holding" /\ Stage(d) # "writing"
    <3>1. SeesTheRecord(d) /\ LetsIn(c, d) /\ InItsPlace(d) /\ InItsPlace(c) /\ Rules(store, Its)
      BY ItsRules DEF Before, Preserved, Kempt
    <3>2. store # "protection"
      BY <1>1, <3>1 DEF InItsPlace, Rules
    <3>3. Stage(d) # "holding"
      BY <2>1, <3>1, <3>2, FilesAre DEF NoRecord, SeesTheRecord, Blank
    <3>4. Stage(d) # "writing"
      BY <1>1, <1>3, <3>1 DEF LetsIn, SeesTheRecord, InItsPlace
    <3>5. QED
      BY <3>3, <3>4
  <2>4. "writing" \in Places \ {"idle"}
    BY DEF Places
  <2>5. QED
    BY <1>1, <1>3, <2>2, <2>3, <2>4, GoesPreserves
<1>4. QED
  BY <1>2, <1>3, MakeRoomGoes DEF Before, Kempt

(* The copy over the backup, and the replacement of what it copied.               *)
LEMMA OthersAway ==
  ASSUME Before, NEW c \in Caller, Stage(c) \in {"restoring", "copying", "replacing"}
  PROVE  /\ Its.recovers /\ Inside(c)
         /\ \A d \in Caller \ {c} : Stage(d) \in Outside \cup {"making"}
<1>1. Its.recovers /\ Inside(c)
  BY ItsRules DEF Before, Kempt, InItsPlace, Rules, Inside, Outside
<1>2. ASSUME NEW d \in Caller \ {c}, Inside(d)
      PROVE  Stage(d) = "making"
  <2>1. Stage(d) \in {"making", "writing"}
    BY <1>1, <1>2, Undisturbed
  <2>2. Stage(d) # "writing"
    BY WritesAnew
  <2>3. QED
    BY <2>1, <2>2
<1>3. QED
  BY <1>1, <1>2 DEF Inside

(* Calls outside, and creations that are about to fail, see nothing of the files. *)
LEMMA AwaySee ==
  ASSUME Before, NEW d \in Caller, Stage(d) \in Outside \cup {"making"}, UNCHANGED store, caller'[d] = caller[d],
         spoilt' \in Nat, spoilt <= spoilt',
         ~Its.named /\ caller[d].op = "create" /\ Stage(d) # "answered" => NoRecord'
  PROVE  SeesTheRecord(d)'
<1>1. Its' = Its /\ spoilt \in Nat /\ SeesTheRecord(d)
  BY StoreTyped DEF Before, Kempt, Preserved, Its
<1>2. Stage(d)' = Stage(d)
  BY DEF Stage
<1>3. Few(caller[d].before \ caller[d].holds) => Few(caller[d].before \ caller[d].holds)'
  BY <1>1 DEF Few, One
<1>4. QED
  BY <1>1, <1>2, <1>3 DEF SeesTheRecord, Outside

LEMMA NoCreation ==
  ASSUME Before, NEW d \in Caller, ~NoRecord, ~Its.named, caller[d].op = "create", Stage(d) # "answered"
  PROVE  FALSE
BY DEF Before, Preserved, SeesTheRecord

LEMMA RestorePreserves ==
  ASSUME Before, NEW c \in Caller, Restore(c)
  PROVE  Preserved'
<1>1. /\ UNCHANGED <<store, backup, stored, spoilt>> /\ made' = made /\ Stage(c) = "restoring"
      /\ spoilt \in Nat /\ spoilt' \in Nat /\ spoilt <= spoilt' /\ Its' = Its
  BY StoreTyped DEF Restore, Before, Kempt, Its
<1>2. PICK held \in SUBSET Caller : held = caller[c].holds
  BY StoreTyped DEF Before, Kempt
<1>3. /\ backup = Whole(held) /\ ~Legible(primary) /\ Its.recovers /\ Inside(c) /\ ~NoRecord
      /\ primary' = Whole(held) /\ Legible(backup) /\ backup.holds = held
  BY <1>1, <1>2, FilesAre DEF Before, Kempt, Preserved, InItsPlace, SeesTheRecord, Restore, Inside, Outside, NoRecord
<1>4. PICK at \in {"answered", "holding", "failed"} :
        /\ Goes(c, at, held) /\ (at = "holding" => caller[c].op = "change")
        /\ (caller[c].op = "load" => at = "answered")
  BY <1>2, SimpleGoes, OnwardIs DEF Before, Kempt
<1>5. \A d \in Caller \ {c} : Stage(d) \in Outside \cup {"making"} /\ caller'[d] = caller[d]
  BY <1>1, <1>4, OthersAway DEF Goes
<1>6. Readable = held /\ Readable' = held /\ BackedUp' = BackedUp
  BY <1>1, <1>3, FilesAre DEF Readable, BackedUp
<1>7. Few(caller[c].before \ held)
  BY <1>3, <1>6, ReadableIsEnough DEF Readable, BackedUp
<1>8. SeesTheRecord(c)'
  <2>1. Stage(c)' = at /\ caller'[c].holds = held /\ caller'[c].op = caller[c].op /\ caller'[c].before = caller[c].before
    BY <1>4 DEF Goes, Stage
  <2>2. Few(caller[c].before \ held)'
    BY <1>1, <1>7, <2>1 DEF Few, One
  <2>3. ~(~Its.named /\ caller[c].op = "create")
    BY <1>1, <1>3, NoCreation
  <2>4. QED
    BY <1>1, <1>3, <2>1, <2>2, <2>3 DEF SeesTheRecord
<1>9. \A d \in Caller \ {c} : SeesTheRecord(d)'
  BY <1>1, <1>3, <1>5, NoCreation, AwaySee
<1>10. \A d, e \in Caller : d # e => LetsIn(d, e)'
  <2>1. caller'[c].at = at /\ caller'[c].op = caller[c].op
    BY <1>4 DEF Goes
  <2>2. \A d \in Caller \ {c} : Inside(d) => Stage(d) = "making"
    BY <1>5 DEF Inside
  <2>3. \A d \in Caller \ {c} : Stage(d) # "holding"
    BY <1>5 DEF Outside
  <2>4. QED
    BY <1>1, <1>4, <1>5, <2>1, <2>2, <2>3, LetsInAgain
<1>11. KeepsTheRecord'
  <2>1. Few(stored \ Readable)'
    <3>1. Few(stored \ Readable)
      BY DEF Before, Preserved, KeepsTheRecord
    <3>2. QED
      BY <1>1, <1>6, <3>1 DEF Few, One
  <2>2. One(stored \ BackedUp)' \/ spoilt' # 0
    <3>1. \A d \in Caller : Stage(d) # "copying"
      BY <1>1, <1>5 DEF Outside
    <3>2. spoilt = 0 => One(stored \ BackedUp)
      BY <3>1 DEF Before, Preserved, KeepsTheRecord
    <3>3. QED
      BY <1>1, <1>6, <3>2 DEF One
  <2>3. Its.named => made
    BY <1>3 DEF Before, Preserved, KeepsTheRecord
  <2>4. Stage(c)' # "idle"
    BY <1>4 DEF Goes, Stage
  <2>5. Legible(primary)'
    BY <1>3, FilesAre
  <2>6. QED
    BY <1>1, <2>1, <2>2, <2>3, <2>4, <2>5 DEF KeepsTheRecord
<1>12. QED
  BY <1>8, <1>9, <1>10, <1>11 DEF Preserved

LEMMA BackUpAlone ==
  ASSUME Before, NEW c \in Caller, BackUp(c)
  PROVE  \A d \in Caller \ {c} : Stage(d) \in Outside \cup {"making"}
<1>1. /\ InItsPlace(c) /\ Stage(c) = "holding" /\ ChainFree(c) /\ Inside(c) /\ Rules(store, Its)
      /\ caller[c].op = "change"
  BY ItsRules DEF BackUp, Before, Kempt, InItsPlace, Inside, Outside
<1>2. ASSUME NEW d \in Caller \ {c}, Stage(d) = "reading"
      PROVE  FALSE
  <2>1. InItsPlace(d) /\ Excludes(c, d) /\ Inside(d)
    BY <1>2 DEF Before, Kempt, Inside, Outside
  <2>2. CASE store = "job"
    <3>1. ServerOf(c) = ServerOf(d) /\ Chained(d)
      BY <1>2, <2>1, <2>2 DEF Before, JobsHaveOneServer, ServerOf, Chained
    <3>2. QED
      BY <1>1, <3>1 DEF ChainFree
  <2>3. CASE store # "job"
    <3>1. "load" \in Its.locks /\ "create" \in Its.locks /\ "change" \in Its.locks
      BY <1>1, <2>3 DEF Rules, InItsPlace
    <3>2. caller[d].op \in Its.locks
      BY <1>1, <1>2, <2>1, <3>1 DEF InItsPlace, Rules
    <3>3. Locked(c) /\ Locked(d)
      BY <1>1, <1>2, <2>1, <3>1, <3>2 DEF Locked
    <3>4. QED
      BY <2>1, <3>3 DEF Excludes
  <2>4. QED
    BY <2>2, <2>3
<1>3. \A d \in Caller \ {c} : Inside(d) => Stage(d) \in {"reading", "making"}
  BY <1>1 DEF Before, Preserved, LetsIn
<1>4. QED
  BY <1>2, <1>3 DEF Inside

LEMMA BackUpPreserves ==
  ASSUME Before, NEW c \in Caller, BackUp(c)
  PROVE  Preserved'
<1>1. /\ UNCHANGED <<store, primary, stored>> /\ made' = made /\ Stage(c) = "holding" /\ caller[c].op = "change"
      /\ spoilt \in Nat /\ spoilt' = spoilt /\ spoilt' \in Nat /\ spoilt <= spoilt' /\ Its' = Its
  BY StoreTyped DEF BackUp, Before, Kempt, InItsPlace, Its
<1>2. PICK held \in SUBSET Caller : held = caller[c].holds
  BY StoreTyped DEF Before, Kempt
<1>3. \A d \in Caller \ {c} : Stage(d) \in Outside \cup {"making"}
  BY BackUpAlone
<1>4. CASE primary = Gone
  <2>1. UNCHANGED <<store, primary, backup, stored>> /\ Goes(c, "replacing", held)
    BY <1>1, <1>2, <1>4, SimpleGoes DEF BackUp, Before, Kempt
  <2>2. Blank(c) /\ held = {}
    BY <1>1, <1>2, <1>4, HoldsAlone, FilesAre DEF Blank
  <2>3. SeesTheRecord(c)'
    <3>1. CanBe(c, "replacing", held)
      BY <2>2 DEF CanBe
    <3>2. QED
      BY <1>1, <2>1, <3>1, SeesAgain
  <2>4. "replacing" \in Places \ {"idle"} /\ \A d \in Caller \ {c} : Stage(d) # "holding"
    BY <1>3 DEF Places, Outside
  <2>5. QED
    BY <1>1, <2>1, <2>3, <2>4, GoesPreserves
<1>5. CASE primary # Gone
  <2>1. backup' = Torn /\ Goes(c, "copying", held)
    BY <1>1, <1>2, <1>5, SimpleGoes DEF BackUp, Before, Kempt
  <2>2. primary = Whole(held) /\ Legible(primary) /\ ~NoRecord
    BY <1>1, <1>2, <1>5, HoldsAlone DEF Blank, NoRecord
  <2>3. Stage(c)' = "copying" /\ caller'[c].holds = held /\ caller'[c].op = "change" /\ caller'[c].at = "copying"
        /\ caller'[c].op = caller[c].op /\ \A d \in Caller \ {c} : caller'[d] = caller[d]
    BY <1>1, <2>1 DEF Goes, Stage
  <2>4. SeesTheRecord(c)'
    BY <1>1, <2>2, <2>3 DEF SeesTheRecord
  <2>5. \A d \in Caller \ {c} : SeesTheRecord(d)'
    BY <1>1, <1>3, <2>2, <2>3, NoCreation, AwaySee
  <2>6. \A d, e \in Caller : d # e => LetsIn(d, e)'
    <3>1. \A d \in Caller \ {c} : Stage(d) # "holding"
      BY <1>3 DEF Outside
    <3>2. QED
      BY <1>1, <2>3, <3>1, LetsInAgain
  <2>7. KeepsTheRecord'
    <3>1. Readable' = Readable /\ Legible(primary)'
      BY <1>1, <2>2 DEF Readable, Legible
    <3>2. Few(stored \ Readable)'
      <4>1. Few(stored \ Readable)
        BY DEF Before, Preserved, KeepsTheRecord
      <4>2. QED
        BY <1>1, <3>1, <4>1 DEF Few, One
    <3>3. Its.named => made
      BY <2>2 DEF Before, Preserved, KeepsTheRecord
    <3>4. QED
      BY <1>1, <2>3, <3>1, <3>2, <3>3 DEF KeepsTheRecord
  <2>8. QED
    BY <2>4, <2>5, <2>6, <2>7 DEF Preserved
<1>6. QED
  BY <1>4, <1>5

LEMMA CopiedPreserves ==
  ASSUME Before, NEW c \in Caller, Copied(c)
  PROVE  Preserved'
<1>1. /\ UNCHANGED <<store, primary, stored>> /\ made' = made /\ Stage(c) = "copying" /\ caller[c].op = "change"
      /\ spoilt \in Nat /\ spoilt' = spoilt /\ spoilt' \in Nat /\ spoilt <= spoilt' /\ Its' = Its /\ backup' = primary
  BY StoreTyped DEF Copied, Before, Kempt, InItsPlace, Its
<1>2. PICK held \in SUBSET Caller : held = caller[c].holds
  BY StoreTyped DEF Before, Kempt
<1>3. Its.recovers /\ \A d \in Caller \ {c} : Stage(d) \in Outside \cup {"making"}
  BY <1>1, OthersAway
<1>4. primary = Whole(held) /\ Legible(primary) /\ ~NoRecord /\ primary.holds = held
  BY <1>1, <1>2, FilesAre DEF Before, Preserved, SeesTheRecord, NoRecord
<1>5. Stage(c)' = "replacing" /\ caller'[c].holds = held /\ caller'[c].op = "change" /\ caller'[c].at = "replacing"
      /\ caller'[c].op = caller[c].op /\ \A d \in Caller \ {c} : caller'[d] = caller[d]
  BY <1>1, <1>2, SimpleGoes DEF Goes, Stage, Before, Kempt
<1>6. SeesTheRecord(c)'
  BY <1>1, <1>4, <1>5 DEF SeesTheRecord
<1>7. \A d \in Caller \ {c} : SeesTheRecord(d)'
  BY <1>1, <1>3, <1>4, <1>5, NoCreation, AwaySee
<1>8. \A d, e \in Caller : d # e => LetsIn(d, e)'
  <2>1. \A d \in Caller \ {c} : Stage(d) # "holding"
    BY <1>3 DEF Outside
  <2>2. QED
    BY <1>1, <1>5, <2>1, LetsInAgain
<1>9. KeepsTheRecord'
  <2>1. Readable = held /\ Readable' = held /\ BackedUp' = held /\ Legible(primary)'
    BY <1>1, <1>3, <1>4 DEF Readable, BackedUp, Legible
  <2>2. Few(stored \ Readable)
    BY DEF Before, Preserved, KeepsTheRecord
  <2>3. Few(stored \ Readable)'
    BY <1>1, <2>1, <2>2 DEF Few, One
  <2>4. spoilt' = 0 => One(stored \ BackedUp)'
    BY <1>1, <2>1, <2>2 DEF Few, One
  <2>5. Its.named => made
    BY <1>4 DEF Before, Preserved, KeepsTheRecord
  <2>6. QED
    BY <1>1, <1>5, <2>1, <2>3, <2>4, <2>5 DEF KeepsTheRecord
<1>10. QED
  BY <1>6, <1>7, <1>8, <1>9 DEF Preserved

LEMMA ReplacePreserves ==
  ASSUME Before, NEW c \in Caller, Replace(c)
  PROVE  Preserved'
<1>1. /\ UNCHANGED <<store, backup>> /\ made' = made /\ Stage(c) = "replacing" /\ caller[c].op = "change"
      /\ spoilt \in Nat /\ spoilt' = spoilt /\ spoilt' \in Nat /\ spoilt <= spoilt' /\ Its' = Its
      /\ stored' = stored \cup {c}
  BY StoreTyped DEF Replace, Before, Kempt, InItsPlace, Its
<1>2. PICK held \in SUBSET Caller : held = caller[c].holds
  BY StoreTyped DEF Before, Kempt
<1>3. Its.recovers /\ \A d \in Caller \ {c} : Stage(d) \in Outside \cup {"making"}
  BY <1>1, OthersAway
<1>4. primary' = Whole(held \cup {c}) /\ Legible(primary)' /\ primary'.holds = held \cup {c}
  BY <1>1, <1>2, FilesAre DEF Replace, Written, Before
<1>5. Readable = held /\ BackedUp = held
  <2>1. CASE primary = Whole(held) /\ backup = primary
    BY <1>3, <2>1, FilesAre DEF Readable, BackedUp
  <2>2. CASE Blank(c)
    BY <1>2, <2>2, FilesAre DEF Blank, Readable, BackedUp
  <2>3. QED
    BY <1>1, <1>2, <2>1, <2>2 DEF Before, Preserved, SeesTheRecord
<1>6. Stage(c)' = "answered" /\ caller'[c].op = "change" /\ caller'[c].at = "answered"
      /\ caller'[c].op = caller[c].op /\ \A d \in Caller \ {c} : caller'[d] = caller[d]
  BY <1>1, SimpleGoes DEF Goes, Stage, Before, Kempt
<1>7. SeesTheRecord(c)'
  BY <1>6 DEF SeesTheRecord
<1>8. \A d \in Caller \ {c} : ~(~Its.named /\ caller[d].op = "create" /\ Stage(d) # "answered")
  <2>1. CASE primary = Whole(held) /\ backup = primary
    <3>1. ~NoRecord
      BY <2>1, FilesAre DEF NoRecord
    <3>2. QED
      BY <3>1, NoCreation
  <2>2. CASE Blank(c)
    BY <2>2, ItsRules DEF Blank, Rules, Before, Kempt, InItsPlace
  <2>3. QED
    BY <1>1, <1>2, <2>1, <2>2 DEF Before, Preserved, SeesTheRecord
<1>9. \A d \in Caller \ {c} : SeesTheRecord(d)'
  BY <1>1, <1>3, <1>6, <1>8, AwaySee
<1>10. \A d, e \in Caller : d # e => LetsIn(d, e)'
  <2>1. "answered" \in Outside
    BY DEF Outside
  <2>2. QED
    BY <1>1, <1>6, <2>1, LetsInAgain
<1>11. KeepsTheRecord'
  <2>1. Readable' = held \cup {c} /\ BackedUp' = held
    BY <1>1, <1>4, <1>5 DEF Readable, BackedUp
  <2>2. Few(stored \ held)
    BY <1>5 DEF Before, Preserved, KeepsTheRecord
  <2>3. Few(stored \ Readable)'
    BY <1>1, <2>1, <2>2 DEF Few, One
  <2>4. spoilt' = 0 => One(stored \ BackedUp)'
    BY <1>1, <2>1, <2>2 DEF Few, One
  <2>5. Its.named => made
    <3>1. CASE primary = Whole(held)
      BY <3>1, FilesAre DEF Before, Preserved, KeepsTheRecord, NoRecord
    <3>2. CASE Blank(c)
      BY <3>2, ItsRules DEF Blank, Rules, Before, Kempt
    <3>3. QED
      BY <1>1, <1>2, <3>1, <3>2 DEF Before, Preserved, SeesTheRecord
  <2>6. QED
    BY <1>1, <1>4, <1>6, <2>3, <2>4, <2>5 DEF KeepsTheRecord
<1>12. QED
  BY <1>7, <1>9, <1>10, <1>11 DEF Preserved

LEMMA WriteFirstPreserves ==
  ASSUME Before, NEW c \in Caller, WriteFirst(c)
  PROVE  Preserved'
<1>1. /\ UNCHANGED <<store, backup>> /\ made' = made /\ Stage(c) = "writing" /\ caller[c].op = "create"
      /\ spoilt \in Nat /\ spoilt' = spoilt /\ spoilt' \in Nat /\ spoilt <= spoilt' /\ Its' = Its
  BY StoreTyped DEF WriteFirst, Before, Kempt, InItsPlace, Its
<1>2. /\ backup = Gone /\ stored = {} /\ ~Legible(backup)
      /\ \A d \in Caller : Stage(d) \notin {"restoring", "holding", "copying", "replacing"}
  BY <1>1, WritesAnew DEF NoRecord
<1>3. stored' = {c} /\ primary' = Whole({c}) /\ Legible(primary)' /\ primary'.holds = {c} /\ ~Legible(backup)'
  BY <1>1, <1>2, FilesAre DEF WriteFirst
<1>4. Stage(c)' = "answered" /\ caller'[c].op = "create" /\ caller'[c].at = "answered"
      /\ caller'[c].op = caller[c].op /\ \A d \in Caller \ {c} : caller'[d] = caller[d]
  BY <1>1, SimpleGoes DEF Goes, Stage, Before, Kempt
<1>5. SeesTheRecord(c)'
  BY <1>4 DEF SeesTheRecord
<1>6. \A d \in Caller \ {c} : SeesTheRecord(d)'
  <2>1. ASSUME NEW d \in Caller \ {c}
        PROVE  SeesTheRecord(d)'
    <3>1. SeesTheRecord(d) /\ LetsIn(c, d) /\ LetsIn(d, c) /\ Stage(d)' = Stage(d) /\ caller'[d] = caller[d]
      BY <1>4 DEF Before, Preserved, Stage
    <3>2. caller[d].before = {}
      BY <1>2 DEF Before, Kempt, InItsPlace
    <3>3. Stage(d) \notin {"restoring", "holding", "copying", "replacing", "writing"}
      BY <1>1, <1>2, <3>1 DEF LetsIn
    <3>4. ~(~Its.named /\ caller[d].op = "create")
      BY <1>1, <3>1 DEF LetsIn
    <3>5. Few(caller[d].before \ caller[d].holds)'
      BY <3>1, <3>2 DEF Few, One
    <3>6. QED
      BY <1>1, <1>3, <3>1, <3>2, <3>3, <3>4, <3>5 DEF SeesTheRecord
  <2>2. QED
    BY <2>1
<1>7. \A d, e \in Caller : d # e => LetsIn(d, e)'
  <2>1. "answered" \in Outside
    BY DEF Outside
  <2>2. QED
    BY <1>1, <1>4, <2>1, LetsInAgain
<1>8. KeepsTheRecord'
  <2>1. Readable' = {c} /\ BackedUp' = {}
    BY <1>1, <1>3 DEF Readable, BackedUp
  <2>2. Few(stored \ Readable)' /\ One(stored \ BackedUp)'
    BY <1>3, <2>1 DEF Few, One
  <2>3. Its.named => made
    BY <1>1 DEF Before, Preserved, SeesTheRecord
  <2>4. QED
    BY <1>1, <1>3, <1>4, <2>2, <2>3 DEF KeepsTheRecord
<1>9. QED
  BY <1>5, <1>6, <1>7, <1>8 DEF Preserved

LEMMA DiePreserves ==
  ASSUME Before, NEW p, Die(p)
  PROVE  Preserved'
<1>1. /\ UNCHANGED <<store, made, primary, backup, stored>> /\ Its' = Its
      /\ spoilt \in Nat /\ spoilt' \in Nat /\ spoilt <= spoilt'
  <2>1. UNCHANGED <<store, made, primary, backup, stored>> /\ Its' = Its
    BY DEF Die, Its
  <2>2. spoilt \in Nat /\ spoilt' \in {spoilt, spoilt + 1}
    BY StoreTyped, DieCounts DEF Before, Kempt
  <2>3. QED
    BY <2>1, <2>2
<1>2. \A c \in Caller : caller'[c] = caller[c] \/
        /\ caller'[c].at = "dead" /\ caller'[c].op = caller[c].op
        /\ caller'[c].holds = caller[c].holds /\ caller'[c].before = caller[c].before
        /\ Stage(c) \notin {"idle", "answered", "failed"}
  BY DieGoes DEF Before, Kempt
<1>3. \A c, d \in Caller : c # d => LetsIn(c, d)'
  <2>1. ASSUME NEW c \in Caller, NEW d \in Caller, c # d
        PROVE  LetsIn(c, d)'
    <3>1. LetsIn(c, d)
      BY <2>1 DEF Before, Preserved
    <3>2. Inside(d)' => Inside(d) /\ caller'[d] = caller[d]
      BY <1>2 DEF Inside, Outside, Stage
    <3>3. Stage(c)' \in {"holding", "writing"} => caller'[c] = caller[c]
      BY <1>2 DEF Stage
    <3>4. Stage(d)' = "writing" => Stage(d) = "writing"
      BY <1>2 DEF Stage
    <3>5. QED
      BY <1>1, <1>2, <3>1, <3>2, <3>3, <3>4 DEF LetsIn, Stage
  <2>2. QED
    BY <2>1
<1>4. \A c \in Caller : SeesTheRecord(c)'
  <2>1. ASSUME NEW c \in Caller
        PROVE  SeesTheRecord(c)'
    <3>1. SeesTheRecord(c)
      BY DEF Before, Preserved
    <3>2. (NoRecord' <=> NoRecord) /\ (Legible(primary)' <=> Legible(primary)) /\ (Legible(backup)' <=> Legible(backup))
      BY <1>1 DEF NoRecord, Legible
    <3>3. CASE caller'[c] = caller[c]
      <4>1. Few(caller[c].before \ caller[c].holds) => Few(caller[c].before \ caller[c].holds)'
        BY <1>1, <3>3 DEF Few, One
      <4>2. Stage(c)' = Stage(c) /\ (Blank(c) => Blank(c)')
        BY <1>1, <3>3 DEF Stage, Blank
      <4>3. QED
        BY <1>1, <3>1, <3>2, <3>3, <4>1, <4>2 DEF SeesTheRecord
    <3>4. CASE caller'[c].at = "dead" /\ caller'[c].op = caller[c].op /\ Stage(c) \notin {"idle", "answered", "failed"}
      BY <1>1, <3>1, <3>2, <3>4 DEF SeesTheRecord, Stage
    <3>5. QED
      BY <1>2, <3>3, <3>4
  <2>2. QED
    BY <2>1
<1>5. KeepsTheRecord'
  <2>1. KeepsTheRecord /\ Readable' = Readable /\ BackedUp' = BackedUp /\ (NoRecord' <=> NoRecord)
    BY <1>1 DEF Before, Preserved, Readable, BackedUp, Legible, NoRecord
  <2>2. Few(stored \ Readable)'
    <3>1. Few(stored \ Readable)
      BY <2>1 DEF KeepsTheRecord
    <3>2. QED
      BY <1>1, <2>1, <3>1 DEF Few, One
  <2>3. ASSUME spoilt' = 0, \A c \in Caller : Stage(c)' # "copying"
        PROVE  One(stored \ BackedUp)'
    <3>1. spoilt' = spoilt
      BY <1>1, <2>3
    <3>2. \A c \in Caller : Stage(c) # "copying"
      BY <2>3, <3>1, DieCounts DEF Before, Stage
    <3>3. One(stored \ BackedUp)
      BY <2>1, <2>3, <3>1, <3>2 DEF KeepsTheRecord
    <3>4. QED
      BY <1>1, <2>1, <3>3 DEF One
  <2>4. (\A c \in Caller : Stage(c)' = "idle") => \A c \in Caller : Stage(c) = "idle"
    BY <1>2 DEF Stage
  <2>5. spoilt' = 0 /\ ~Legible(primary)' => backup' = Gone
    BY <1>1, <2>1 DEF KeepsTheRecord, Legible
  <2>6. QED
    BY <1>1, <2>1, <2>2, <2>3, <2>4, <2>5 DEF KeepsTheRecord
<1>6. QED
  BY <1>3, <1>4, <1>5 DEF Preserved

(* A file lost: what is read next is the backup, if it was not that.              *)
LEMMA SpoilPreserves ==
  ASSUME Before, Spoil
  PROVE  Preserved'
<1>1. /\ UNCHANGED <<store, made, caller, stored>> /\ Its' = Its
      /\ spoilt \in Nat /\ spoilt' = spoilt + 1 /\ \A c \in Caller : Stage(c) \in Outside
  BY StoreTyped DEF Spoil, Before, Kempt, Inside, Its
<1>2. PICK file \in {Torn, Gone} :
        \/ Legible(primary) /\ primary' = file /\ UNCHANGED backup
        \/ Legible(backup) /\ backup' = file /\ UNCHANGED primary
  BY DEF Spoil
<1>3. ~Legible(file) /\ ~NoRecord
  BY <1>2, FilesAre DEF NoRecord
<1>4. \A c, d \in Caller : c # d => LetsIn(c, d)'
  BY <1>1 DEF Before, Preserved, LetsIn, Inside, Stage
<1>5. \A c \in Caller : SeesTheRecord(c)'
  <2>1. ASSUME NEW c \in Caller
        PROVE  SeesTheRecord(c)'
    <3>1. SeesTheRecord(c) /\ Stage(c)' = Stage(c) /\ caller'[c] = caller[c]
      BY <1>1 DEF Before, Preserved, Stage
    <3>2. ~(~Its.named /\ caller[c].op = "create" /\ Stage(c) # "answered")
      BY <1>3, NoCreation
    <3>3. Few(caller[c].before \ caller[c].holds) => Few(caller[c].before \ caller[c].holds)'
      BY <1>1 DEF Few, One
    <3>4. QED
      BY <1>1, <3>1, <3>2, <3>3 DEF SeesTheRecord, Outside
  <2>2. QED
    BY <2>1
<1>6. KeepsTheRecord'
  <2>1. KeepsTheRecord
    BY DEF Before, Preserved
  <2>2. \A c \in Caller : Stage(c) # "copying"
    BY <1>1 DEF Outside
  <2>3. ASSUME spoilt = 0
        PROVE  One(stored \ Readable')
    <3>1. stored \ Readable = {} /\ One(stored \ BackedUp)
      BY <2>1, <2>2, <2>3 DEF KeepsTheRecord, Few
    <3>2. CASE Legible(primary) /\ primary' = file /\ UNCHANGED backup
      <4>1. Readable' = BackedUp
        BY <1>1, <1>3, <3>2 DEF Readable, BackedUp, Legible
      <4>2. QED
        BY <3>1, <4>1
    <3>3. CASE Legible(backup) /\ backup' = file /\ UNCHANGED primary
      <4>1. Legible(primary)
        BY <2>1, <2>3, <3>3, FilesAre DEF KeepsTheRecord
      <4>2. Readable' = Readable
        BY <3>3, <4>1 DEF Readable, Legible
      <4>3. QED
        BY <3>1, <4>2 DEF One
    <3>4. QED
      BY <1>2, <3>2, <3>3
  <2>4. Few(stored \ Readable)'
    <3>1. CASE spoilt = 0
      BY <1>1, <2>3, <3>1 DEF Few, One
    <3>2. CASE spoilt # 0
      BY <1>1, <3>2 DEF Few
    <3>3. QED
      BY <3>1, <3>2
  <2>5. Its.named => made
    BY <1>3, <2>1 DEF KeepsTheRecord
  <2>6. (\A c \in Caller : Stage(c)' = "idle") => stored' = {} /\ backup' = Gone
    <3>1. ASSUME \A c \in Caller : Stage(c)' = "idle"
          PROVE  stored' = {} /\ backup' = Gone
      <4>1. stored = {} /\ backup = Gone
        BY <1>1, <2>1, <3>1 DEF KeepsTheRecord, Stage
      <4>2. QED
        BY <1>1, <1>2, <4>1, FilesAre
    <3>2. QED
      BY <3>1
  <2>7. spoilt' # 0
    BY <1>1
  <2>8. QED
    BY <1>1, <2>4, <2>5, <2>6, <2>7 DEF KeepsTheRecord
<1>7. QED
  BY <1>4, <1>5, <1>6 DEF Preserved

-------------------------------------------------------------------------------
LEMMA StoreInitSound ==
  ASSUME StoreInit
  PROVE  StoreInv
<1>1. /\ store \in Kept /\ primary \in {Gone, Whole({})} /\ made = (Its.named /\ Legible(primary)) /\ backup = Gone
      /\ caller = [c \in Caller |-> Fresh] /\ stored = {} /\ spoilt = 0 /\ failures = 0
  BY DEF StoreInit
<1>2. Fresh \in Doings /\ Fresh.op = "none" /\ Fresh.at = "idle" /\ Fresh.holds = {} /\ Fresh.before = {}
  BY DEF Fresh, Doings, Places
<1>3. caller \in [Caller -> Doings] /\ \A c \in Caller : caller[c] = Fresh /\ Stage(c) = "idle"
  BY <1>1, <1>2 DEF Stage
<1>4. StoreTypeOK
  <2>1. Outside \cup {"reading", "recovering", "restoring", "holding", "copying", "replacing", "making", "writing"} = Places
    BY DEF Outside, Places
  <2>2. {primary, backup} \subseteq {Torn, Gone} \cup {Whole(held) : held \in SUBSET Caller}
    BY <1>1, FilesAre DEF Files
  <2>3. failures \in 0 .. MaxFailures /\ spoilt \in 0 .. (MaxSpoilt + failures)
    BY <1>1, FaultsAssumption
  <2>4. made \in BOOLEAN
    BY <1>1
  <2>5. QED
    BY <1>1, <1>3, <2>1, <2>2, <2>3, <2>4 DEF StoreTypeOK, Doings
<1>5. \A c \in Caller : InItsPlace(c)
  BY <1>2, <1>3 DEF InItsPlace
<1>6. \A c \in Caller : ~Inside(c) /\ ~Locked(c) /\ ~Chained(c)
  BY <1>3 DEF Inside, Locked, Chained, Outside
<1>7. Kempt
  BY <1>4, <1>5, <1>6 DEF Kempt, Excludes
<1>8. Preserved
  <2>1. \A c, d \in Caller : c # d => LetsIn(c, d)
    BY <1>2, <1>3 DEF LetsIn
  <2>2. \A c \in Caller : SeesTheRecord(c)
    BY <1>2, <1>3 DEF SeesTheRecord
  <2>3. KeepsTheRecord
    <3>1. Its.named /\ ~made => NoRecord
      BY <1>1, FilesAre DEF NoRecord
    <3>2. QED
      BY <1>1, <3>1 DEF KeepsTheRecord, Few, One
  <2>4. QED
    BY <2>1, <2>2, <2>3 DEF Preserved
<1>9. QED
  BY <1>7, <1>8 DEF StoreInv

LEMMA StoreNextKempt ==
  ASSUME Kempt, [StoreNext]_storeVars
  PROVE  Kempt' /\ Its' = Its
<1>1. CASE UNCHANGED storeVars
  <2>1. UNCHANGED <<store, made, primary, backup, caller, stored, spoilt, failures>>
    BY <1>1 DEF storeVars
  <2>2. Its' = Its /\ \A c \in Caller : ServerOf(c)' = ServerOf(c)
    BY <2>1 DEF Its, ServerOf
  <2>3. StoreTypeOK'
    BY <2>1 DEF Kempt, StoreTypeOK
  <2>4. \A c \in Caller : InItsPlace(c)' /\ (Locked(c)' <=> Locked(c)) /\ (Chained(c)' <=> Chained(c))
    BY <2>1, <2>2 DEF Kempt, InItsPlace, Stage, Locked, Chained, Inside
  <2>5. QED
    BY <2>2, <2>3, <2>4 DEF Kempt, Excludes
<1>2. CASE StoreNext
  <2>1. Kempt'
    BY <1>2, StepKempt, DieKempt, SpoilKempt DEF StoreNext
  <2>2. UNCHANGED store
    <3>1. ASSUME NEW c \in Caller, StoreStep(c)
          PROVE  UNCHANGED store
      BY <3>1, StepInPlace DEF Kempt
    <3>2. QED
      BY <1>2, <3>1 DEF StoreNext, Die, Spoil
  <2>3. QED
    BY <2>1, <2>2 DEF Its
<1>3. QED
  BY <1>1, <1>2

LEMMA StoreNextKeeps ==
  ASSUME StoreInv, JobsHaveOneServer, [StoreNext]_storeVars
  PROVE  StoreInv'
<1>1. Kempt' /\ Its' = Its
  BY StoreNextKempt DEF StoreInv
<1>2. ASSUME ~Its.blind
      PROVE  Preserved'
  <2>1. Before
    BY <1>2 DEF Before, StoreInv
  <2>2. CASE UNCHANGED storeVars
    <3>1. UNCHANGED <<store, made, primary, backup, caller, stored, spoilt, failures>>
      BY <2>2 DEF storeVars
    <3>2. \A c, d \in Caller : c # d => LetsIn(c, d)'
      BY <1>1, <2>1, <3>1 DEF Before, Preserved, LetsIn, Inside, Stage
    <3>3. \A c \in Caller : SeesTheRecord(c)'
      <4>1. ASSUME NEW c \in Caller
            PROVE  SeesTheRecord(c)'
        <5>1. SeesTheRecord(c)
          BY <2>1 DEF Before, Preserved
        <5>2. (NoRecord' <=> NoRecord) /\ (Blank(c)' <=> Blank(c)) /\ (Legible(primary)' <=> Legible(primary))
              /\ (Legible(backup)' <=> Legible(backup)) /\ Stage(c)' = Stage(c)
          BY <3>1 DEF NoRecord, Blank, Legible, Stage
        <5>3. Few(caller[c].before \ caller[c].holds) => Few(caller[c].before \ caller[c].holds)'
          BY <3>1 DEF Few, One
        <5>4. QED
          BY <1>1, <3>1, <5>1, <5>2, <5>3 DEF SeesTheRecord
      <4>2. QED
        BY <4>1
    <3>4. KeepsTheRecord'
      <4>1. KeepsTheRecord /\ Readable' = Readable /\ BackedUp' = BackedUp /\ (NoRecord' <=> NoRecord)
        BY <1>1, <2>1, <3>1 DEF Before, Preserved, Readable, BackedUp, Legible, NoRecord
      <4>2. Few(stored \ Readable)'
        BY <3>1, <4>1 DEF KeepsTheRecord, Few, One
      <4>3. QED
        BY <1>1, <3>1, <4>1, <4>2 DEF KeepsTheRecord, One, Stage, Legible
    <3>5. QED
      BY <3>2, <3>3, <3>4 DEF Preserved
  <2>3. ASSUME NEW c \in Caller, StoreStep(c)
        PROVE  Preserved'
    BY <2>1, <2>3, BeginPreserves, PeekPreserves, AdmitPreserves, ReadFilePreserves, RecoverPreserves, RestorePreserves,
       FailPreserves, BackUpPreserves, CopiedPreserves, ReplacePreserves, MakeRoomPreserves, WriteFirstPreserves DEF StoreStep
  <2>4. QED
    BY <2>1, <2>2, <2>3, DiePreserves, SpoilPreserves DEF StoreNext
<1>3. QED
  BY <1>1, <1>2 DEF StoreInv

LEMMA FewIsAtMost ==
  ASSUME NEW S \in SUBSET Caller, Few(S), spoilt \in Nat, spoilt <= 1
  PROVE  Cardinality(S) <= spoilt
<1>1. One(S)
  BY DEF Few
<1>2. Cardinality(S) \in {0, 1} /\ (Cardinality(S) = 0 <=> S = {})
  BY <1>1, OneCounts
<1>3. QED
  BY <1>2 DEF Few

LEMMA InvCostsOne == StoreInv => TornCostsOne
<1>1. ASSUME StoreInv, spoilt <= 1, ~Its.blind
      PROVE  /\ Cardinality(stored \ Readable) <= spoilt
             /\ \A c \in Caller :
                  caller[c].op = "load" /\ Stage(c) \in {"answered", "failed"} =>
                    Cardinality(caller[c].before \ caller[c].holds) <= spoilt
  <2>1. Kempt /\ Preserved /\ spoilt \in Nat
    BY <1>1, StoreTyped DEF StoreInv, Kempt
  <2>2. stored \ Readable \in SUBSET Caller /\ \A c \in Caller : caller[c].before \ caller[c].holds \in SUBSET Caller
    BY <2>1, StoreTyped DEF Kempt
  <2>3. Few(stored \ Readable)
    BY <2>1 DEF Preserved, KeepsTheRecord
  <2>4. \A c \in Caller : caller[c].op = "load" /\ Stage(c) \in {"answered", "failed"} =>
                            Few(caller[c].before \ caller[c].holds)
    BY <2>1 DEF Preserved, SeesTheRecord
  <2>5. QED
    BY <1>1, <2>1, <2>2, <2>3, <2>4, FewIsAtMost
<1>2. QED
  BY <1>1 DEF TornCostsOne

(* Type correctness of a record, for any repository, calls, processes and faults.   *)
THEOREM StoreTypeCorrect == StoreSpec => []StoreTypeOK
<1>1. StoreInit => Kempt
  BY StoreInitSound DEF StoreInv
<1>2. Kempt /\ [StoreNext]_storeVars => Kempt'
  BY StoreNextKempt
<1>3. Kempt => StoreTypeOK
  BY DEF Kempt
<1>4. QED
  BY <1>1, <1>2, <1>3, PTL DEF StoreSpec

(* In every repository but that of asset analyses, and where one process has the     *)
(* jobs: whatever calls, deaths and failed writes come between, one torn or missing   *)
(* file costs the record its last change at most, and no load answers with less.      *)
THEOREM OneTornCostsOne == JobsHaveOneServer => (StoreSpec => []TornCostsOne)
<1>1. SUFFICES ASSUME JobsHaveOneServer
              PROVE  StoreSpec => []TornCostsOne
  OBVIOUS
<1>2. StoreInv /\ [StoreNext]_storeVars => StoreInv'
  BY <1>1, StoreNextKeeps
<1>3. QED
  BY <1>2, StoreInitSound, InvCostsOne, PTL DEF StoreSpec

================================================================================
