---------------------------- MODULE OwnershipProofs ----------------------------
(* Proofs about the two protocols by which processes own something: the lock of *)
(* ExclusiveLock, for any calls, processes and placement of the calls on them,  *)
(* and whichever processes may end; and the runtime of RuntimeOwner, for any    *)
(* number of launchers, of workers started and of times the record is damaged,  *)
(* and any start times of the workers.                                          *)
EXTENDS ExclusiveLock, RuntimeOwner, TLAPS

-------------------------------------------------------------------------------
(* The inductive invariant. *)
(* A call that is on its way is one of a process that runs. *)
Gone == \A c \in Call : ~OwnerAlive(c) => pc[c] = "done"

(* A lock file was created by somebody. *)
Named == Exists => file.by \in Call

(* From the open that created the file to its removal, the file is the call's;  *)
(* and once written its record is in it.                                        *)
Held ==
  \A c \in Call :
    /\ pc[c] \in {"write", "enter", "work", "unlink"} => file.by = c
    /\ pc[c] \in {"enter", "work", "unlink"} => file.written

(* The lock a process would clean up after is one of its own calls, and that of *)
(* the call that works.                                                         *)
Tracked ==
  /\ \A p \in Process : tracked[p] # NoCall => Home[tracked[p]] = p
  /\ \A c \in Call : pc[c] = "work" => tracked[Home[c]] = c

(* Nobody's lock: there is no file, or its owner is gone. *)
Abandoned == Exists => Dead(file.by)

(* How a call on its way to remove the lock comes to know that it is abandoned: *)
(* only an abandoned lock is old without a record, an owner that was probed and *)
(* found dead stays so, and nobody creates a lock meanwhile.                    *)
OldIsAbandoned == file.old /\ ~file.written => Abandoned

Knows(d) ==
  /\ pc[d] = "read" /\ ~file.written => Abandoned
  /\ pc[d] = "probe" => seen[d] \in Call
  /\ seen[d] = Unwritten => Abandoned
  /\ pc[d] = "recheck" => seen[d] = Unwritten \/ (seen[d] \in Call /\ Dead(seen[d]))
  /\ pc[d] = "remove" => Abandoned

LockInv ==
  /\ TypeOK
  /\ Gone /\ Named /\ Held /\ Tracked /\ OldIsAbandoned
  /\ \A d \in Call : Knows(d)
-------------------------------------------------------------------------------
LEMMA InitLockInv == Init => LockInv
BY HomeAssumption, NoneAssumption
   DEF Init, LockInv, TypeOK, Gone, Named, Held, Tracked, OldIsAbandoned, Abandoned, Knows, OwnerAlive, NoFile, Exists

(* Type correctness, with stragglers too. *)
LEMMA StepTypeOK == TypeOK /\ [Next]_vars => TypeOK'
<1> SUFFICES ASSUME TypeOK, [Next]_vars PROVE TypeOK'
  OBVIOUS
<1> USE HomeAssumption DEF TypeOK, Goto, Forget, NoFile
<1>1. ASSUME NEW c \in Call, Ask(c) \/ Enter(c) \/ Stat(c) \/ Again(c) \/ TimeOut(c) \/ Leave(c) PROVE TypeOK'
  BY <1>1 DEF Ask, Enter, Stat, Again, TimeOut, Leave
<1>2. ASSUME NEW c \in Call, Open(c) \/ Write(c) PROVE TypeOK'
  <2>1. [by |-> c, written |-> FALSE, old |-> FALSE] \in [by : Call \cup {NoCall}, written : BOOLEAN, old : BOOLEAN]
    OBVIOUS
  <2>2. [file EXCEPT !.written = TRUE, !.old = FALSE] \in [by : Call \cup {NoCall}, written : BOOLEAN, old : BOOLEAN]
    OBVIOUS
  <2>3. QED
    BY <1>2, <2>1, <2>2 DEF Open, Write
<1>3. ASSUME NEW c \in Call, Read(c) \/ Probe(c) \/ ProbeUnknown(c) \/ Recheck(c) PROVE TypeOK'
  BY <1>3 DEF Read, Probe, ProbeUnknown, Recheck, Content
<1>4. NoFile \in [by : Call \cup {NoCall}, written : BOOLEAN, old : BOOLEAN]
  OBVIOUS
<1>5. ASSUME NEW c \in Call, Remove(c) \/ Unlink(c) PROVE TypeOK'
  BY <1>4, <1>5 DEF Remove, Unlink
<1>6. ASSUME NEW c \in Call, Untrack(c) PROVE TypeOK'
  BY <1>6 DEF Untrack, Untracked
<1>7. CASE Age
  BY <1>7 DEF Age
<1>8. ASSUME NEW p \in Process, Exit(p) \/ Kill(p) PROVE TypeOK'
  <2>1. file' \in [by : Call \cup {NoCall}, written : BOOLEAN, old : BOOLEAN]
    BY <1>4, <1>8 DEF Exit, Kill
  <2>2. QED
    BY <1>8, <2>1 DEF Exit, Kill, Ended
<1>9. CASE UNCHANGED vars
  BY <1>9 DEF vars
<1>10. QED
  BY <1>1, <1>2, <1>3, <1>5, <1>6, <1>7, <1>8, <1>9 DEF Next, Step

(* The types of the state, whatever the timing of the calls. *)
THEOREM TypeCorrect == Spec => []TypeOK
<1>1. Init => TypeOK
  BY InitLockInv DEF LockInv
<1>2. QED
  BY <1>1, StepTypeOK, PTL DEF Spec

-------------------------------------------------------------------------------
(* Steps of a call, of time and of the processes keep the invariant, as long as *)
(* no lock is created while another call acts on what it knows of the last one. *)
LEMMA TakingKeeps ==
  ASSUME LockInv, TypeOK', ~Straggle, NEW c \in Call,
         Ask(c) \/ Open(c) \/ Write(c) \/ Enter(c)
  PROVE  LockInv'
<1> USE HomeAssumption, NoneAssumption
    DEF LockInv, TypeOK, Gone, Named, Held, Tracked, OldIsAbandoned, Abandoned, Knows,
        At, Goto, OwnerAlive, Dead, Exists, NoFile
<1>1. CASE Ask(c)
  BY <1>1 DEF Ask
<1>2. CASE Open(c)
  BY <1>2 DEF Open, NobodyActsOnOldNews
<1>3. CASE Write(c)
  BY <1>3 DEF Write
<1>4. CASE Enter(c)
  BY <1>4 DEF Enter
<1>5. QED
  BY <1>1, <1>2, <1>3, <1>4

LEMMA RecoveringKeeps ==
  ASSUME LockInv, TypeOK', NEW c \in Call,
         \/ Stat(c) \/ Read(c) \/ Probe(c) \/ ProbeUnknown(c)
         \/ Recheck(c) \/ Remove(c) \/ Again(c) \/ TimeOut(c)
  PROVE  LockInv'
<1> USE HomeAssumption, NoneAssumption
    DEF LockInv, TypeOK, Gone, Named, Held, Tracked, OldIsAbandoned, Abandoned, Knows,
        At, Goto, Forget, OwnerAlive, Dead, Exists, NoFile
<1>1. CASE Stat(c)
  BY <1>1 DEF Stat
<1>2. CASE Read(c)
  BY <1>2 DEF Read, Content
<1>3. CASE Probe(c) \/ ProbeUnknown(c)
  BY <1>3 DEF Probe, ProbeUnknown
<1>4. CASE Recheck(c)
  BY <1>4 DEF Recheck, SameOwner, Content
<1>5. CASE Remove(c)
  BY <1>5 DEF Remove
<1>6. CASE Again(c) \/ TimeOut(c)
  BY <1>6 DEF Again, TimeOut
<1>7. QED
  BY <1>1, <1>2, <1>3, <1>4, <1>5, <1>6

LEMMA GivingBackKeeps ==
  ASSUME LockInv, TypeOK', NEW c \in Call, Leave(c) \/ Unlink(c) \/ Untrack(c)
  PROVE  LockInv'
<1> USE HomeAssumption, NoneAssumption
    DEF LockInv, TypeOK, Gone, Named, Held, Tracked, OldIsAbandoned, Abandoned, Knows,
        At, Goto, OwnerAlive, Dead, Exists, NoFile
<1>1. CASE Leave(c)
  BY <1>1 DEF Leave, Content
<1>2. CASE Unlink(c)
  BY <1>2 DEF Unlink
<1>3. CASE Untrack(c)
  BY <1>3 DEF Untrack, Untracked
<1>4. QED
  BY <1>1, <1>2, <1>3

LEMMA AgeingKeeps ==
  ASSUME LockInv, TypeOK', Age
  PROVE  LockInv'
BY HomeAssumption, NoneAssumption
   DEF Age, LockInv, TypeOK, Gone, Named, Held, Tracked, OldIsAbandoned, Abandoned, Knows, OwnerAlive, Dead, Exists, NoFile

(* The exit of a process removes a lock only if it is one of its own calls'. *)
LEMMA EndingKeeps ==
  ASSUME LockInv, TypeOK', NEW p \in Process, Exit(p) \/ Kill(p)
  PROVE  LockInv'
<1> USE HomeAssumption, NoneAssumption
    DEF LockInv, TypeOK, Gone, Named, Held, Tracked, OldIsAbandoned, Abandoned, Knows,
        OwnerAlive, Dead, Exists, NoFile, Ended
<1>1. Ended(p)
  BY DEF Exit, Kill
<1>2. file' = file \/ (file' = NoFile /\ Home[file.by] = p /\ file.by \in Call)
  BY DEF Exit, Kill, Content
<1>3. Gone' /\ Tracked'
  BY <1>1
<1>4. Held' /\ Named'
  BY <1>1, <1>2
<1>5. (Abandoned => Abandoned') /\ OldIsAbandoned'
  BY <1>1, <1>2
<1>6. ASSUME NEW d \in Call PROVE Knows(d)'
  BY <1>1, <1>2, <1>5
<1>7. QED
  BY <1>3, <1>4, <1>5, <1>6

LEMMA StepKeeps ==
  ASSUME ~Straggle
  PROVE  LockInv /\ [Next]_vars => LockInv'
<1> SUFFICES ASSUME LockInv, [Next]_vars PROVE LockInv'
  OBVIOUS
<1>1. TypeOK'
  BY StepTypeOK DEF LockInv
<1>2. CASE UNCHANGED vars
  BY <1>1, <1>2 DEF vars, LockInv, Gone, Named, Held, Tracked, OldIsAbandoned, Abandoned, Knows, OwnerAlive, Dead, Exists
<1>3. CASE Next
  BY <1>1, <1>3, TakingKeeps, RecoveringKeeps, GivingBackKeeps, AgeingKeeps, EndingKeeps DEF Next, Step
<1>4. QED
  BY <1>2, <1>3

(* If no lock is created while another call acts on what it knows of the lock   *)
(* before, then however old the lock of a call gets while it works, and however *)
(* many others recover the locks of dead owners at that time, its file stands   *)
(* with its record in it, and is the one its process would remove at its exit.  *)
THEOREM LockIsKept == ASSUME ~Straggle PROVE Spec => []LockStands
<1>1. LockInv => LockStands
  BY DEF LockInv, Held, Tracked, LockStands
<1>2. QED
  BY <1>1, InitLockInv, StepKeeps, PTL DEF Spec

(* So no two calls ever work under the lock at a time, of one process or of     *)
(* several.                                                                     *)
THEOREM MutualExclusion == ASSUME ~Straggle PROVE Spec => []Excluded
<1>1. LockStands => Excluded
  BY DEF LockStands, Excluded
<1>2. QED
  BY <1>1, LockIsKept, PTL

-------------------------------------------------------------------------------
(* The inductive invariant. *)
Runtime == [runtimeId : Int, epoch : Nat, by : Launchers \cup {NoLauncher}]
Waiter == [by : Launchers, born : Nat, nr : Nat]
Claimer == [at : {"idle", "reading", "restoring", "preserving", "copying", "replacing"},
            by : Launchers \cup {NoLauncher}, born : Nat, nr : Nat, owner : Runtime, isNew : BOOLEAN]

Typed ==
  /\ primary \in Runtime /\ spare \in Runtime
  /\ launcher \in [Launchers -> {"unborn", "alive", "dead"}]
  /\ waiting \subseteq Waiter
  /\ claim \in Claimer
  /\ serving \subseteq [by : Launchers, runtimeId : Int]
  /\ declared \in Seq(Nat)
  /\ started \in Nat /\ spoils \in Nat /\ lost \in BOOLEAN

Claiming == claim.at # "idle"
Decided == claim.at \in {"preserving", "copying", "replacing"}

(* Whoever is recorded, claims or serves has a launcher that was started. *)
Known(p) == p \in Launchers /\ launcher[p] # "unborn"

AllKnown ==
  /\ Readable(primary) => Known(primary.by)
  /\ Readable(spare) => Known(spare.by)
  /\ Claiming => Known(claim.by)
  /\ \A w \in waiting : Known(w.by)
  /\ \A s \in serving : Known(s.by)

(* A claim that restores the record found the backup and holds the lock; one    *)
(* that has decided names its own launcher.                                     *)
OwnerKnown ==
  /\ claim.at = "restoring" => ~Readable(primary) /\ claim.owner = spare /\ Readable(spare)
  /\ Decided => claim.owner.by = claim.by

(* With no launchers that overlap, a worker that still claims is one of the     *)
(* launcher that lives, if any does.                                            *)
NoneOverlap ==
  \A p \in Launchers : launcher[p] = "alive" =>
    /\ \A q \in Launchers : launcher[q] = "alive" => q = p
    /\ \A w \in waiting : w.by = p
    /\ Claiming => claim.by = p

(* The name that a new runtime would get is nobody's yet. *)
Unused(nr) == primary.runtimeId # nr /\ spare.runtimeId # nr

NamesAreNew ==
  /\ claim.at = "idle" => claim = Idle
  /\ primary.runtimeId <= started /\ spare.runtimeId <= started
  /\ Claiming => claim.nr \in 1..started /\ Unused(claim.nr)
  /\ \A w \in waiting :
       /\ w.nr \in 1..started /\ Unused(w.nr)
       /\ Claiming => w.nr # claim.nr
       /\ Decided => w.nr # claim.owner.runtimeId
  /\ Decided => claim.owner.runtimeId <= started
  /\ \A v, w \in waiting : v.nr = w.nr => v = w

(* The runtime on record: what the next claim would find. *)
Found == IF Readable(primary) THEN primary ELSE IF Readable(spare) THEN spare ELSE Absent

(* Unless the record was damaged beyond repair, it is the last one declared, and *)
(* the runtime of every worker that serves under a living launcher.             *)
FoundIsLast ==
  /\ Readable(Found) <=> declared # << >>
  /\ Readable(Found) => Found.epoch = declared[Len(declared)]
  /\ \A i, j \in DOMAIN declared : i < j => declared[i] < declared[j]

FoundServes ==
  \A s \in serving : Alive(s.by) => Readable(Found) /\ Found.by = s.by /\ Found.runtimeId = s.runtimeId

(* The backup is of the same claim as the record, or of another runtime. *)
Twins == Readable(primary) /\ spare.runtimeId = primary.runtimeId => spare = primary

(* A copy is made only of a record that is there, and what a claim has decided   *)
(* is still right when it writes it.                                            *)
ClaimStands ==
  /\ claim.at = "preserving" => Readable(primary) \/ ~Readable(spare)
  /\ claim.at = "copying" => ~Readable(spare)
  /\ Decided /\ ~claim.isNew => claim.owner = Found /\ Readable(Found)
  /\ Decided /\ claim.isNew =>
       /\ claim.owner.runtimeId = claim.nr
       /\ Readable(Found) => Found.epoch < claim.owner.epoch /\ ~Alive(Found.by)

OwnerInv ==
  /\ Typed /\ AllKnown /\ OwnerKnown /\ NoneOverlap /\ NamesAreNew
  /\ ~lost => FoundIsLast /\ FoundServes /\ Twins /\ ClaimStands

-------------------------------------------------------------------------------
Sound == FoundIsLast /\ FoundServes /\ Twins /\ ClaimStands

LEMMA InitOwnerInv == OwnerInit => OwnerInv
<1> SUFFICES ASSUME OwnerInit PROVE OwnerInv
  OBVIOUS
<1>1. Typed
  <2>1. Absent \in Runtime
    BY DEF Runtime, Absent
  <2>2. Idle \in Claimer
    BY <2>1 DEF Claimer, Idle
  <2>3. primary \in Runtime /\ spare \in Runtime /\ claim \in Claimer
    BY <2>1, <2>2 DEF OwnerInit
  <2>4. launcher \in [Launchers -> {"unborn", "alive", "dead"}]
    BY DEF OwnerInit
  <2>5. << >> \in Seq(Nat)
    OBVIOUS
  <2>6. QED
    BY <2>3, <2>4, <2>5 DEF Typed, OwnerInit
<1> USE DEF OwnerInit, Absent, Idle, Readable
<1>2. AllKnown /\ OwnerKnown /\ NoneOverlap /\ NamesAreNew
  BY DEF AllKnown, OwnerKnown, NoneOverlap, NamesAreNew, Claiming, Decided
<1>3. FoundIsLast /\ FoundServes /\ Twins /\ ClaimStands
  BY DEF FoundIsLast, FoundServes, Twins, ClaimStands, Found, Decided
<1>4. QED
  BY <1>1, <1>2, <1>3 DEF OwnerInv

(* Steps of the launchers and of workers that wait. *)
LEMMA LauncherKeeps ==
  ASSUME OwnerInv, ~Overlap, NEW p \in Launchers, LauncherStarts(p) \/ LauncherDies(p)
  PROVE  OwnerInv'
<1> USE DEF OwnerInv
<1>1. /\ UNCHANGED <<primary, spare, waiting, claim, serving, declared, started, spoils, lost>>
      /\ \/ launcher[p] = "unborn" /\ launcher' = [launcher EXCEPT ![p] = "alive"]
            /\ (\A q \in Launchers : launcher[q] # "alive") /\ waiting = {} /\ claim = Idle
         \/ launcher[p] = "alive" /\ launcher' = [launcher EXCEPT ![p] = "dead"]
  BY LauncherAssumption DEF LauncherStarts, LauncherDies, Alive
<1>2. Typed'
  BY <1>1 DEF Typed
<1>3. AllKnown' /\ OwnerKnown'
  <2>1. \A q : Known(q) => Known(q)'
    BY <1>1 DEF Typed, Known
  <2>2. QED
    BY <1>1, <2>1 DEF AllKnown, OwnerKnown, Readable, Claiming, Decided
<1>4. NoneOverlap'
  BY <1>1 DEF Typed, NoneOverlap, Claiming, Idle
<1>5. NamesAreNew'
  BY <1>1 DEF NamesAreNew, Claiming, Decided, Unused
<1>6. ASSUME ~lost PROVE Sound'
  <2>1. Found' = Found /\ FoundIsLast' /\ Twins'
    BY <1>1, <1>6 DEF Found, Readable, FoundIsLast, Twins
  <2>2. ASSUME NEW q \in Launchers, Alive(q)' PROVE Alive(q) \/ (q = p /\ launcher[p] = "unborn" /\ claim = Idle)
    BY <1>1, <2>2 DEF Alive, Typed
  <2>3. FoundServes'
    <3> SUFFICES ASSUME NEW s \in serving, Alive(s.by)'
                 PROVE  Readable(Found) /\ Found.by = s.by /\ Found.runtimeId = s.runtimeId
      BY <1>1, <2>1 DEF FoundServes, Readable
    <3>1. s.by \in Launchers /\ launcher[s.by] # "unborn"
      BY DEF AllKnown, Known
    <3>2. Alive(s.by)
      BY <2>2, <3>1
    <3>3. QED
      BY <1>6, <3>2 DEF FoundServes
  <2>4. ClaimStands'
    <3>1. Decided' => Decided /\ claim # Idle
      BY <1>1 DEF Decided, Idle
    <3>2. Decided' /\ Readable(Found) => ~Alive(Found.by)' \/ Alive(Found.by)
      <4>1. Readable(Found) => Found.by \in Launchers
        BY DEF Found, AllKnown, Known, Absent, Readable
      <4>2. QED
        BY <2>1, <2>2, <3>1, <4>1
    <3>3. ClaimStands /\ claim' = claim /\ primary' = primary /\ spare' = spare
      BY <1>1, <1>6
    <3>4. Readable(Found)' <=> Readable(Found)
      BY <2>1 DEF Readable
    <3>5. Decided' <=> Decided
      BY <1>1 DEF Decided
    <3>6. (claim.at = "preserving" => Readable(primary) \/ ~Readable(spare))' /\ (claim.at = "copying" => ~Readable(spare))'
      BY <3>3 DEF ClaimStands, Readable
    <3>7. (Decided /\ ~claim.isNew => claim.owner = Found /\ Readable(Found))'
      BY <2>1, <3>3, <3>4, <3>5 DEF ClaimStands
    <3>8. QED
      BY <2>1, <3>2, <3>3, <3>4, <3>5, <3>6, <3>7 DEF ClaimStands
  <2>5. QED
    BY <2>1, <2>3, <2>4 DEF Sound
<1>7. QED
  BY <1>1, <1>2, <1>3, <1>4, <1>5, <1>6 DEF Sound

LEMMA WaitingKeeps ==
  ASSUME OwnerInv,
         \/ \E p \in Launchers, born \in 1..LatestStart : ClaimRuntimeOwner(p, born)
         \/ \E w \in waiting : WaitingWorkerDies(w)
  PROVE  OwnerInv'
<1> USE DEF OwnerInv
<1>1. UNCHANGED <<primary, spare, launcher, claim, serving, declared, spoils, lost>>
  BY DEF ClaimRuntimeOwner, WaitingWorkerDies
<1>2. \/ waiting' \subseteq waiting /\ started' = started
      \/ \E p \in Launchers, born \in Nat :
           /\ launcher[p] = "alive" /\ started' = started + 1
           /\ waiting' = waiting \cup {[by |-> p, born |-> born, nr |-> started + 1]}
  BY OwnerBoundAssumption DEF ClaimRuntimeOwner, WaitingWorkerDies, Alive
<1>3. Typed'
  BY <1>1, <1>2 DEF Typed, Waiter
<1>4. AllKnown' /\ OwnerKnown'
  BY <1>1, <1>2 DEF AllKnown, OwnerKnown, Known, Readable, Claiming, Decided
<1>5. NoneOverlap'
  BY <1>1, <1>2 DEF NoneOverlap, Claiming
<1>6. NamesAreNew'
  <2>1. CASE waiting' \subseteq waiting /\ started' = started
    BY <1>1, <2>1 DEF NamesAreNew, Claiming, Decided, Unused
  <2>2. ASSUME NEW p \in Launchers, NEW born \in Nat, started' = started + 1,
               waiting' = waiting \cup {[by |-> p, born |-> born, nr |-> started + 1]}
        PROVE  NamesAreNew'
    <3>1. started \in Nat /\ primary.runtimeId \in Int /\ spare.runtimeId \in Int /\ claim.owner.runtimeId \in Int /\ claim.nr \in Nat
      BY DEF Typed, Runtime, Claimer
    <3>2. \A w \in waiting : w.nr \in Nat /\ w.nr # started + 1
      BY <3>1 DEF NamesAreNew, Typed, Waiter
    <3>3. \A w \in waiting' : w \in waiting \/ w = [by |-> p, born |-> born, nr |-> started + 1]
      BY <2>2
    <3>4. /\ primary' = primary /\ spare' = spare /\ claim' = claim
          /\ (Claiming' <=> Claiming) /\ (Decided' <=> Decided)
      BY <1>1 DEF Claiming, Decided
    <3>5. primary.runtimeId # started + 1 /\ spare.runtimeId # started + 1
      BY <3>1 DEF NamesAreNew
    <3>6. ASSUME NEW w \in waiting'
          PROVE  /\ w.nr \in 1..(started + 1) /\ Unused(w.nr)'
                 /\ Claiming => w.nr # claim.nr
                 /\ Decided => w.nr # claim.owner.runtimeId
      <4>1. CASE w \in waiting
        BY <3>1, <3>4, <4>1 DEF NamesAreNew, Unused
      <4>2. CASE w.nr = started + 1
        BY <3>1, <3>4, <3>5, <4>2 DEF NamesAreNew, Unused
      <4>3. QED
        BY <3>3, <4>1, <4>2
    <3>7. \A v, w \in waiting' : v.nr = w.nr => v = w
      BY <3>2, <3>3 DEF NamesAreNew
    <3>8. QED
      BY <2>2, <3>1, <3>4, <3>6, <3>7 DEF NamesAreNew, Unused
  <2>3. QED
    BY <1>2, <2>1, <2>2
<1>7. ~lost => Sound'
  BY <1>1 DEF Sound, FoundIsLast, FoundServes, Twins, ClaimStands, Found, Readable, Alive, Decided
<1>8. QED
  BY <1>1, <1>3, <1>4, <1>5, <1>6, <1>7 DEF Sound

-------------------------------------------------------------------------------
(* The record is damaged: either its backup is what the next claim finds, or the *)
(* damage is beyond repair.                                                     *)
LEMMA SpoilKeeps ==
  ASSUME OwnerInv, NEW what \in {Absent, Damaged}, Spoil(what)
  PROVE  OwnerInv'
<1> USE DEF OwnerInv
<1>1. /\ UNCHANGED <<spare, launcher, waiting, claim, serving, declared, started>>
      /\ primary' = what /\ spoils' = spoils + 1 /\ Readable(primary)
      /\ lost' = (lost \/ ~Readable(spare) \/ spare.runtimeId # primary.runtimeId \/ claim.at = "preserving")
  BY DEF Spoil
<1>2. what \in Runtime /\ ~Readable(what) /\ what.runtimeId <= 0
  BY DEF Absent, Damaged, Runtime, Readable
<1>3. Typed'
  <2>1. lost' \in BOOLEAN
    BY <1>1 DEF Typed
  <2>2. QED
    BY <1>1, <1>2, <2>1 DEF Typed
<1>4. AllKnown' /\ OwnerKnown'
  BY <1>1, <1>2 DEF AllKnown, OwnerKnown, Known, Readable, Claiming, Decided
<1>5. NoneOverlap'
  BY <1>1 DEF NoneOverlap, Claiming
<1>6. NamesAreNew'
  <2>1. \A w \in waiting : w.nr \in 1..started
    BY DEF NamesAreNew
  <2>2. Claiming => claim.nr \in 1..started
    BY DEF NamesAreNew
  <2>3. started \in Nat /\ what.runtimeId \in Int
    BY <1>2 DEF Typed, Runtime
  <2>4. \A nr \in 1..started : what.runtimeId # nr
    BY <1>2, <2>3
  <2>5. what.runtimeId <= started
    BY <1>2, <2>3
  <2>6. QED
    BY <1>1, <2>1, <2>2, <2>4, <2>5 DEF NamesAreNew, Claiming, Decided, Unused
<1>7. ASSUME ~lost' PROVE Sound'
  <2>1. ~lost /\ Readable(spare) /\ spare.runtimeId = primary.runtimeId /\ claim.at # "preserving"
    BY <1>1, <1>7
  <2>2. spare = primary
    BY <1>1, <2>1 DEF Twins
  <2>3. Found = primary /\ Found' = spare /\ Found' = Found
    BY <1>1, <1>2, <2>1, <2>2 DEF Found, Readable
  <2>4. FoundIsLast' /\ FoundServes'
    BY <1>1, <2>1, <2>3 DEF FoundIsLast, FoundServes, Readable, Alive
  <2>5. Twins'
    BY <1>1, <1>2 DEF Twins, Readable
  <2>6. ClaimStands'
    BY <1>1, <2>1, <2>3 DEF ClaimStands, Readable, Alive, Decided
  <2>7. QED
    BY <2>4, <2>5, <2>6 DEF Sound
<1>8. QED
  BY <1>3, <1>4, <1>5, <1>6, <1>7 DEF Sound

-------------------------------------------------------------------------------
(* Steps of a claim. *)
LEMMA GrantedKeeps ==
  ASSUME OwnerInv, NEW w \in waiting, Granted(w)
  PROVE  OwnerInv'
<1> USE DEF OwnerInv
<1> DEFINE new == [Idle EXCEPT !.at = "reading", !.by = w.by, !.born = w.born, !.nr = w.nr]
<1>1. /\ UNCHANGED <<primary, spare, launcher, serving, declared, started, spoils, lost>>
      /\ waiting' = waiting \ {w} /\ claim' = new
  BY DEF Granted
<1>2. w \in Waiter
  BY DEF Typed
<1>3. new \in Claimer /\ new.at = "reading" /\ new.by = w.by /\ new.nr = w.nr
  <2>1. Absent \in Runtime
    BY DEF Runtime, Absent
  <2>2. QED
    BY <1>2, <2>1 DEF Idle, Claimer, Waiter
<1> HIDE DEF new
<1>4. Typed'
  BY <1>1, <1>3 DEF Typed
<1>5. AllKnown' /\ OwnerKnown'
  BY <1>1, <1>3 DEF AllKnown, OwnerKnown, Known, Readable, Claiming, Decided
<1>6. NoneOverlap'
  BY <1>1, <1>3 DEF NoneOverlap, Claiming
<1>7. NamesAreNew'
  <2>1. claim'.at = "reading"
    BY <1>1, <1>3
  <2>2. QED
    BY <1>1, <1>3, <2>1 DEF NamesAreNew, Claiming, Decided, Unused
<1>8. ASSUME ~lost PROVE Sound'
  <2>1. FoundIsLast' /\ FoundServes' /\ Twins'
    BY <1>1, <1>8 DEF FoundIsLast, FoundServes, Twins, Found, Readable, Alive
  <2>2. ClaimStands'
    BY <1>1, <1>3 DEF ClaimStands, Decided
  <2>3. QED
    BY <2>1, <2>2 DEF Sound
<1>9. QED
  BY <1>1, <1>4, <1>5, <1>6, <1>7, <1>8 DEF Sound

LEMMA ClaimingDiesKeeps ==
  ASSUME OwnerInv, ClaimingWorkerDies
  PROVE  OwnerInv'
<1> USE DEF OwnerInv
<1>1. UNCHANGED <<primary, spare, launcher, waiting, serving, declared, started, spoils, lost>> /\ claim' = Idle
  BY DEF ClaimingWorkerDies
<1>2. Idle \in Claimer /\ Idle.at = "idle"
  <2>1. Absent \in Runtime
    BY DEF Runtime, Absent
  <2>2. QED
    BY <2>1 DEF Idle, Claimer
<1>3. claim'.at = "idle"
  BY <1>1, <1>2
<1>4. Typed'
  BY <1>1, <1>2 DEF Typed
<1>5. AllKnown' /\ OwnerKnown' /\ NoneOverlap'
  BY <1>1, <1>3 DEF AllKnown, OwnerKnown, NoneOverlap, Known, Readable, Claiming, Decided
<1>6. NamesAreNew'
  BY <1>1, <1>3 DEF NamesAreNew, Claiming, Decided, Unused
<1>7. ~lost => Sound'
  BY <1>1, <1>3 DEF Sound, FoundIsLast, FoundServes, Twins, ClaimStands, Found, Readable, Alive, Decided
<1>8. QED
  BY <1>1, <1>4, <1>5, <1>6, <1>7 DEF Sound

(* What a claim decides about the record it found. *)
LEMMA DecideMakes ==
  ASSUME OwnerInv, Claiming, NEW previous \in Runtime, Decide(previous),
         Readable(previous) => Known(previous.by),
         Readable(previous) \/ previous = Absent,
         previous.runtimeId <= started, \A w \in waiting : w.nr # previous.runtimeId
  PROVE  /\ claim' \in Claimer
         /\ claim'.at = "preserving" /\ claim'.by = claim.by /\ claim'.nr = claim.nr
         /\ claim'.owner.by = claim.by
         /\ claim'.owner.runtimeId \in {previous.runtimeId, claim.nr}
         /\ ~claim'.isNew => claim'.owner = previous /\ Readable(previous)
         /\ claim'.isNew => /\ claim'.owner.runtimeId = claim.nr
                            /\ Readable(previous) => previous.epoch < claim'.owner.epoch /\ ~Alive(previous.by)
<1>1. claim \in Claimer /\ claim.by \in Launchers /\ claim.nr \in Nat /\ claim.born \in Nat
  BY DEF OwnerInv, Typed, Claimer, AllKnown, Known
<1>2. claim' = [claim EXCEPT !.at = "preserving", !.owner = NewOwner(previous), !.isNew = ~SameRuntime(previous)]
  BY DEF Decide
<1>3. NewOwner(previous) \in Runtime /\ NewOwner(previous).by = claim.by
  BY <1>1 DEF NewOwner, Runtime, NextRuntimeEpoch
<1>4. NewOwner(previous).runtimeId \in {previous.runtimeId, claim.nr}
  BY <1>1 DEF NewOwner, Runtime
<1>5. /\ claim' \in Claimer /\ claim'.at = "preserving" /\ claim'.by = claim.by /\ claim'.nr = claim.nr
      /\ claim'.owner = NewOwner(previous) /\ claim'.isNew = ~SameRuntime(previous)
  <2>1. (~SameRuntime(previous)) \in BOOLEAN
    BY DEF SameRuntime
  <2>2. QED
    BY <1>1, <1>2, <1>3, <2>1 DEF Claimer
<1>6. CASE SameRuntime(previous)
  <2>1. Readable(previous) /\ previous.by = claim.by
    BY <1>6 DEF SameRuntime, OwnerInv, NoneOverlap, Known, Alive
  <2>2. NewOwner(previous) = previous
    BY <1>6, <2>1 DEF NewOwner, Runtime
  <2>3. QED
    BY <1>3, <1>4, <1>5, <1>6, <2>1, <2>2
<1>7. CASE ~SameRuntime(previous)
  <2>1. NewOwner(previous) = [runtimeId |-> claim.nr, epoch |-> NextRuntimeEpoch(previous), by |-> claim.by]
    BY <1>7 DEF NewOwner
  <2>2. Readable(previous) => previous.epoch < NextRuntimeEpoch(previous) /\ ~Alive(previous.by)
    BY <1>1, <1>7 DEF NextRuntimeEpoch, SameRuntime, Runtime
  <2>3. claim'.owner.runtimeId = claim.nr /\ claim'.owner.epoch = NextRuntimeEpoch(previous)
    BY <1>5, <2>1
  <2>4. claim'.isNew
    BY <1>5, <1>7, Zenon
  <2>5. QED
    BY <1>3, <1>4, <1>5, <2>2, <2>3, <2>4
<1>8. QED
  BY <1>6, <1>7

(* A claim that has just decided about what it found. *)
LEMMA DecidingKeeps ==
  ASSUME OwnerInv, Claiming, NEW previous \in Runtime, Decide(previous), previous = Found,
         UNCHANGED <<spare, launcher, waiting, serving, declared, started, spoils, lost>>,
         primary' \in Runtime, Readable(primary)' \/ ~Readable(spare),
         primary' = previous \/ (primary' = primary /\ previous = Absent)
  PROVE  OwnerInv'
<1> USE DEF OwnerInv
<1>1. Readable(previous) => previous \in {primary, spare} /\ Known(previous.by)
  BY DEF Found, AllKnown, Absent, Readable
<1>2. Readable(previous) \/ previous = Absent
  BY DEF Found
<1>3. Absent.runtimeId = 0 /\ ~Readable(Absent)
  BY DEF Absent, Readable
<1>4. started \in Nat /\ primary.runtimeId \in Int /\ spare.runtimeId \in Int
  BY DEF Typed, Runtime
<1>5. previous.runtimeId <= started
  BY <1>1, <1>2, <1>3, <1>4 DEF NamesAreNew
<1>6. \A w \in waiting : w.nr # previous.runtimeId
  BY <1>1, <1>2, <1>3, <1>4 DEF NamesAreNew, Unused
<1>7. claim.nr # previous.runtimeId /\ claim.nr \in 1..started
  BY <1>1, <1>2, <1>3, <1>4 DEF NamesAreNew, Unused
<1>8. /\ claim' \in Claimer
      /\ claim'.at = "preserving" /\ claim'.by = claim.by /\ claim'.nr = claim.nr
      /\ claim'.owner.by = claim.by
      /\ claim'.owner.runtimeId \in {previous.runtimeId, claim.nr}
      /\ ~claim'.isNew => claim'.owner = previous /\ Readable(previous)
      /\ claim'.isNew => /\ claim'.owner.runtimeId = claim.nr
                         /\ Readable(previous) => previous.epoch < claim'.owner.epoch /\ ~Alive(previous.by)
  BY <1>1, <1>2, <1>5, <1>6, DecideMakes
<1>9. Found' = Found
  BY <1>2, <1>3 DEF Found, Readable
<1>10. Typed'
  BY <1>8 DEF Typed
<1>11. AllKnown' /\ OwnerKnown' /\ NoneOverlap'
  <2>1. Readable(primary)' => Known(primary.by)'
    BY <1>1, <1>3 DEF AllKnown, Known, Readable
  <2>2. QED
    BY <1>8, <2>1 DEF AllKnown, OwnerKnown, NoneOverlap, Known, Readable, Claiming, Decided
<1>12. NamesAreNew'
  <2>1. Unused(claim.nr)' /\ \A w \in waiting : Unused(w.nr)'
    BY <1>6, <1>7, <1>8 DEF NamesAreNew, Unused
  <2>2. primary'.runtimeId <= started
    BY <1>5 DEF NamesAreNew
  <2>3. claim'.owner.runtimeId <= started
    BY <1>4, <1>5, <1>7, <1>8
  <2>4. \A w \in waiting : w.nr # claim'.owner.runtimeId
    BY <1>6, <1>8 DEF NamesAreNew
  <2>5. QED
    BY <1>7, <1>8, <2>1, <2>2, <2>3, <2>4 DEF NamesAreNew, Claiming, Decided
<1>13. ASSUME ~lost PROVE Sound'
  <2>1. FoundIsLast' /\ FoundServes'
    BY <1>9, <1>13 DEF FoundIsLast, FoundServes, Readable, Alive
  <2>2. Twins'
    BY <1>1, <1>3, <1>13 DEF Twins, Found, Readable
  <2>3. ClaimStands'
    BY <1>8, <1>9 DEF ClaimStands, Readable, Alive, Decided
  <2>4. QED
    BY <2>1, <2>2, <2>3 DEF Sound
<1>14. QED
  BY <1>10, <1>11, <1>12, <1>13 DEF Sound

LEMMA ReadKeeps ==
  ASSUME OwnerInv, ReadOwnerForClaim
  PROVE  OwnerInv'
<1> USE DEF OwnerInv
<1>1. claim.at = "reading" /\ Claiming /\ UNCHANGED <<primary, launcher, waiting, serving, declared, started, spoils, lost>>
  BY DEF ReadOwnerForClaim, Claiming
<1>2. Absent \in Runtime /\ ~Readable(Absent)
  BY DEF Runtime, Absent, Readable
<1>3. primary \in Runtime /\ spare \in Runtime
  BY DEF Typed
<1>4. CASE Readable(primary)
  <2>1. Decide(primary) /\ spare' = spare /\ primary = Found
    BY <1>4 DEF ReadOwnerForClaim, Found
  <2>2. QED
    BY <1>1, <1>3, <1>4, <2>1, DecidingKeeps DEF Readable
<1>5. CASE ~Readable(primary) /\ ~Readable(spare)
  <2>1. Decide(Absent) /\ spare' = spare /\ Absent = Found
    BY <1>5 DEF ReadOwnerForClaim, Found
  <2>2. QED
    BY <1>1, <1>2, <1>3, <1>5, <2>1, DecidingKeeps
<1>6. CASE ~Readable(primary) /\ Readable(spare)
  <2>1. spare' = spare /\ claim' = [claim EXCEPT !.at = "restoring", !.owner = spare]
    BY <1>6 DEF ReadOwnerForClaim, SpareOnRestore
  <2>2. claim' \in Claimer /\ claim'.at = "restoring" /\ claim'.owner = spare /\ claim'.by = claim.by /\ claim'.nr = claim.nr
    BY <1>3, <2>1 DEF Typed, Claimer
  <2>3. Typed'
    BY <1>1, <2>1, <2>2 DEF Typed
  <2>4. AllKnown' /\ OwnerKnown' /\ NoneOverlap'
    BY <1>1, <1>6, <2>1, <2>2 DEF AllKnown, OwnerKnown, NoneOverlap, Known, Readable, Claiming, Decided
  <2>5. NamesAreNew'
    BY <1>1, <2>1, <2>2 DEF NamesAreNew, Claiming, Decided, Unused
  <2>6. ~lost => Sound'
    BY <1>1, <2>1, <2>2 DEF Sound, FoundIsLast, FoundServes, Twins, ClaimStands, Found, Readable, Alive, Decided
  <2>7. QED
    BY <1>1, <2>3, <2>4, <2>5, <2>6 DEF Sound
<1>7. QED
  BY <1>4, <1>5, <1>6

LEMMA RestoreKeeps ==
  ASSUME OwnerInv, Restore
  PROVE  OwnerInv'
<1>1. /\ claim.at = "restoring" /\ Claiming /\ primary' = claim.owner /\ Decide(claim.owner)
      /\ UNCHANGED <<spare, launcher, waiting, serving, declared, started, spoils, lost>>
  BY DEF Restore, Claiming
<1>2. claim.owner = Found /\ claim.owner \in Runtime /\ Readable(claim.owner)
  BY <1>1 DEF OwnerInv, OwnerKnown, Typed, Found
<1>3. QED
  BY <1>1, <1>2, DecidingKeeps DEF Readable

(* The copy is made in place, of a record that is there. *)
LEMMA PreserveKeeps ==
  ASSUME OwnerInv, Preserve
  PROVE  OwnerInv'
<1> USE DEF OwnerInv
<1>1. /\ claim.at = "preserving"
      /\ UNCHANGED <<primary, launcher, waiting, serving, declared, started, spoils, lost>>
      /\ \/ spare' = spare /\ claim' = [claim EXCEPT !.at = "replacing"] /\ primary = Absent
         \/ spare' = Damaged /\ claim' = [claim EXCEPT !.at = "copying"]
  BY DEF Preserve
<1>2. Damaged \in Runtime /\ ~Readable(Damaged) /\ Damaged.runtimeId = -1 /\ ~Readable(Absent)
  BY DEF Damaged, Absent, Runtime, Readable
<1>3. /\ claim' \in Claimer /\ claim'.at \in {"copying", "replacing"}
      /\ claim'.by = claim.by /\ claim'.nr = claim.nr /\ claim'.owner = claim.owner
      /\ claim'.isNew <=> claim.isNew
      /\ claim'.at = "copying" => spare' = Damaged
  BY <1>1 DEF Typed, Claimer
<1>4. spare' \in Runtime /\ spare' \in {spare, Damaged}
  BY <1>1, <1>2 DEF Typed
<1>5. Typed'
  BY <1>1, <1>3, <1>4 DEF Typed
<1>6. Claiming /\ Decided /\ Claiming' /\ Decided' /\ claim'.at # "restoring" /\ claim'.at # "preserving"
  BY <1>1, <1>3 DEF Claiming, Decided
<1>7. AllKnown' /\ OwnerKnown' /\ NoneOverlap'
  BY <1>1, <1>2, <1>3, <1>4, <1>6 DEF AllKnown, OwnerKnown, NoneOverlap, Known, Readable
<1>8. NamesAreNew'
  <2>1. started \in Nat
    BY DEF Typed
  <2>2. \A nr \in 1..started : Unused(nr) => Unused(nr)'
    BY <1>1, <1>2, <1>4, <2>1 DEF Unused
  <2>3. spare'.runtimeId <= started
    BY <1>2, <1>4, <2>1 DEF NamesAreNew
  <2>4. QED
    BY <1>1, <1>3, <1>6, <2>2, <2>3 DEF NamesAreNew
<1>9. ASSUME ~lost PROVE Sound'
  <2>1. Found' = Found
    BY <1>1, <1>2, <1>4, <1>9 DEF Found, ClaimStands, Readable
  <2>2. FoundIsLast' /\ FoundServes'
    BY <1>1, <1>9, <2>1 DEF FoundIsLast, FoundServes, Readable, Alive
  <2>3. Twins'
    BY <1>1, <1>2, <1>4, <1>9 DEF Twins, Readable
  <2>4. ClaimStands'
    BY <1>1, <1>2, <1>3, <1>6, <1>9, <2>1 DEF ClaimStands, Readable, Alive
  <2>5. QED
    BY <2>2, <2>3, <2>4 DEF Sound
<1>10. QED
  BY <1>1, <1>5, <1>7, <1>8, <1>9 DEF Sound

LEMMA PreservedKeeps ==
  ASSUME OwnerInv, Preserved
  PROVE  OwnerInv'
<1> USE DEF OwnerInv
<1>1. /\ claim.at = "copying"
      /\ UNCHANGED <<primary, launcher, waiting, serving, declared, started, spoils, lost>>
      /\ spare' = primary /\ claim' = [claim EXCEPT !.at = "replacing"]
  BY DEF Preserved
<1>2. /\ claim' \in Claimer /\ claim'.at = "replacing"
      /\ claim'.by = claim.by /\ claim'.nr = claim.nr /\ claim'.owner = claim.owner
      /\ claim'.isNew <=> claim.isNew
  BY <1>1 DEF Typed, Claimer
<1>3. Typed'
  BY <1>1, <1>2 DEF Typed
<1>4. Claiming /\ Decided /\ Claiming' /\ Decided'
  BY <1>1, <1>2 DEF Claiming, Decided
<1>5. AllKnown' /\ OwnerKnown' /\ NoneOverlap'
  BY <1>1, <1>2, <1>4 DEF AllKnown, OwnerKnown, NoneOverlap, Known, Readable
<1>6. NamesAreNew'
  BY <1>1, <1>2, <1>4 DEF NamesAreNew, Unused
<1>7. ASSUME ~lost PROVE Sound'
  <2>1. Found' = Found
    <3>1. CASE Readable(primary)
      BY <1>1, <3>1 DEF Found, Readable
    <3>2. CASE ~Readable(primary)
      <4>1. ~Readable(spare)
        BY <1>1, <1>7 DEF ClaimStands
      <4>2. QED
        BY <1>1, <3>2, <4>1 DEF Found, Readable
    <3>3. QED
      BY <3>1, <3>2
  <2>2. FoundIsLast' /\ FoundServes'
    BY <1>1, <1>7, <2>1 DEF FoundIsLast, FoundServes, Readable, Alive
  <2>3. Twins'
    BY <1>1 DEF Twins
  <2>4. ClaimStands'
    BY <1>1, <1>2, <1>4, <1>7, <2>1 DEF ClaimStands, Readable, Alive
  <2>5. QED
    BY <2>2, <2>3, <2>4 DEF Sound
<1>8. QED
  BY <1>1, <1>3, <1>5, <1>6, <1>7 DEF Sound

(* The claim is written.  A runtime that is declared anew comes after all before, *)
(* and no living launcher's worker serves under one of them.                     *)
LEMMA ClaimedKeeps ==
  ASSUME OwnerInv, Claimed
  PROVE  OwnerInv'
<1> USE DEF OwnerInv
<1> DEFINE o == claim.owner
           new == [by |-> claim.by, runtimeId |-> o.runtimeId]
<1>1. /\ claim.at = "replacing" /\ Claiming /\ Decided
      /\ UNCHANGED <<spare, launcher, waiting, started, spoils, lost>>
      /\ primary' = o /\ serving' = serving \cup {new} /\ claim' = Idle
      /\ declared' = IF claim.isNew THEN Append(declared, o.epoch) ELSE declared
  BY DEF Claimed, Claiming, Decided
<1>2. /\ o \in Runtime /\ o.by = claim.by /\ Known(claim.by) /\ claim.by \in Launchers
      /\ o.epoch \in Nat /\ o.runtimeId \in Int
  BY <1>1 DEF Typed, Claimer, OwnerKnown, AllKnown, Known, Runtime
<1>3. Idle \in Claimer /\ claim'.at = "idle" /\ claim' = Idle
  <2>1. Absent \in Runtime
    BY DEF Runtime, Absent
  <2>2. QED
    BY <1>1, <2>1 DEF Idle, Claimer
<1>4. ~Claiming' /\ ~Decided' /\ claim'.at \notin {"restoring", "preserving", "copying"}
  BY <1>3 DEF Claiming, Decided
<1>5. Typed'
  <2>1. declared' \in Seq(Nat)
    BY <1>1, <1>2 DEF Typed
  <2>2. new \in [by : Launchers, runtimeId : Int]
    BY <1>2
  <2>3. QED
    BY <1>1, <1>2, <1>3, <2>1, <2>2 DEF Typed
<1>6. AllKnown' /\ OwnerKnown' /\ NoneOverlap'
  <2>1. \A s \in serving' : s \in serving \/ s.by = claim.by
    BY <1>1
  <2>2. QED
    BY <1>1, <1>2, <1>4, <2>1 DEF AllKnown, OwnerKnown, NoneOverlap, Known, Readable
<1>7. NamesAreNew'
  BY <1>1, <1>3, <1>4 DEF NamesAreNew, Unused
<1>8. ASSUME ~lost PROVE Sound'
  <2>1. claim.isNew \/ (o = Found /\ Readable(Found))
    BY <1>1, <1>8 DEF ClaimStands
  <2>2. Readable(o)
    BY <1>1, <1>8, <2>1 DEF ClaimStands, NamesAreNew, Readable
  <2>3. Found' = o
    BY <1>1, <2>2 DEF Found, Readable
  <2>4. ClaimStands'
    BY <1>4 DEF ClaimStands
  <2>5. CASE ~claim.isNew
    <3>1. o = Found /\ Found' = Found /\ declared' = declared
      BY <1>1, <2>1, <2>3, <2>5
    <3>2. FoundIsLast'
      BY <1>8, <3>1 DEF FoundIsLast, Readable
    <3>3. FoundServes'
      <4>1. \A s \in serving' : s \in serving \/ (s.by = o.by /\ s.runtimeId = o.runtimeId)
        BY <1>1, <1>2
      <4>2. QED
        BY <1>1, <1>8, <2>2, <3>1, <4>1 DEF FoundServes, Alive, Readable
    <3>4. Twins'
      BY <1>1, <1>8, <3>1 DEF Twins, Found, Readable, Absent
    <3>5. QED
      BY <2>4, <3>2, <3>3, <3>4 DEF Sound
  <2>6. CASE claim.isNew
    <3>1. /\ o.runtimeId = claim.nr
          /\ Readable(Found) => Found.epoch < o.epoch /\ ~Alive(Found.by)
      BY <1>1, <1>8, <2>6 DEF ClaimStands
    <3>2. declared' = Append(declared, o.epoch)
      BY <1>1, <2>6
    <3>3. FoundIsLast'
      <4>1. declared \in Seq(Nat) /\ Len(declared) \in Nat
        BY DEF Typed
      <4>2. Len(declared') = Len(declared) + 1 /\ declared'[Len(declared')] = o.epoch /\ declared' # << >>
        BY <1>2, <3>2, <4>1
      <4>3. \A i \in DOMAIN declared : declared[i] < o.epoch
        <5> SUFFICES ASSUME NEW i \in DOMAIN declared PROVE declared[i] < o.epoch
          OBVIOUS
        <5>1. declared # << >> /\ i \in 1..Len(declared) /\ Len(declared) \in DOMAIN declared
          BY <4>1
        <5>2. declared[i] \in Nat /\ declared[Len(declared)] \in Nat
          BY <4>1, <5>1
        <5>3. i = Len(declared) \/ declared[i] < declared[Len(declared)]
          BY <1>8, <4>1, <5>1 DEF FoundIsLast
        <5>4. declared[Len(declared)] < o.epoch
          BY <1>8, <3>1, <5>1 DEF FoundIsLast
        <5>5. QED
          BY <1>2, <5>2, <5>3, <5>4
      <4>4. ASSUME NEW i \in DOMAIN declared', NEW j \in DOMAIN declared', i < j
            PROVE  declared'[i] < declared'[j]
        <5>1. i \in DOMAIN declared /\ declared'[i] = declared[i]
          BY <1>2, <3>2, <4>1, <4>4
        <5>2. CASE j = Len(declared')
          BY <4>2, <4>3, <5>1, <5>2
        <5>3. CASE j # Len(declared')
          <6>1. j \in DOMAIN declared /\ declared'[j] = declared[j]
            BY <1>2, <3>2, <4>1, <5>3
          <6>2. QED
            BY <1>8, <4>4, <5>1, <6>1 DEF FoundIsLast
        <5>4. QED
          BY <5>2, <5>3
      <4>5. QED
        BY <2>2, <2>3, <4>2, <4>4 DEF FoundIsLast, Readable
    <3>4. FoundServes'
      <4>1. \A s \in serving' : s \in serving \/ (s.by = o.by /\ s.runtimeId = o.runtimeId)
        BY <1>1, <1>2
      <4>2. \A s \in serving : ~Alive(s.by)
        BY <1>8, <3>1 DEF FoundServes
      <4>3. QED
        BY <1>1, <2>2, <2>3, <4>1, <4>2 DEF FoundServes, Alive, Readable
    <3>5. Twins'
      BY <1>1, <3>1 DEF Twins, NamesAreNew, Unused
    <3>6. QED
      BY <2>4, <3>3, <3>4, <3>5 DEF Sound
  <2>7. QED
    BY <2>5, <2>6
<1>9. QED
  BY <1>1, <1>5, <1>6, <1>7, <1>8 DEF Sound

-------------------------------------------------------------------------------
LEMMA OwnerStepKeeps ==
  ASSUME ~Overlap
  PROVE  OwnerInv /\ [OwnerNext]_ownerVars => OwnerInv'
<1> SUFFICES ASSUME OwnerInv, [OwnerNext]_ownerVars PROVE OwnerInv'
  OBVIOUS
<1>1. CASE UNCHANGED ownerVars
  BY <1>1 DEF ownerVars, OwnerInv, Typed, AllKnown, OwnerKnown, NoneOverlap, NamesAreNew, FoundIsLast,
              FoundServes, Twins, ClaimStands, Found, Known, Unused, Claiming, Decided, Readable, Alive
<1>2. CASE \E p \in Launchers : LauncherStarts(p) \/ LauncherDies(p)
  BY <1>2, LauncherKeeps
<1>3. CASE \/ \E p \in Launchers, born \in 1..LatestStart : ClaimRuntimeOwner(p, born)
           \/ \E w \in waiting : WaitingWorkerDies(w)
  BY <1>3, WaitingKeeps
<1>4. CASE \E w \in waiting : Granted(w)
  BY <1>4, GrantedKeeps
<1>5. CASE \E what \in {Absent, Damaged} : Spoil(what)
  BY <1>5, SpoilKeeps
<1>6. CASE ReadOwnerForClaim \/ Restore \/ Preserve \/ Preserved \/ Claimed \/ ClaimingWorkerDies
  BY <1>6, ReadKeeps, RestoreKeeps, PreserveKeeps, PreservedKeeps, ClaimedKeeps, ClaimingDiesKeeps
<1>7. QED
  BY <1>1, <1>2, <1>3, <1>4, <1>5, <1>6 DEF OwnerNext

(* As long as launchers do not overlap: until the record and its backup are both *)
(* lost, the workers of the living launcher belong to one runtime, whatever dies *)
(* between two steps of a claim and whatever is damaged, and a runtime declared   *)
(* later has the greater epoch, whatever its start time.                         *)
THEOREM OneRuntimeInOrder == ASSUME ~Overlap PROVE OwnerSpec => []RuntimesInOrder
<1>1. OwnerInv => RuntimesInOrder
  BY DEF OwnerInv, FoundServes, FoundIsLast, RuntimesInOrder
<1>2. QED
  BY <1>1, InitOwnerInv, OwnerStepKeeps, PTL DEF OwnerSpec
================================================================================
