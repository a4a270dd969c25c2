----------------------------- MODULE RuntimeOwner ------------------------------
(* Which runtime the server's workers belong to.  A launcher (the parent        *)
(* process) starts workers one after the other; each of them claims the runtime *)
(* recorded in .runtime-owner.json, under the file's lock, before it looks at   *)
(* the jobs.  A worker that declares a runtime of its own takes every job that  *)
(* runs for one of a former server and records it "interrupted"                 *)
(* (jobs/runtime.ts, initialize), and workflows are recovered the same way.     *)
(* So two workers of one server that do not agree on the runtime interrupt      *)
(* each other's work.                                                           *)
(*                                                                              *)
(* The lock is that of module ExclusiveLock: one claim at a time, and the claim *)
(* of a worker that died is taken over.                                         *)
EXTENDS Integers, Sequences

CONSTANTS
  Launchers,     \* parent processes, each living once
  NoLauncher,    \* nobody
  MaxWorkers,    \* workers started
  MaxSpoils,     \* times the record is found damaged or gone
  LatestStart,   \* start times of workers are 1..LatestStart, in any order
  Overlap        \* TRUE: a launcher may start while another one, or a worker
                 \* of another one, is still there

ASSUME LauncherAssumption == NoLauncher \notin Launchers
ASSUME OwnerBoundAssumption == {MaxWorkers, MaxSpoils, LatestStart} \subseteq Nat
ASSUME OverlapAssumption == Overlap \in BOOLEAN

VARIABLES
  primary,       \* .runtime-owner.json
  spare,         \* .runtime-owner.backup.json
  launcher,      \* Launchers -> "unborn", "alive", "dead"
  waiting,       \* workers that asked for the lock: [by, born, nr]
  claim,         \* the claim that holds the lock
  serving,       \* what finished claims returned: [by, runtimeId]
  declared,      \* epochs of the runtimes recorded as new, in order
  started, spoils,
  lost           \* the record was damaged while the backup did not name its
                 \* runtime, or was about to be overwritten

ownerVars == <<primary, spare, launcher, waiting, claim, serving, declared,
               started, spoils, lost>>

Absent == [runtimeId |-> 0, epoch |-> 0, by |-> NoLauncher]
Damaged == [runtimeId |-> -1, epoch |-> 0, by |-> NoLauncher]
Readable(file) == file.runtimeId > 0
Idle == [at |-> "idle", by |-> NoLauncher, born |-> 0, nr |-> 0,
         owner |-> Absent, isNew |-> FALSE]

OwnerInit ==
  /\ primary = Absent /\ spare = Absent
  /\ launcher = [p \in Launchers |-> "unborn"]
  /\ waiting = {} /\ claim = Idle /\ serving = {} /\ declared = << >>
  /\ started = 0 /\ spoils = 0 /\ lost = FALSE

OwnerRecord == [runtimeId : -1 .. MaxWorkers, epoch : 0 .. (LatestStart + MaxWorkers),
                by : Launchers \cup {NoLauncher}]

OwnerTypeOK ==
  /\ {primary, spare} \subseteq OwnerRecord
  /\ launcher \in [Launchers -> {"unborn", "alive", "dead"}]
  /\ waiting \subseteq [by : Launchers, born : 1 .. LatestStart, nr : 1 .. MaxWorkers]
  /\ claim.at \in {"idle", "reading", "restoring", "preserving", "copying",
                   "replacing"}
  /\ serving \subseteq [by : Launchers, runtimeId : 1 .. MaxWorkers]
  /\ declared \in Seq(1 .. (LatestStart + MaxWorkers))
  /\ started \in 0 .. MaxWorkers /\ spoils \in 0 .. MaxSpoils
  /\ lost \in BOOLEAN

Alive(p) == p # NoLauncher /\ launcher[p] = "alive"

-------------------------------------------------------------------------------
(* Processes                                                                    *)

LauncherStarts(p) ==
  /\ launcher[p] = "unborn"
  /\ Overlap \/ ( /\ \A q \in Launchers : ~Alive(q)
                  /\ waiting = {} /\ claim = Idle )
  /\ launcher' = [launcher EXCEPT ![p] = "alive"]
  /\ UNCHANGED <<primary, spare, waiting, claim, serving, declared, started,
                 spoils, lost>>

(* Its workers may outlive it.                                                  *)
LauncherDies(p) ==
  /\ Alive(p)
  /\ launcher' = [launcher EXCEPT ![p] = "dead"]
  /\ UNCHANGED <<primary, spare, waiting, claim, serving, declared, started,
                 spoils, lost>>

(* A worker's runtime initialises: it names its parent and asks for the lock.   *)
ClaimRuntimeOwner(p, born) ==
  /\ Alive(p) /\ started < MaxWorkers
  /\ waiting' = waiting \cup {[by |-> p, born |-> born, nr |-> started + 1]}
  /\ started' = started + 1
  /\ UNCHANGED <<primary, spare, launcher, claim, serving, declared, spoils, lost>>

WaitingWorkerDies(w) ==
  /\ waiting' = waiting \ {w}
  /\ UNCHANGED <<primary, spare, launcher, claim, serving, declared, started,
                 spoils, lost>>

(* The worker that holds the lock dies: its lock is found stale.  A copy it was *)
(* making stays half made, a replacement it had not made leaves the file alone. *)
ClaimingWorkerDies ==
  /\ claim.at # "idle"
  /\ claim' = Idle
  /\ UNCHANGED <<primary, spare, launcher, waiting, serving, declared, started,
                 spoils, lost>>

(* The record is damaged, or removed, from outside.  A claim that read it before *)
(* and has not copied it yet copies the damage over the backup.                 *)
Spoil(what) ==
  /\ spoils < MaxSpoils /\ Readable(primary)
  /\ lost' = (lost \/ ~Readable(spare) \/ spare.runtimeId # primary.runtimeId
                   \/ claim.at = "preserving")
  /\ primary' = what
  /\ spoils' = spoils + 1
  /\ UNCHANGED <<spare, launcher, waiting, claim, serving, declared, started>>

-------------------------------------------------------------------------------
(* A claim, step by step                                                        *)

Granted(w) ==
  /\ claim = Idle
  /\ waiting' = waiting \ {w}
  /\ claim' = [Idle EXCEPT !.at = "reading", !.by = w.by, !.born = w.born,
                         !.nr = w.nr]
  /\ UNCHANGED <<primary, spare, launcher, serving, declared, started, spoils,
                 lost>>

SameRuntime(previous) ==
  Readable(previous) /\ (previous.by = claim.by \/ Alive(previous.by))

NextRuntimeEpoch(previous) ==
  IF Readable(previous) /\ previous.epoch >= claim.born THEN previous.epoch + 1
  ELSE claim.born

(* A runtime id is random; here it is the number of the worker that made it.    *)
NewOwner(previous) ==
  IF SameRuntime(previous) THEN [previous EXCEPT !.by = claim.by]
  ELSE [runtimeId |-> claim.nr, epoch |-> NextRuntimeEpoch(previous), by |-> claim.by]

Decide(previous) ==
  claim' = [claim EXCEPT !.at = "preserving", !.owner = NewOwner(previous),
                         !.isNew = ~SameRuntime(previous)]

(* A record that cannot be read is replaced by the backup, and the record that  *)
(* cannot be read is not preserved.                                             *)
SpareOnRestorePreserved == IF primary = Absent THEN spare ELSE primary
SpareOnRestore == spare

ReadOwnerForClaim ==
  /\ claim.at = "reading"
  /\ IF Readable(primary) THEN Decide(primary) /\ UNCHANGED spare
     ELSE IF Readable(spare)
          THEN /\ claim' = [claim EXCEPT !.at = "restoring", !.owner = spare]
               /\ spare' = SpareOnRestore
          ELSE Decide(Absent) /\ UNCHANGED spare
  /\ UNCHANGED <<primary, launcher, waiting, serving, declared, started, spoils,
                 lost>>

Restore ==
  /\ claim.at = "restoring"
  /\ primary' = claim.owner
  /\ Decide(claim.owner)
  /\ UNCHANGED <<spare, launcher, waiting, serving, declared, started, spoils,
                 lost>>

(* The record is copied over the backup in place: the backup is no record       *)
(* while that lasts.  A record that is absent is not copied.                    *)
Preserve ==
  /\ claim.at = "preserving"
  /\ IF primary = Absent
     THEN claim' = [claim EXCEPT !.at = "replacing"] /\ UNCHANGED spare
     ELSE claim' = [claim EXCEPT !.at = "copying"] /\ spare' = Damaged
  /\ UNCHANGED <<primary, launcher, waiting, serving, declared, started, spoils,
                 lost>>

Preserved ==
  /\ claim.at = "copying"
  /\ spare' = primary
  /\ claim' = [claim EXCEPT !.at = "replacing"]
  /\ UNCHANGED <<primary, launcher, waiting, serving, declared, started, spoils,
                 lost>>

Claimed ==
  /\ claim.at = "replacing"
  /\ primary' = claim.owner
  /\ declared' = IF claim.isNew THEN Append(declared, claim.owner.epoch) ELSE declared
  /\ serving' = serving \cup {[by |-> claim.by, runtimeId |-> claim.owner.runtimeId]}
  /\ claim' = Idle
  /\ UNCHANGED <<spare, launcher, waiting, started, spoils, lost>>

OwnerNext ==
  \/ \E p \in Launchers :
       \/ LauncherStarts(p)
       \/ LauncherDies(p)
       \/ \E born \in 1 .. LatestStart : ClaimRuntimeOwner(p, born)
  \/ \E w \in waiting : Granted(w) \/ WaitingWorkerDies(w)
  \/ \E what \in {Absent, Damaged} : Spoil(what)
  \/ ReadOwnerForClaim \/ Restore \/ Preserve \/ Preserved \/ Claimed
  \/ ClaimingWorkerDies

OwnerSpec == OwnerInit /\ [][OwnerNext]_ownerVars

-------------------------------------------------------------------------------
(* As long as the record or its backup names the runtime, whatever damage and   *)
(* whatever death of a worker between two steps: workers of living launchers    *)
(* belong to one runtime, so none of them takes another's running jobs for      *)
(* those of a former server; and a later runtime's epoch is greater, which is   *)
(* what jobs and workflows compare their start times with.                      *)
RuntimesInOrder ==
  lost \/ ( /\ \A s, t \in serving :
                 Alive(s.by) /\ Alive(t.by) => s.runtimeId = t.runtimeId
            /\ \A i, j \in DOMAIN declared : i < j => declared[i] < declared[j] )
===============================================================================
