------------------------------ MODULE ExclusiveLock ------------------------------
(* lib/fs/exclusive-lock.ts: the lock every store of the application is under.  *)
(* A lock is a file that open("wx") creates, with the token of one call of      *)
(* withExclusiveFileLock and the identity of its process in it.  A call that    *)
(* finds the file there and older than staleAfterMs looks whether its owner     *)
(* still lives, and if not removes it.  Every operation on the file is a step.  *)
EXTENDS Naturals, FiniteSets

CONSTANTS
  Call,       \* calls of withExclusiveFileLock; each has a token of its own
  Process,
  Home,       \* of each call: its process
  Mortal,     \* the processes that may end
  Straggle,   \* whether a lock may be created while a call is about to remove one
  NoCall, Unwritten

ASSUME HomeAssumption == Home \in [Call -> Process]
ASSUME NoneAssumption == NoCall \notin Call /\ Unwritten \notin Call /\ NoCall # Unwritten
ASSUME StraggleAssumption == Straggle \in BOOLEAN

VARIABLES
  file,     \* the lock file: who created it, whether its record is in it, its age
  live,     \* the processes that run
  pc,       \* of each call: where it is
  seen,     \* of each call: the owner it read from the file
  tracked   \* processOwnedLocks: of each process, the call it would clean up after

vars == <<file, live, pc, seen, tracked>>

-------------------------------------------------------------------------------
NoFile == [by |-> NoCall, written |-> FALSE, old |-> FALSE]
Exists == file # NoFile

(* What parseLockRecord makes of the file. *)
Content == IF file.written THEN file.by ELSE Unwritten

OwnerAlive(c) == Home[c] \in live

Init ==
  /\ file = NoFile
  /\ live = Process
  /\ pc = [c \in Call |-> "idle"]
  /\ seen = [c \in Call |-> NoCall]
  /\ tracked = [p \in Process |-> NoCall]

At(c, place) == OwnerAlive(c) /\ pc[c] = place
Goto(c, place) == pc' = [pc EXCEPT ![c] = place]

(* seen is read only on the way from "read" to "remove". *)
Forget(c) == seen' = [seen EXCEPT ![c] = NoCall]

-------------------------------------------------------------------------------
(* Taking the lock. *)
Ask(c) ==
  /\ At(c, "idle")
  /\ Goto(c, "open")
  /\ UNCHANGED <<file, live, seen, tracked>>

(* The timing a call relies on: a lock it has seen old, or found unwritten, or  *)
(* decided to remove, is not replaced by a new one before it has removed it.    *)
NobodyActsOnOldNews ==
  \A d \in Call : pc[d] \notin {"read", "remove"} /\ seen[d] # Unwritten

Open(c) ==
  /\ At(c, "open")
  /\ \/ /\ ~Exists
        /\ Straggle \/ NobodyActsOnOldNews
        /\ file' = [by |-> c, written |-> FALSE, old |-> FALSE]
        /\ Goto(c, "write")
     \/ /\ Exists
        /\ Goto(c, "stat")
        /\ UNCHANGED file
  /\ UNCHANGED <<live, seen, tracked>>

(* A file that has been removed meanwhile is written to all the same. *)
Write(c) ==
  /\ At(c, "write")
  /\ file' = IF file.by = c THEN [file EXCEPT !.written = TRUE, !.old = FALSE] ELSE file
  /\ Goto(c, "enter")
  /\ UNCHANGED <<live, seen, tracked>>

Enter(c) ==
  /\ At(c, "enter")
  /\ tracked' = [tracked EXCEPT ![Home[c]] = c]
  /\ Goto(c, "work")
  /\ UNCHANGED <<file, live, seen>>

-------------------------------------------------------------------------------
(* Finding it taken: look at its age, its owner, the owner's process, and again *)
(* at its owner before removing it.                                             *)
Stat(c) ==
  /\ At(c, "stat")
  /\ Goto(c, IF Exists /\ file.old THEN "read" ELSE "wait")
  /\ UNCHANGED <<file, live, seen, tracked>>

Read(c) ==
  /\ At(c, "read")
  /\ \/ ~Exists /\ Goto(c, "wait") /\ UNCHANGED seen
     \/ /\ Exists
        /\ seen' = [seen EXCEPT ![c] = Content]
        /\ Goto(c, IF file.written THEN "probe" ELSE "recheck")
  /\ UNCHANGED <<file, live, tracked>>

Dead(c) == ~OwnerAlive(c)

Probe(c) ==
  /\ At(c, "probe")
  /\ \/ Dead(seen[c]) /\ Goto(c, "recheck") /\ UNCHANGED seen
     \/ ~Dead(seen[c]) /\ Goto(c, "wait") /\ Forget(c)
  /\ UNCHANGED <<file, live, tracked>>

(* "An unavailable probe is unknown, not proof that another process has died." *)
ProbeUnknown(c) ==
  /\ At(c, "probe")
  /\ Goto(c, "wait") /\ Forget(c)
  /\ UNCHANGED <<file, live, tracked>>

(* Mutants: the file is removed whoever owns it by now; one without a record    *)
(* never is.                                                                    *)
AnyOwner(c) == Exists
SameRecord(c) == Exists /\ file.written /\ Content = seen[c]

SameOwner(c) == Exists /\ Content = seen[c]

Recheck(c) ==
  /\ At(c, "recheck")
  /\ Goto(c, IF SameOwner(c) THEN "remove" ELSE "wait")
  /\ Forget(c)
  /\ UNCHANGED <<file, live, tracked>>

Remove(c) ==
  /\ At(c, "remove")
  /\ file' = NoFile
  /\ Goto(c, "wait")
  /\ UNCHANGED <<live, seen, tracked>>

Again(c) ==
  /\ At(c, "wait")
  /\ Goto(c, "open")
  /\ UNCHANGED <<file, live, seen, tracked>>

TimeOut(c) ==
  /\ At(c, "wait")
  /\ Goto(c, "done")
  /\ UNCHANGED <<file, live, seen, tracked>>

-------------------------------------------------------------------------------
(* Giving it back: the work has ended, in whatever way. *)
Leave(c) ==
  /\ At(c, "work")
  /\ Goto(c, IF Exists /\ Content = c THEN "unlink" ELSE "untrack")
  /\ UNCHANGED <<file, live, seen, tracked>>

(* The removal may fail, for good after its retries: the call throws. *)
Unlink(c) ==
  /\ At(c, "unlink")
  /\ file' \in {NoFile, file}
  /\ Goto(c, "untrack")
  /\ UNCHANGED <<live, seen, tracked>>

Untracked(c) == [tracked EXCEPT ![Home[c]] = IF @ = c THEN NoCall ELSE @]

Untrack(c) ==
  /\ At(c, "untrack")
  /\ tracked' = Untracked(c)
  /\ Goto(c, "done")
  /\ UNCHANGED <<file, live, seen>>

-------------------------------------------------------------------------------
(* A lock grows old while its owner works, or when its owner is gone; a living  *)
(* process writes its record sooner than that.                                  *)
Age ==
  /\ Exists /\ ~file.old
  /\ file.written \/ Dead(file.by)
  /\ file' = [file EXCEPT !.old = TRUE]
  /\ UNCHANGED <<live, pc, seen, tracked>>

Ended(p) ==
  /\ p \in live \cap Mortal
  /\ live' = live \ {p}
  /\ pc' = [c \in Call |-> IF Home[c] = p THEN "done" ELSE pc[c]]
  /\ seen' = [c \in Call |-> IF Home[c] = p THEN NoCall ELSE seen[c]]
  /\ tracked' = [tracked EXCEPT ![p] = NoCall]

(* process.exit runs cleanupExclusiveLocksForProcessExit; a kill does not. *)
Exit(p) ==
  /\ Ended(p)
  /\ file' = IF tracked[p] # NoCall /\ Exists /\ Content = tracked[p] THEN NoFile ELSE file

Kill(p) == Ended(p) /\ UNCHANGED file

-------------------------------------------------------------------------------
Step(c) ==
  \/ Open(c) \/ Write(c) \/ Enter(c)
  \/ Stat(c) \/ Read(c) \/ Probe(c) \/ Recheck(c) \/ Remove(c) \/ Again(c)
  \/ Leave(c) \/ Unlink(c) \/ Untrack(c)

Next ==
  \/ \E c \in Call : Ask(c) \/ Step(c) \/ ProbeUnknown(c) \/ TimeOut(c)
  \/ Age
  \/ \E p \in Process : Exit(p) \/ Kill(p)

Spec == Init /\ [][Next]_vars

(* Calls go on, time passes, and a probe that is tried again and again answers. *)
Fairness == WF_vars(Age) /\ \A c \in Call : WF_vars(Step(c)) /\ SF_vars(Probe(c))

FairSpec == Spec /\ Fairness

-------------------------------------------------------------------------------
(* Properties. *)
(* The types of the state. *)
TypeOK ==
  /\ file \in [by : Call \cup {NoCall}, written : BOOLEAN, old : BOOLEAN]
  /\ live \subseteq Process
  /\ pc \in [Call -> {"idle", "open", "write", "enter", "work", "stat", "read", "probe",
                      "recheck", "remove", "wait", "unlink", "untrack", "done"}]
  /\ seen \in [Call -> Call \cup {NoCall, Unwritten}]
  /\ tracked \in [Process -> Call \cup {NoCall}]

(* "Neither stolen from a live owner": however old the lock of a call gets      *)
(* while it works, and however many others try to recover the lock of a dead    *)
(* owner at that time, its file is there with its record in it.  And it is the  *)
(* one its process removes when it exits, whatever the calls before it have     *)
(* still to untrack (processOwnedLocks).                                        *)
LockStands ==
  \A c \in Call : pc[c] = "work" => file.by = c /\ file.written /\ tracked[Home[c]] = c

(* What LockStands is for: no two calls work under the lock at a time.          *)
Excluded == \A c, d \in Call : pc[c] = "work" /\ pc[d] = "work" => c = d

(* "Nor wedge all future contenders": while a call waits, the lock of an owner  *)
(* that is gone does not stay.                                                  *)
Contending(c) == pc[c] \in {"open", "stat", "read", "probe", "recheck", "remove", "wait"}

NotWedged ==
  \A d \in Call :
    file.by = d /\ Dead(d) ~> file.by # d \/ \A c \in Call : ~Contending(c)
===============================================================================
