------------------------------ MODULE RecordStore ------------------------------
(* How the server keeps the records of its jobs, workflows, missions, plans,      *)
(* executions, campaigns, QA reports, edit protections, asset analyses and agent  *)
(* sessions: one JSON file per record, its last version beside it as a backup,    *)
(* both written by calls of several processes that die, and both at the mercy of  *)
(* what a full disk or a power cut leaves of a file.                              *)
(*                                                                                *)
(* A record is the set of the calls whose change it holds. Every repository takes *)
(* the same steps under guards of its own: a Repository says which. A behaviour   *)
(* is about one record of one of them. The lock is what ExclusiveLock is about    *)
(* and is sound here; a call that waits in a chain or for a lock is a call that   *)
(* has not entered.                                                               *)
EXTENDS Naturals, FiniteSets

CONSTANTS
  Caller,         \* the calls on the record
  ProcessOf,      \* the process each of them runs in
  Kept,           \* the repositories looked at
  OneServer,      \* those of them that a single process uses: that of FirstServer
  FirstServer,
  MaxSpoilt,      \* files that faults leave torn or missing
  MaxFailures     \* processes that die and writes that fail

ASSUME CallersAssumption == IsFiniteSet(Caller)
ASSUME FaultsAssumption == {MaxSpoilt, MaxFailures} \subseteq Nat

VARIABLES
  store,          \* the repository of this behaviour
  made,           \* the record's directory is there, where it has one
  primary, backup,
  caller,         \* per call: what it does, how far it is, what it holds
  stored,         \* the calls whose change was written
  spoilt, failures

storeVars == <<store, made, primary, backup, caller, stored, spoilt, failures>>

--------------------------------------------------------------------------------
(* The repositories. peeks: a load first reads the file under no guard. locks:    *)
(* the operations under the record's lock. named: the record's name is the        *)
(* caller's, so that it may be created twice. split: a change is a read and a     *)
(* later write of the chain of its process. bare: what a creation writes it       *)
(* writes under no lock. blind: a change reads nothing. recovers: the backup      *)
(* stands in for the file.                                                        *)
JobStore == [peeks |-> FALSE, locks |-> {"create", "change"}, named |-> TRUE, split |-> TRUE,
             bare |-> FALSE, blind |-> FALSE, recovers |-> TRUE,
             offers |-> {"create", "change", "load"}]
WorkflowStore == [JobStore EXCEPT !.locks = {"create", "change", "load"}, !.bare = TRUE]
SessionStore == [WorkflowStore EXCEPT !.named = FALSE, !.split = FALSE, !.bare = FALSE]
ExecutionStore == SessionStore
MissionStore == [SessionStore EXCEPT !.peeks = TRUE]
CampaignStore == MissionStore
ProtectionStore == [SessionStore EXCEPT !.offers = {"change", "load"}]
AnalysisStore == [MissionStore EXCEPT !.blind = TRUE, !.offers = {"change", "load"}]
ReportStore == [MissionStore EXCEPT !.locks = {"create"}, !.recovers = FALSE,
                                    !.offers = {"create", "load"}]
PlanStore == ReportStore

Repository == [job |-> JobStore, workflow |-> WorkflowStore, session |-> SessionStore,
               execution |-> ExecutionStore, mission |-> MissionStore,
               campaign |-> CampaignStore, protection |-> ProtectionStore,
               analysis |-> AnalysisStore, report |-> ReportStore, plan |-> PlanStore]
Its == Repository[store]
ASSUME RepositoriesAssumption == Kept \subseteq DOMAIN Repository

Whole(held) == [state |-> "whole", holds |-> held]
Torn == [state |-> "torn", holds |-> {}]
Gone == [state |-> "gone", holds |-> {}]
Legible(file) == file.state = "whole"

Fresh == [op |-> "none", at |-> "idle", holds |-> {}, before |-> {}]

--------------------------------------------------------------------------------
Stage(c) == caller[c].at
ServerOf(c) == IF store \in OneServer THEN FirstServer ELSE ProcessOf[c]
Outside == {"idle", "entering", "peeking", "answered", "failed", "dead"}
Inside(c) == Stage(c) \notin Outside

Locked(c) == /\ Inside(c)
             /\ caller[c].op \in Its.locks
             /\ ~(Its.bare /\ Stage(c) \in {"making", "writing"})
Chained(c) == Inside(c) /\ ~(Its.split /\ Stage(c) \in {"holding", "making"})

(* A call enters when no other has the record's lock, if it takes it, and none of *)
(* its own process is at the record.                                              *)
ChainFree(c) == \A d \in Caller \ {c} : ServerOf(d) = ServerOf(c) => ~Chained(d)
LockFree(c) == caller[c].op \in Its.locks => \A d \in Caller \ {c} : ~Locked(d)

Becomes(c, at) == caller' = [caller EXCEPT ![c].at = at]
Keeps(c, at, held) == caller' = [caller EXCEPT ![c].at = at, ![c].holds = held]

(* What a call that holds the record does next.                                   *)
Onward(c) == CASE caller[c].op = "load" -> "answered"
               [] caller[c].op = "change" -> "holding"
               [] OTHER -> "failed"

StoreTypeOK ==
  /\ store \in Kept
  /\ made \in BOOLEAN
  /\ {primary, backup} \subseteq {Torn, Gone} \cup {Whole(held) : held \in SUBSET Caller}
  /\ caller \in [Caller -> [op : {"none", "create", "change", "load"},
                          at : Outside \cup {"reading", "recovering", "restoring", "holding",
                                           "copying", "replacing", "making", "writing"},
                          holds : SUBSET Caller, before : SUBSET Caller]]
  /\ stored \subseteq Caller
  /\ failures \in 0..MaxFailures
  /\ spoilt \in 0..(MaxSpoilt + failures)

StoreInit ==
  /\ store \in Kept
  /\ primary \in {Gone, Whole({})}
  /\ made = (Its.named /\ Legible(primary))
  /\ backup = Gone
  /\ caller = [c \in Caller |-> Fresh]
  /\ stored = {}
  /\ spoilt = 0
  /\ failures = 0

--------------------------------------------------------------------------------
(* A call comes in. A name made up by the server is created once.                 *)
Begin(c) ==
  /\ Stage(c) = "idle"
  /\ \E op \in Its.offers :
       /\ op = "create" /\ ~Its.named => primary = Gone /\ \A d \in Caller : Stage(d) = "idle"
       /\ caller' = [caller EXCEPT ![c] =
            [op |-> op, holds |-> {}, before |-> stored,
             at |-> IF op = "load" /\ Its.peeks THEN "peeking" ELSE "entering"]]
  /\ UNCHANGED <<store, made, primary, backup, stored, spoilt, failures>>

(* The load of a repository that first looks without the lock: a record it can    *)
(* read is its answer, for another it enters, or gives up where nothing recovers. *)
Peek(c) ==
  /\ Stage(c) = "peeking"
  /\ IF Legible(primary) THEN Keeps(c, "answered", primary.holds)
     ELSE Becomes(c, IF Its.recovers THEN "entering" ELSE "failed")
  /\ UNCHANGED <<store, made, primary, backup, stored, spoilt, failures>>

Admit(c) ==
  /\ Stage(c) = "entering"
  /\ LockFree(c)
  /\ ChainFree(c)
  /\ Becomes(c, IF Its.blind /\ caller[c].op = "change" THEN "holding" ELSE "reading")
  /\ UNCHANGED <<store, made, primary, backup, stored, spoilt, failures>>

(* Mutant: a load that found the file torn does not read it again under the lock. *)
ReadsTheBackup(c) ==
  /\ Stage(c) = "reading"
  /\ IF Legible(primary) /\ ~(Its.peeks /\ caller[c].op = "load")
     THEN Keeps(c, Onward(c), primary.holds)
     ELSE Becomes(c, "recovering")
  /\ UNCHANGED <<store, made, primary, backup, stored, spoilt, failures>>

(* A creation refuses a record that is there. The creations of missions,          *)
(* campaigns, executions, plans and reports only look for the file.               *)
ReadFile(c) ==
  /\ Stage(c) = "reading"
  /\ IF Legible(primary) THEN Keeps(c, Onward(c), primary.holds)
     ELSE Becomes(c, "recovering")
  /\ UNCHANGED <<store, made, primary, backup, stored, spoilt, failures>>

(* Where there is no record a load answers so, a change fails, but for the edit   *)
(* protections, whose absence is an empty record, and a creation goes on.         *)
Recover(c) ==
  /\ Stage(c) = "recovering"
  /\ IF Its.recovers /\ Legible(backup) THEN Keeps(c, "restoring", backup.holds)
     ELSE Becomes(c, CASE caller[c].op = "load" -> "failed"
                    [] caller[c].op = "create" /\ {primary, backup} = {Gone} -> "making"
                    [] caller[c].op = "change" /\ store = "protection" /\ {primary, backup} = {Gone} -> "holding"
                    [] OTHER -> "failed")
  /\ UNCHANGED <<store, made, primary, backup, stored, spoilt, failures>>

Restore(c) ==
  /\ Stage(c) = "restoring"
  /\ primary' = Whole(caller[c].holds)
  /\ Becomes(c, Onward(c))
  /\ UNCHANGED <<store, made, backup, stored, spoilt, failures>>

(* The change is made of what the call holds, or refused. The version that stands *)
(* is first copied over the backup: until that is done the backup is torn.        *)
Refuse(c) ==
  /\ Stage(c) = "holding"
  /\ Becomes(c, "failed")
  /\ UNCHANGED <<store, made, primary, backup, stored, spoilt, failures>>

BackUp(c) ==
  /\ Stage(c) = "holding"
  /\ ChainFree(c)
  /\ IF primary = Gone THEN Becomes(c, "replacing") /\ UNCHANGED backup
     ELSE Becomes(c, "copying") /\ backup' = Torn
  /\ UNCHANGED <<store, made, primary, stored, spoilt, failures>>

Copied(c) ==
  /\ Stage(c) = "copying"
  /\ backup' = primary
  /\ Becomes(c, "replacing")
  /\ UNCHANGED <<store, made, primary, stored, spoilt, failures>>

Written(c) == {c} \cup (IF Its.blind THEN stored ELSE caller[c].holds)

Replace(c) ==
  /\ Stage(c) = "replacing"
  /\ primary' = Whole(Written(c))
  /\ stored' = stored \cup {c}
  /\ Becomes(c, "answered")
  /\ UNCHANGED <<store, made, backup, spoilt, failures>>

(* A job and a workflow have a directory, whose making is what a second creation  *)
(* fails at.                                                                      *)
MakeRoom(c) ==
  /\ Stage(c) = "making"
  /\ ChainFree(c)
  /\ IF Its.named THEN /\ made' = TRUE
                       /\ Becomes(c, IF made THEN "failed" ELSE "writing")
     ELSE Becomes(c, "writing") /\ UNCHANGED made
  /\ UNCHANGED <<store, primary, backup, stored, spoilt, failures>>

WriteFirst(c) ==
  /\ Stage(c) = "writing"
  /\ primary' = Whole({c})
  /\ stored' = stored \cup {c}
  /\ Becomes(c, "answered")
  /\ UNCHANGED <<store, made, backup, spoilt, failures>>

--------------------------------------------------------------------------------
(* A write fails, a process dies: a replacement has happened or not, a copy that  *)
(* was under way leaves the backup torn.                                          *)
WriteFails(c) ==
  /\ failures < MaxFailures
  /\ Stage(c) \in {"restoring", "copying", "replacing", "writing"}
  /\ failures' = failures + 1
  /\ spoilt' = spoilt + (IF Stage(c) = "copying" THEN 1 ELSE 0)
  /\ Becomes(c, "failed")
  /\ UNCHANGED <<store, made, primary, backup, stored>>

Die(p) ==
  /\ failures < MaxFailures
  /\ failures' = failures + 1
  /\ spoilt' = spoilt + Cardinality({c \in Caller : ServerOf(c) = p /\ Stage(c) = "copying"})
  /\ caller' = [c \in Caller |->
       IF ServerOf(c) = p /\ Stage(c) \notin {"idle", "answered", "failed"}
       THEN [caller[c] EXCEPT !.at = "dead"] ELSE caller[c]]
  /\ UNCHANGED <<store, made, primary, backup, stored>>

(* A file is found torn or missing, by those who come next.                       *)
Spoil ==
  /\ spoilt < MaxSpoilt
  /\ \A c \in Caller : ~Inside(c)
  /\ spoilt' = spoilt + 1
  /\ \E file \in {Torn, Gone} :
       \/ Legible(primary) /\ primary' = file /\ UNCHANGED backup
       \/ Legible(backup) /\ backup' = file /\ UNCHANGED primary
  /\ UNCHANGED <<store, made, caller, stored, failures>>

StoreStep(c) ==
  \/ Begin(c) \/ Peek(c) \/ Admit(c) \/ ReadFile(c) \/ Recover(c) \/ Restore(c)
  \/ Refuse(c) \/ BackUp(c) \/ Copied(c) \/ Replace(c) \/ MakeRoom(c) \/ WriteFirst(c)
  \/ WriteFails(c)

StoreNext ==
  \/ \E c \in Caller : StoreStep(c)
  \/ \E c \in Caller : Die(ServerOf(c))
  \/ Spoil

StoreSpec == StoreInit /\ [][StoreNext]_storeVars

--------------------------------------------------------------------------------
(* What can still be read of the record.                                          *)
Readable == IF Legible(primary) THEN primary.holds
            ELSE IF Its.recovers /\ Legible(backup) THEN backup.holds ELSE {}

(* One torn file costs the last change and no other: neither a call that recovers *)
(* the record, nor one that changes it at the same time, nor one that dies midway *)
(* takes away a second one, and a load never answers with less. An asset analysis *)
(* is made again from its asset, so its loss is none.                             *)
TornCostsOne ==
  spoilt <= 1 /\ ~Its.blind =>
    /\ Cardinality(stored \ Readable) <= spoilt
    /\ \A c \in Caller :
         caller[c].op = "load" /\ Stage(c) \in {"answered", "failed"} =>
           Cardinality(caller[c].before \ caller[c].holds) <= spoilt
================================================================================
