------------------------------ MODULE ProjectFiles ------------------------------
(* The files a Project refers to and the summary kept beside it:               *)
(* lib/media/import-service.ts over lib/project/repository.ts, the upload of    *)
(* app/api/projects/[projectId]/media/route.ts, the removal of orphans of       *)
(* lib/media/data-maintenance.ts and the list of projects.                      *)
(*                                                                             *)
(* An import stages the upload, puts it under a path made from its operation    *)
(* id, lets FFmpeg write a working copy when the format asks for one, and then  *)
(* adds the asset to the Project; when it fails it removes what it put there    *)
(* and no Project refers to.  A save removes the summary, replaces the Project  *)
(* and writes the summary again.  Any of it may be cut off by the death of the  *)
(* process.  The operation log of ProjectMutation is taken as what it comes     *)
(* to: an operation is known as applied from the save on.                       *)
EXTENDS Naturals, FiniteSets

CONSTANTS
  Import,       \* operation ids of imports
  Caller,       \* uploads in progress at once
  Lister,       \* requests for the list of projects
  Plan,         \* planMediaImport of each import: "native", "normalised", "subtitle"
  Careless,     \* what users and servers do that the code leaves to them
  MaxSaves,     \* bound: no save is begun at this revision
  MaxDeaths,    \* bound: deaths of the server
  Nobody

ASSUME PlanAssumption == Plan \in [Import -> {"native", "normalised", "subtitle"}]
ASSUME CarelessAssumption == Careless \subseteq {"busy", "list"}
ASSUME FilesBounds == MaxSaves \in Nat /\ MaxDeaths \in Nat
ASSUME EditorAssumption == "editor" \notin Caller /\ Nobody \notin Caller \cup Import \cup {"editor"}

VARIABLES
  content,   \* project.json: its revision and the assets it refers to
  known,     \* the imports the operation log has, or will settle, as applied
  files,     \* of each import, the file under each of its paths
  staged,    \* of each caller, its file under .uploads
  summary,   \* project.summary.json: the revision it names, or absent
  saving,    \* the save in progress
  call,      \* of each caller: where it is, and what it asks
  seen,      \* of each lister: the revision it loaded and has not yet written
  sweep,     \* the removal of orphans in progress
  deaths,
  spilled    \* history: imports whose files may stay without an asset

projectVars == <<content, known, files, summary, saving>>
filesVars == <<projectVars, staged, call, seen, sweep, deaths, spilled>>

-------------------------------------------------------------------------------
Paths(op) == IF Plan[op] = "normalised" THEN {"original", "working"} ELSE {"working"}
Target(op) == IF Plan[op] = "normalised" THEN "original" ELSE "working"

NoCall  == [at |-> "idle", op |-> Nobody, exp |-> 0, tried |-> {}, safe |-> {}]
NoSave  == [by |-> Nobody, at |-> "none", next |-> {}, op |-> Nobody]
NoSweep == [at |-> "none", exp |-> 0, found |-> {}, safe |-> {}]
NoSummary  == [state |-> "absent", rev |-> 0]
Naming(revision) == [state |-> "present", rev |-> revision]

(* The calls that hold the lock of their operation.                             *)
HasEntered(c) == call[c].at \notin {"idle", "uploading", "waiting"}

(* project.json.lock, which a save holds from the removal of the summary on.    *)
ProjectIsFree == saving.at = "none"

FilesInit ==
  /\ content = [rev |-> 0, assets |-> {}]
  /\ known = {}
  /\ files = [op \in Import |-> [p \in {"original", "working"} |-> "absent"]]
  /\ staged = [c \in Caller |-> "absent"]
  /\ summary = Naming(0)
  /\ saving = NoSave
  /\ call = [c \in Caller |-> NoCall]
  /\ seen = [l \in Lister |-> NoSummary]
  /\ sweep = NoSweep
  /\ deaths = 0
  /\ spilled = {}

-------------------------------------------------------------------------------
(* ProjectRepository.save under the lock of the Project.                        *)

BeginSave(by, assets, op) ==
  /\ ProjectIsFree /\ content.rev < MaxSaves
  /\ "list" \in Careless \/ \A l \in Lister : seen[l] = NoSummary
  /\ saving' = [by |-> by, at |-> "replace", next |-> assets, op |-> op]
  /\ summary' = NoSummary

Goes(c, place) == call' = [call EXCEPT ![c].at = place]

Replace ==
  /\ saving.at = "replace"
  /\ content' = [rev |-> content.rev + 1, assets |-> saving.next]
  /\ known' = known \cup ({saving.op} \ {Nobody})
  /\ saving' = [saving EXCEPT !.at = "cache"]
  /\ UNCHANGED <<files, staged, summary, call, seen, sweep, deaths, spilled>>

(* The replacement fails: the log says aborted, and the mutation throws.        *)
SaveRefused ==
  /\ saving.at = "replace"
  /\ saving' = NoSave
  /\ IF saving.by \in Caller THEN Goes(saving.by, "failed") ELSE UNCHANGED call
  /\ UNCHANGED <<content, known, files, staged, summary, seen, sweep, deaths, spilled>>

(* The summary is written or not; the call answers, or throws because the log   *)
(* cannot take its last line.                                                   *)
EndSave ==
  /\ saving.at = "cache"
  /\ summary' \in {Naming(content.rev), NoSummary}
  /\ saving' = NoSave
  /\ IF saving.by \in Caller
       THEN \E place \in {"leaving", "failed"} : Goes(saving.by, place)
       ELSE UNCHANGED call
  /\ UNCHANGED <<content, known, files, staged, seen, sweep, deaths, spilled>>

-------------------------------------------------------------------------------
(* An upload, and importWithReport.                                             *)

(* The file is streamed to a name of its own.                                   *)
Upload(c) ==
  /\ call[c].at = "idle"
  /\ "busy" \in Careless \/ sweep.at = "none"
  /\ \E op \in Import : call' = [call EXCEPT ![c] = [NoCall EXCEPT !.at = "uploading", !.op = op]]
  /\ staged' = [staged EXCEPT ![c] = "part"]
  /\ UNCHANGED <<projectVars, seen, sweep, deaths, spilled>>

(* Too large, empty, or given up by the page: the part is removed.              *)
UploadEnds(c) ==
  /\ call[c].at = "uploading"
  /\ \/ Goes(c, "waiting") /\ staged' = [staged EXCEPT ![c] = "whole"]
     \/ Goes(c, "leaving") /\ staged' = [staged EXCEPT ![c] = "absent"]
  /\ UNCHANGED <<projectVars, seen, sweep, deaths, spilled>>

(* Mutant of MayImport: the imports of one operation id are not kept apart.      *)
MayImportBeside(c) == ProjectIsFree

(* withMediaOperationLock; getOperationForMutation waits for a mutation.        *)
MayImport(c) ==
  /\ ProjectIsFree
  /\ \A d \in Caller \ {c} : HasEntered(d) => call[d].op # call[c].op

(* An operation that took effect is answered; a request made at another revision *)
(* than the one found here is refused.                                          *)
EnterImport(c) ==
  /\ call[c].at = "waiting" /\ MayImport(c)
  /\ \/ Goes(c, "leaving")
     \/ /\ call[c].op \notin known
        /\ call' = [call EXCEPT ![c].at = "placing", ![c].exp = content.rev]
  /\ UNCHANGED <<projectVars, staged, seen, sweep, deaths, spilled>>

Put(op, path, state) == files' = [files EXCEPT ![op][path] = state]
Tries(c, path, place) ==
  call' = [call EXCEPT ![c].at = place, ![c].tried = @ \cup {path}]

(* moveFile removes what is there before it moves.                              *)
Place(c) ==
  LET op == call[c].op
  IN /\ call[c].at = "placing"
     /\ \/ /\ Put(op, Target(op), staged[c])
           /\ staged' = [staged EXCEPT ![c] = "absent"]
           /\ Tries(c, Target(op), IF Plan[op] = "normalised" THEN "encoding" ELSE "probing")
        \/ /\ Put(op, Target(op), "absent")
           /\ Tries(c, Target(op), "failed")
           /\ UNCHANGED staged
     /\ UNCHANGED <<content, known, summary, saving, seen, sweep, deaths, spilled>>

(* normalizeVideo, normalizeAudio: FFmpeg writes to the path itself.            *)
Encode(c) ==
  /\ call[c].at = "encoding"
  /\ Put(call[c].op, "working", "part")
  /\ Tries(c, "working", "encoded")
  /\ UNCHANGED <<content, known, summary, saving, staged, seen, sweep, deaths, spilled>>

Encoded(c) ==
  /\ call[c].at = "encoded"
  /\ \/ Put(call[c].op, "working", "whole") /\ Goes(c, "probing")
     \/ UNCHANGED files /\ Goes(c, "failed")
  /\ UNCHANGED <<content, known, summary, saving, staged, seen, sweep, deaths, spilled>>

(* A video that cannot be probed is refused; a subtitle is read in the mutation. *)
Probe(c) ==
  /\ call[c].at = "probing"
  /\ \/ Goes(c, "mutating")
     \/ Plan[call[c].op] # "subtitle" /\ Goes(c, "failed")
  /\ UNCHANGED <<projectVars, staged, seen, sweep, deaths, spilled>>

(* mutate: an answer to an applied operation; an error, be it a conflict of     *)
(* revisions, a subtitle without a cue or a log that cannot be written; or the  *)
(* save.                                                                        *)
Mutate(c) ==
  LET op == call[c].op
  IN /\ call[c].at = "mutating" /\ ProjectIsFree
     /\ \/ op \in known /\ Goes(c, "leaving") /\ UNCHANGED <<summary, saving>>
        \/ op \notin known /\ Goes(c, "failed") /\ UNCHANGED <<summary, saving>>
        \/ /\ op \notin known \cup content.assets
           /\ call[c].exp = content.rev
           /\ BeginSave(c, content.assets \cup {op}, op)
           /\ Goes(c, "saving")
     /\ UNCHANGED <<content, known, files, staged, seen, sweep, deaths, spilled>>

(* cleanupUnreferencedProjectFiles: what the Project refers to, then the removal. *)
(* Its failure is swallowed.                                                    *)
Recall(c) ==
  /\ call[c].at = "failed" /\ ProjectIsFree
  /\ \/ /\ call' = [call EXCEPT ![c].at = "purging", ![c].safe = content.assets]
        /\ UNCHANGED spilled
     \/ Goes(c, "leaving") /\ spilled' = spilled \cup {call[c].op}
  /\ UNCHANGED <<projectVars, staged, seen, sweep, deaths>>

(* Mutant of Purged: the files of the failed import go, whatever was saved.     *)
PurgedBlindly(op, paths, safe) ==
  [files EXCEPT ![op] = [p \in {"original", "working"} |-> IF p \in paths THEN "absent" ELSE @[p]]]

Purged(op, paths, safe) ==
  IF op \in safe THEN files
  ELSE [files EXCEPT ![op] = [p \in {"original", "working"} |-> IF p \in paths THEN "absent" ELSE @[p]]]

Purge(c) ==
  /\ call[c].at = "purging"
  /\ \/ files' = Purged(call[c].op, call[c].tried, call[c].safe) /\ UNCHANGED spilled
     \/ UNCHANGED files /\ spilled' = spilled \cup {call[c].op}
  /\ Goes(c, "leaving")
  /\ UNCHANGED <<content, known, summary, saving, staged, seen, sweep, deaths>>

(* The finally of the route: the staged file goes, moved or not.                *)
Unstaged(c) == staged' = [staged EXCEPT ![c] = "absent"]

LeaveImport(c) ==
  /\ call[c].at = "leaving"
  /\ Unstaged(c)
  /\ call' = [call EXCEPT ![c] = NoCall]
  /\ UNCHANGED <<projectVars, seen, sweep, deaths, spilled>>

-------------------------------------------------------------------------------
(* Any other mutation.  No command takes an asset out of the Project again, and  *)
(* an import is not in the history a page undoes.                               *)
EditProject ==
  /\ BeginSave("editor", content.assets, Nobody)
  /\ UNCHANGED <<content, known, files, staged, call, seen, sweep, deaths, spilled>>

(* readOrRepairSummary: a summary that is there is the answer; without one the  *)
(* Project is loaded, and its summary written outside its lock.                 *)
ListProjects(l) ==
  /\ seen[l] = NoSummary /\ summary = NoSummary /\ ProjectIsFree
  /\ seen' = [seen EXCEPT ![l] = Naming(content.rev)]
  /\ UNCHANGED <<projectVars, staged, call, sweep, deaths, spilled>>

Cache(l) ==
  /\ seen[l] # NoSummary
  /\ summary' \in {summary, seen[l]}
  /\ seen' = [seen EXCEPT ![l] = NoSummary]
  /\ UNCHANGED <<content, known, files, saving, staged, call, sweep, deaths, spilled>>

-------------------------------------------------------------------------------
(* cleanupImportedMediaOrphans, for a user who confirms that no import runs.    *)
SweepBegins ==
  /\ sweep.at = "none" /\ ProjectIsFree
  /\ "busy" \in Careless \/ \A c \in Caller : call[c].at = "idle"
  /\ sweep' = [NoSweep EXCEPT !.at = "listing", !.exp = content.rev, !.safe = content.assets]
  /\ UNCHANGED <<projectVars, staged, call, seen, deaths, spilled>>

(* inspectImportedMediaOrphans lists the files after it loaded the Project; the *)
(* removal is refused while a job of the Project is active.                     *)
SweepLists ==
  /\ sweep.at = "listing"
  /\ \/ sweep' = [sweep EXCEPT !.at = "checking",
                    !.found = {op \in Import \ sweep.safe : \E p \in Paths(op) : files[op][p] # "absent"}]
     \/ sweep' = NoSweep
  /\ UNCHANGED <<projectVars, staged, call, seen, deaths, spilled>>

(* Mutant of SweepChecks: the revision is not compared again, nor the Project    *)
(* read before the removal.                                                     *)
SweepTrusts ==
  /\ sweep.at = "checking"
  /\ sweep' = [sweep EXCEPT !.at = "removing"]
  /\ UNCHANGED <<projectVars, staged, call, seen, deaths, spilled>>

SweepChecks ==
  /\ sweep.at = "checking" /\ ProjectIsFree
  /\ sweep' = IF content.rev # sweep.exp THEN NoSweep
              ELSE [sweep EXCEPT !.at = "removing", !.safe = content.assets]
  /\ UNCHANGED <<projectVars, staged, call, seen, deaths, spilled>>

SweepRemoves ==
  /\ sweep.at = "removing"
  /\ files' = [op \in Import |-> IF op \in sweep.found \ sweep.safe
                                   THEN [p \in {"original", "working"} |-> "absent"] ELSE files[op]]
  /\ sweep' = NoSweep
  /\ UNCHANGED <<content, known, summary, saving, staged, call, seen, deaths, spilled>>

(* The server dies with all it was doing.  A staged file stays under a name     *)
(* nobody will use again.                                                       *)
ServerDies ==
  /\ deaths < MaxDeaths
  /\ deaths' = deaths + 1
  /\ saving' = NoSave
  /\ call' = [c \in Caller |-> NoCall]
  /\ staged' = [c \in Caller |-> "absent"]
  /\ seen' = [l \in Lister |-> NoSummary]
  /\ sweep' = NoSweep
  /\ spilled' = spilled \cup {call[c].op : c \in {d \in Caller : HasEntered(d)}}
  /\ UNCHANGED <<content, known, files, summary>>

FilesNext ==
  \/ Replace \/ SaveRefused \/ EndSave \/ EditProject
  \/ \E c \in Caller :
       \/ Upload(c) \/ UploadEnds(c) \/ EnterImport(c) \/ Place(c) \/ Encode(c) \/ Encoded(c)
       \/ Probe(c) \/ Mutate(c) \/ Recall(c) \/ Purge(c) \/ LeaveImport(c)
  \/ \E l \in Lister : ListProjects(l) \/ Cache(l)
  \/ SweepBegins \/ SweepLists \/ SweepChecks \/ SweepRemoves
  \/ ServerDies

FilesSpec == FilesInit /\ [][FilesNext]_filesVars

-------------------------------------------------------------------------------
FilesTypeOK ==
  /\ content \in [rev : 0 .. MaxSaves, assets : SUBSET Import]
  /\ known \subseteq Import /\ spilled \subseteq Import
  /\ files \in [Import -> [{"original", "working"} -> {"absent", "part", "whole"}]]
  /\ staged \in [Caller -> {"absent", "part", "whole"}]
  /\ summary \in [state : {"absent", "present"}, rev : 0 .. MaxSaves]
  /\ saving \in [by : Caller \cup {"editor", Nobody}, at : {"none", "replace", "cache"}, next : SUBSET Import,
                 op : Import \cup {Nobody}]
  /\ call \in [Caller -> [at : {"idle", "uploading", "waiting", "placing", "encoding", "encoded", "probing",
                                "mutating", "saving", "failed", "purging", "leaving"},
                          op : Import \cup {Nobody}, exp : 0 .. MaxSaves,
                          tried : SUBSET {"original", "working"}, safe : SUBSET Import]]
  /\ seen \in [Lister -> [state : {"absent", "present"}, rev : 0 .. MaxSaves]]
  /\ sweep \in [at : {"none", "listing", "checking", "removing"}, exp : 0 .. MaxSaves,
                found : SUBSET Import, safe : SUBSET Import]
  /\ deaths \in 0 .. MaxDeaths

(* Every asset of the Project has its files, and has them whole: no failed,     *)
(* repeated or late import, no death and no removal of orphans takes the file    *)
(* of an asset away or leaves half of one in its place.  (import-service.ts:     *)
(* the lock of the operation, the order of placing, encoding and mutating, and   *)
(* the cleanup that spares what the saved Project refers to.)                    *)
AssetsAreWhole ==
  \A op \in content.assets : \A p \in Paths(op) : files[op][p] = "whole"

(* Nothing is left behind: once no import runs, a file without an asset is one   *)
(* of an import cut off by a death or whose cleanup itself failed, and no staged  *)
(* upload outlives its request.  (The catch of importWithReport and the finally   *)
(* of the route.)                                                               *)
NothingLeftBehind ==
  /\ \A c \in Caller : call[c].at = "idle" => staged[c] = "absent"
  /\ (\A c \in Caller : call[c].at = "idle") =>
       \A op \in Import \ (content.assets \cup spilled) :
         \A p \in {"original", "working"} : files[op][p] = "absent"

(* A summary that is there names the Project that is there, also while a save    *)
(* is in progress and after one that was cut off, so the list of projects never  *)
(* shows a revision the Project has left.  (repository.ts: "a crash cannot leave *)
(* a stale summary that looks current".)                                        *)
SummaryIsCurrent == summary # NoSummary => summary.rev = content.rev

(* The files of a Project are those its assets and its summary say.             *)
FilesAreTrue == AssetsAreWhole /\ NothingLeftBehind /\ SummaryIsCurrent
===============================================================================
