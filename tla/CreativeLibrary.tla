----------------------------- MODULE CreativeLibrary -----------------------------
(* lib/creative-assets/repository.ts, with schema.ts and service-contracts.ts:    *)
(* the library of creative assets.  Each asset has a manifest of its own, which  *)
(* holds its versions and is replaced under the asset's lock, the former one      *)
(* copied beside it; one index of all of them is derived under a lock of its own. *)
(*                                                                               *)
(* A version's source, parameters, lineage and previews are left out: of its      *)
(* artifacts only whether a final one is ready, of its states those that the       *)
(* operations tell apart: WORKING stands for SOURCE_READY to FINAL_RENDERING, and  *)
(* FAILED for CANCELLED as well.                                                   *)
EXTENDS Naturals, Sequences, FiniteSets

CONSTANTS
  Asset, Version, Fingerprint,   \* ids of assets, of versions; fingerprints of versions
  Proc,                    \* processes, each with one call at a time
  None,                    \* no version, fingerprint or process
  RecoversAlone,           \* nobody else is at work while recoverRepository is
  MaxWrites,               \* bound: changes of manifests
  MaxFaults                \* bound: deaths, failed writes, broken files

ASSUME NoneAssumption == None \notin Version \union Fingerprint \union Proc
ASSUME VersionAssumption == Version # {}
ASSUME BoundAssumption == {MaxWrites, MaxFaults} \subseteq Nat /\ RecoversAlone \in BOOLEAN

VARIABLES
  primary, backup,  \* of each asset: its manifest, or why there is none to read
  index,            \* the entries of the index: of each asset it lists, the asset's record
  lock,             \* of each asset: who holds its lock
  indexLock,        \* who holds the lock of the index
  proc,             \* of each process: its call
  writes, faults,   \* how many there have been
  log,              \* history, of each asset: the manifests its readers could count on
  missed            \* history: an index has not been written after a change

vars == <<primary, backup, index, lock, indexLock, proc, writes, faults, log, missed>>
files == <<primary, backup, log>>

-------------------------------------------------------------------------------
Missing == [is |-> "missing"]
Broken  == [is |-> "broken"]
Readable(f) == f.is = "manifest"

Of(versions, latest, recommended, archived) ==
  [is |-> "manifest", versions |-> versions,
   asset |-> [latest |-> latest, recommended |-> recommended, archived |-> archived]]

Fresh(state, final, print) == [state |-> state, final |-> final, print |-> print]
MutableStates == {"DRAFT", "WORKING", "FAILED"}
Mutable(m, v) == m.versions[v].state \in MutableStates
With(m, v, x) == [m EXCEPT !.versions = [u \in DOMAIN @ \union {v} |-> IF u = v THEN x ELSE @[u]]]

(* createAsset: without versions, with a draft, or with one that was accepted       *)
(* elsewhere.  (Bound: which of the ids it has makes no difference.)               *)
Creations ==
  LET v == CHOOSE u \in Version : TRUE
  IN  {Of([u \in {} |-> None], None, None, FALSE), Of([u \in {v} |-> Fresh("DRAFT", FALSE, None)], v, None, FALSE)}
      \union {Of([u \in {v} |-> Fresh("READY", TRUE, f)], v, v, FALSE) : f \in Fingerprint}

(* createDraftChildVersion: of a version that is there.                            *)
Children(m) ==
  {[With(m, v, Fresh("DRAFT", FALSE, None)) EXCEPT !.asset.latest = v] :
     v \in IF DOMAIN m.versions = {} THEN {} ELSE Version \ DOMAIN m.versions}

Updates(m) ==
  {With(m, v, Fresh(s, f, m.versions[v].print)) :
     v \in {u \in DOMAIN m.versions : Mutable(m, u)}, s \in MutableStates, f \in BOOLEAN}

(* attachArtifactMetadata, of a final artifact, ready or not.                       *)
Attachments(m) ==
  {With(m, v, [m.versions[v] EXCEPT !.final = f]) : v \in {u \in DOMAIN m.versions : Mutable(m, u)}, f \in BOOLEAN}

(* acceptVersion: once more with the same fingerprint, it is written as it is.      *)
Accepted(m, v, f) ==
  [With(m, v, [m.versions[v] EXCEPT !.state = "READY", !.print = f])
     EXCEPT !.asset.latest = v, !.asset.recommended = IF @ = None THEN v ELSE @]
Acceptances(m) ==
  {m : v \in {u \in DOMAIN m.versions : m.versions[u].state = "READY"}}
  \union {Accepted(m, v, f) :
     v \in {u \in DOMAIN m.versions : m.versions[u].state = "WORKING" /\ m.versions[u].final}, f \in Fingerprint}

(* archiveAsset, archiveVersion.                                                    *)
Archivals(m) ==
  {[m EXCEPT !.asset.archived = TRUE]}
  \union {m : v \in {u \in DOMAIN m.versions : m.versions[u].state = "ARCHIVED"}}
  \union {With(m, v, [m.versions[v] EXCEPT !.state = "ARCHIVED"]) : v \in {u \in DOMAIN m.versions : Mutable(m, u)}}

Changes(m) == Children(m) \union Updates(m) \union Attachments(m) \union Acceptances(m) \union Archivals(m)

-------------------------------------------------------------------------------
Idle == [at |-> "idle", asset |-> None, next |-> Missing, todo |-> {}, found |-> [a \in {} |-> None]]

Init ==
  /\ primary = [a \in Asset |-> Missing] /\ backup = [a \in Asset |-> Missing]
  /\ index = [a \in {} |-> None]
  /\ lock = [a \in Asset |-> None] /\ indexLock = None
  /\ proc = [p \in Proc |-> Idle]
  /\ writes = 0 /\ faults = 0
  /\ log = [a \in Asset |-> << >>] /\ missed = FALSE

At(p, place) == proc[p].at = place
To(p, place) == proc' = [proc EXCEPT ![p].at = place]
End(p)       == proc' = [proc EXCEPT ![p] = Idle]

(* readManifestUnderLock: a backup stands in for a primary that cannot be read, and *)
(* becomes the primary; with neither, a broken primary is an error.                  *)
Reads(a) == IF Readable(primary[a]) THEN primary[a]
            ELSE IF Readable(backup[a]) THEN backup[a] ELSE primary[a]
Repaired(a) == [primary EXCEPT ![a] = Reads(a)]
(* What its readers count on from then on. *)
Reckoned(a) == IF ~Readable(primary[a]) /\ Readable(backup[a])
               THEN [log EXCEPT ![a] = Append(@, backup[a])] ELSE log

(* createAsset and mutateExisting, up to the replacement: the asset is locked, read, *)
(* and its file copied beside it if there is one.  (Mutant: the copy is made of the   *)
(* file as it is, readable or not.)                                                   *)
Prepare(p, a, next, was) ==
  /\ At(p, "idle") /\ lock[a] = None /\ writes < MaxWrites
  /\ RecoversAlone => \A q \in Proc : proc[q].at \notin {"survey", "list"}
  /\ lock' = [lock EXCEPT ![a] = p]
  /\ writes' = writes + 1
  /\ proc' = [proc EXCEPT ![p] = [Idle EXCEPT !.at = "write", !.asset = a, !.next = next]]
  /\ backup' = IF was = Missing THEN backup ELSE [backup EXCEPT ![a] = was]
  /\ UNCHANGED <<index, indexLock, faults, missed>>

Create(p, a) ==
  /\ Reads(a) = Missing
  /\ \E m \in Creations : Prepare(p, a, m, Missing)
  /\ log' = [log EXCEPT ![a] = << >>]
  /\ UNCHANGED primary

ChangeUnrepaired(p, a) ==
  /\ Readable(Reads(a))
  /\ \E m \in Changes(Reads(a)) : Prepare(p, a, m, primary[a])
  /\ log' = Reckoned(a)
  /\ UNCHANGED primary
Change(p, a) ==
  /\ Readable(Reads(a))
  /\ \E m \in Changes(Reads(a)) : Prepare(p, a, m, Reads(a))
  /\ primary' = Repaired(a) /\ log' = Reckoned(a)

(* The file is replaced, the lock given back; now the index is to be rebuilt.         *)
Replace(p) ==
  LET a == proc[p].asset IN
  /\ At(p, "write")
  /\ primary' = [primary EXCEPT ![a] = proc[p].next]
  /\ log' = [log EXCEPT ![a] = Append(@, proc[p].next)]
  /\ lock' = [lock EXCEPT ![a] = None]
  /\ proc' = [proc EXCEPT ![p] = [Idle EXCEPT !.at = "rebuild"]]
  /\ UNCHANGED <<backup, index, indexLock, writes, faults, missed>>

(* It cannot be written, or its temporary file was swept away by a recovery.          *)
ReplaceFails(p) ==
  /\ At(p, "write") /\ faults < MaxFaults
  /\ faults' = faults + 1
  /\ lock' = [lock EXCEPT ![proc[p].asset] = None]
  /\ End(p)
  /\ UNCHANGED <<files, index, indexLock, writes, missed>>

-------------------------------------------------------------------------------
(* rebuildIndex: under the lock of the index, the manifests are read one by one, each *)
(* under its own, repaired if need be, and left out if they cannot be read.           *)
Scanning(p, place) ==
  proc' = [proc EXCEPT ![p] = [Idle EXCEPT !.at = place, !.todo = {a \in Asset : primary[a] # Missing \/ backup[a] # Missing}]]

(* (Mutant: the index is locked to be written only.)                                  *)
RebuildUnlocked(p) ==
  /\ At(p, "rebuild")
  /\ Scanning(p, "survey")
  /\ UNCHANGED <<files, index, lock, indexLock, writes, faults, missed>>
Rebuild(p) ==
  /\ At(p, "rebuild") /\ indexLock = None
  /\ indexLock' = p /\ missed' = FALSE
  /\ Scanning(p, "scan")
  /\ UNCHANGED <<files, index, lock, writes, faults>>

Scan(p, a) ==
  /\ proc[p].at \in {"scan", "survey"} /\ a \in proc[p].todo /\ lock[a] = None
  /\ primary' = Repaired(a) /\ log' = Reckoned(a)
  /\ proc' = [proc EXCEPT ![p].todo = @ \ {a},
       ![p].found = IF Readable(Reads(a))
                    THEN [b \in DOMAIN @ \union {a} |-> IF b = a THEN Reads(a).asset ELSE @[b]] ELSE @]
  /\ UNCHANGED <<backup, index, lock, indexLock, writes, faults, missed>>

WriteIndex(p) ==
  /\ proc[p].at \in {"scan", "list"} /\ proc[p].todo = {}
  /\ index' = proc[p].found
  /\ indexLock' = None
  /\ End(p)
  /\ UNCHANGED <<files, lock, writes, faults, missed>>

(* recoverRepository: temporary files are swept away, and the manifests are read       *)
(* before the index is locked.                                                          *)
Recover(p) ==
  /\ At(p, "idle")
  /\ RecoversAlone => \A q \in Proc : At(q, "idle")
  /\ Scanning(p, "survey")
  /\ missed' = FALSE
  /\ UNCHANGED <<files, index, lock, indexLock, writes, faults>>

LockSurveyed(p) ==
  /\ At(p, "survey") /\ proc[p].todo = {} /\ indexLock = None
  /\ indexLock' = p
  /\ To(p, "list")
  /\ UNCHANGED <<files, index, lock, writes, faults, missed>>

(* getManifest, and what is made of it; listAssets and searchAssets do so of each       *)
(* asset in turn.  A reader repairs what it finds, and derives no index.                 *)
Read(a) ==
  /\ lock[a] = None /\ ~Readable(primary[a]) /\ Readable(backup[a])
  /\ primary' = Repaired(a) /\ log' = Reckoned(a)
  /\ UNCHANGED <<backup, index, lock, indexLock, proc, writes, faults, missed>>

-------------------------------------------------------------------------------
(* A process dies: the locks it holds are taken from it.                               *)
Die(p) ==
  /\ ~At(p, "idle") /\ faults < MaxFaults
  /\ faults' = faults + 1
  /\ missed' = (missed \/ proc[p].at # "write")
  /\ lock' = [a \in Asset |-> IF lock[a] = p THEN None ELSE lock[a]]
  /\ indexLock' = IF indexLock = p THEN None ELSE indexLock
  /\ End(p)
  /\ UNCHANGED <<files, index, writes>>

(* A manifest is damaged or removed while nobody writes it.                             *)
Damage(a) ==
  /\ Readable(primary[a]) /\ lock[a] = None /\ faults < MaxFaults
  /\ faults' = faults + 1 /\ missed' = TRUE
  /\ \E f \in {Missing, Broken} : primary' = [primary EXCEPT ![a] = f]
  /\ UNCHANGED <<backup, index, lock, indexLock, proc, writes, log>>

Next ==
  \/ \E p \in Proc :
       \/ \E a \in Asset : Create(p, a) \/ Change(p, a) \/ Scan(p, a)
       \/ Replace(p) \/ ReplaceFails(p) \/ Rebuild(p) \/ WriteIndex(p)
       \/ Recover(p) \/ LockSurveyed(p) \/ Die(p)
  \/ \E a \in Asset : Damage(a) \/ Read(a)

Spec == Init /\ [][Next]_vars

-------------------------------------------------------------------------------
Newest(s) == s[Len(s)]

IndexEntry == [latest : Version \union {None}, recommended : Version \union {None}, archived : BOOLEAN]
Manifests(f) ==
  (f \notin {Missing, Broken}) => DOMAIN f.versions \subseteq Version /\ f.asset \in IndexEntry
TypeOK ==
  /\ \A a \in Asset : Manifests(primary[a]) /\ Manifests(backup[a]) /\ lock[a] \in Proc \union {None}
  /\ DOMAIN index \subseteq Asset /\ indexLock \in Proc \union {None}
  /\ \A a \in DOMAIN index : index[a] \in IndexEntry
  /\ \A p \in Proc :
       /\ proc[p].at \in {"idle", "write", "rebuild", "scan", "survey", "list"}
       /\ At(p, "write") => lock[proc[p].asset] = p
       /\ proc[p].at \in {"scan", "list"} => indexLock = p

(* Whatever dies or is damaged, and whoever repairs it: an asset is read as it was     *)
(* written last, or if that file is damaged as it was before, never older, and never   *)
(* not at all once it has been changed.                                                 *)
OneChangeLost ==
  \A a \in Asset : Len(log[a]) > 0 =>
    \/ primary[a] = Newest(log[a])
    \/ ~Readable(primary[a]) /\ (Len(log[a]) = 1 \/ backup[a] \in {Newest(log[a]), log[a][Len(log[a]) - 1]})

(* When nobody is at work, and nobody died at it, the index lists what the manifests    *)
(* say, although it is derived from several files that change meanwhile.                *)
IndexAgrees ==
  (~missed /\ \A p \in Proc : At(p, "idle")) =>
    index = [a \in {b \in Asset : Readable(Reads(b))} |-> Reads(a).asset]

(* What the schema accepts of a version and of a manifest, which are parsed whenever    *)
(* they are read or written.                                                            *)
AcceptedVersion(x) == x.state = "READY" => x.final /\ x.print # None
AcceptedManifest(m) ==
  /\ \A v \in DOMAIN m.versions : AcceptedVersion(m.versions[v])
  /\ {m.asset.latest, m.asset.recommended} \subseteq DOMAIN m.versions \union {None}

(* Whatever has been done to an asset, its manifests can be read again; and the version *)
(* that is recommended is one that was accepted, and no draft of it.                    *)
ManifestsAreSound ==
  \A a \in Asset : \A m \in {primary[a], backup[a], Reads(a)} :
    Readable(m) => /\ AcceptedManifest(m)
                   /\ m.asset.recommended # None => m.versions[m.asset.recommended].state = "READY"
===============================================================================
