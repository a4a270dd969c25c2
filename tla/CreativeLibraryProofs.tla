------------------------- MODULE CreativeLibraryProofs -------------------------
(* Proofs about CreativeLibrary, for any number of assets, versions,            *)
(* fingerprints, processes, writes and faults, and about WorkspacePage, for any *)
(* number of projects, commands, openings, files, reloads and edits.            *)
EXTENDS CreativeLibrary, WorkspacePage, FiniteSetTheorems, SequenceTheorems, TLAPS

-------------------------------------------------------------------------------
(* What a file of an asset can be. *)
Entry == [state : {"DRAFT", "WORKING", "FAILED", "READY", "ARCHIVED"}, final : BOOLEAN,
          print : Fingerprint \union {None}]
Versions == UNION {[D -> Entry] : D \in SUBSET Version}
Manifest == [is : {"manifest"}, versions : Versions, asset : IndexEntry]

(* A manifest that can be read again, and that recommends what was accepted. *)
Good(m) ==
  /\ m \in Manifest
  /\ AcceptedManifest(m)
  /\ m.asset.recommended # None => m.versions[m.asset.recommended].state = "READY"

GoodManifest == {m \in Manifest : Good(m)}
File == {Missing, Broken} \union GoodManifest
Entries == UNION {[D -> IndexEntry] : D \in SUBSET Asset}

Places == {"idle", "write", "rebuild", "scan", "survey", "list"}
CallRecord == [at : Places, asset : Asset \union {None}, next : File, todo : SUBSET Asset, found : Entries]

LibraryTyped ==
  /\ primary \in [Asset -> File] /\ backup \in [Asset -> File]
  /\ index \in Entries
  /\ lock \in [Asset -> Proc \union {None}] /\ indexLock \in Proc \union {None}
  /\ proc \in [Proc -> CallRecord]
  /\ log \in [Asset -> Seq(GoodManifest)] /\ missed \in BOOLEAN

(* Who writes a manifest holds its lock, has something to write, and has copied *)
(* what its readers count on.                                                   *)
Locks ==
  \A p \in Proc :
    /\ At(p, "write") => /\ proc[p].asset \in Asset /\ proc[p].next \in GoodManifest
                         /\ lock[proc[p].asset] = p
    /\ proc[p].at \in {"scan", "list"} => indexLock = p

Copies ==
  \A p \in Proc : At(p, "write") /\ Len(log[proc[p].asset]) > 0
                  => backup[proc[p].asset] = Newest(log[proc[p].asset])

(* The file is what was written last or cannot be read, and the copy beside it is *)
(* that or the one before.                                                        *)
Logged(f, b, s) ==
  /\ Len(s) > 0 => f = Newest(s) \/ ~Readable(f)
  /\ Len(s) > 1 => b \in {Newest(s), s[Len(s) - 1]}

FilesAgree == \A a \in Asset : Logged(primary[a], backup[a], log[a])

LibraryInv == LibraryTyped /\ Locks /\ Copies /\ FilesAgree

(* The index.  Whether a list of assets says of a what its manifest says. *)
Listed(list, a) ==
  IF Readable(Reads(a)) THEN a \in DOMAIN list /\ list[a] = Reads(a).asset ELSE a \notin DOMAIN list

Surveys(p) == proc[p].at \in {"survey", "list"}
Lists(p)   == proc[p].at \in {"scan", "survey", "list"}

(* A scan lists only what it has looked at. *)
Afresh == \A p \in Proc : proc[p].todo \intersect DOMAIN proc[p].found = {}

(* A survey is made alone. *)
Solitude == \A p, q \in Proc : Surveys(p) /\ q # p => At(q, "idle")

(* Unless a rebuild was missed: one is still to begin, or what one has found and *)
(* has still to find is right, or there is none and the index is right.           *)
IndexFollows ==
  ~missed =>
    \/ \E p \in Proc : At(p, "rebuild")
    \/ \E p \in Proc : Lists(p) /\ \A a \in Asset : a \in proc[p].todo \/ Listed(proc[p].found, a)
    \/ (\A p \in Proc : ~Lists(p)) /\ \A a \in Asset : Listed(index, a)

AloneInv == Solitude /\ IndexFollows

-------------------------------------------------------------------------------
(* Manifests. *)
LEMMA VersionsAre ==
  ASSUME NEW f \in Versions
  PROVE  /\ DOMAIN f \in SUBSET Version /\ f \in [DOMAIN f -> Entry]
         /\ \A u \in DOMAIN f : f[u] \in Entry
<1>1. PICK D \in SUBSET Version : f \in [D -> Entry]
  BY DEF Versions
<1>2. QED
  BY <1>1

LEMMA VersionsMade ==
  ASSUME NEW D \in SUBSET Version, NEW f \in [D -> Entry]
  PROVE  f \in Versions
BY DEF Versions

LEMMA EntriesAre ==
  ASSUME NEW f \in Entries
  PROVE  DOMAIN f \in SUBSET Asset /\ f \in [DOMAIN f -> IndexEntry]
<1>1. PICK D \in SUBSET Asset : f \in [D -> IndexEntry]
  BY DEF Entries
<1>2. QED
  BY <1>1

LEMMA EntriesMade ==
  ASSUME NEW D \in SUBSET Asset, NEW f \in [D -> IndexEntry]
  PROVE  f \in Entries
BY DEF Entries

LEMMA WithIs ==
  ASSUME NEW m \in Manifest, NEW v \in Version, NEW x \in Entry
  PROVE  /\ With(m, v, x) \in Manifest
         /\ With(m, v, x).asset = m.asset
         /\ DOMAIN With(m, v, x).versions = DOMAIN m.versions \union {v}
         /\ With(m, v, x).versions[v] = x
         /\ \A u \in DOMAIN m.versions : u # v => With(m, v, x).versions[u] = m.versions[u]
<1> DEFINE D == DOMAIN m.versions \union {v}
           w == [u \in D |-> IF u = v THEN x ELSE m.versions[u]]
<1>1. m.versions \in Versions
  BY DEF Manifest
<1>2. D \in SUBSET Version /\ w \in [D -> Entry]
  BY <1>1, VersionsAre
<1>3. w \in Versions
  BY <1>2, VersionsMade
<1>4. /\ DOMAIN w = DOMAIN m.versions \union {v} /\ w[v] = x
      /\ \A u \in DOMAIN m.versions : u # v => w[u] = m.versions[u]
  OBVIOUS
<1>5. With(m, v, x) = [m EXCEPT !.versions = w]
  BY DEF With
<1> HIDE DEF w, D
<1>6. [m EXCEPT !.versions = w] \in Manifest /\ [m EXCEPT !.versions = w].asset = m.asset
      /\ [m EXCEPT !.versions = w].versions = w
  BY <1>3 DEF Manifest
<1>7. QED
  BY <1>4, <1>5, <1>6

(* The version v becomes x, which is accepted only with what that takes, and was *)
(* not accepted before.                                                          *)
LEMMA WithIsGood ==
  ASSUME NEW m \in GoodManifest, NEW v \in Version, NEW x \in Entry, AcceptedVersion(x),
         v \in DOMAIN m.versions => m.versions[v].state # "READY"
  PROVE  With(m, v, x) \in GoodManifest
<1> PICK n : n = With(m, v, x)
  OBVIOUS
<1>1. Good(m) /\ m \in Manifest
  BY DEF GoodManifest
<1>2. /\ n \in Manifest /\ n.asset = m.asset /\ DOMAIN n.versions = DOMAIN m.versions \union {v}
      /\ n.versions[v] = x /\ \A u \in DOMAIN m.versions : u # v => n.versions[u] = m.versions[u]
  BY <1>1, WithIs
<1>3. AcceptedManifest(n)
  BY <1>1, <1>2 DEF Good, AcceptedManifest
<1>4. ASSUME n.asset.recommended # None
      PROVE  n.versions[n.asset.recommended].state = "READY"
  <2>1. m.asset.recommended \in DOMAIN m.versions /\ m.versions[m.asset.recommended].state = "READY"
    BY <1>1, <1>2, <1>4 DEF Good, AcceptedManifest
  <2>2. m.asset.recommended # v
    BY <2>1
  <2>3. QED
    BY <1>2, <2>1, <2>2
<1>5. QED
  BY <1>2, <1>3, <1>4 DEF GoodManifest, Good

LEMMA MutableIsNotReady ==
  ASSUME NEW m \in GoodManifest, NEW v \in DOMAIN m.versions
  PROVE  /\ v \in Version /\ m.versions[v] \in Entry
         /\ Mutable(m, v) => m.versions[v].state # "READY"
<1>1. m.versions \in Versions
  BY DEF GoodManifest, Manifest
<1>2. QED
  BY <1>1, VersionsAre DEF Mutable, MutableStates

LEMMA ChildrenAreGood ==
  ASSUME NEW m \in GoodManifest, NEW n \in Children(m)
  PROVE  n \in GoodManifest
<1> DEFINE x == Fresh("DRAFT", FALSE, None)
<1>1. PICK v \in Version : v \notin DOMAIN m.versions /\ n = [With(m, v, x) EXCEPT !.asset.latest = v]
  BY DEF Children
<1>2. x \in Entry /\ AcceptedVersion(x)
  BY DEF Entry, Fresh, AcceptedVersion
<1> HIDE DEF x
<1> PICK k : k = With(m, v, x)
  OBVIOUS
<1>3. k \in GoodManifest
  BY <1>1, <1>2, WithIsGood
<1>4. v \in DOMAIN k.versions
  BY <1>2, WithIs DEF GoodManifest
<1>5. k \in Manifest /\ Good(k)
  BY <1>3 DEF GoodManifest
<1>6. /\ n \in Manifest /\ n.versions = k.versions
      /\ n.asset.latest = v /\ n.asset.recommended = k.asset.recommended
  BY <1>1, <1>5 DEF Manifest, IndexEntry
<1>7. QED
  BY <1>4, <1>5, <1>6 DEF GoodManifest, Good, AcceptedManifest

LEMMA UpdatesAreGood ==
  ASSUME NEW m \in GoodManifest, NEW n \in Updates(m) \union Attachments(m)
  PROVE  n \in GoodManifest
<1>1. CASE n \in Updates(m)
  <2>1. PICK v \in DOMAIN m.versions, s \in MutableStates, f \in BOOLEAN :
          Mutable(m, v) /\ n = With(m, v, Fresh(s, f, m.versions[v].print))
    BY <1>1 DEF Updates
  <2> DEFINE x == Fresh(s, f, m.versions[v].print)
  <2>2. x \in Entry /\ AcceptedVersion(x)
    BY MutableIsNotReady DEF Entry, Fresh, AcceptedVersion, MutableStates
  <2> HIDE DEF x
  <2>3. QED
    BY <2>1, <2>2, MutableIsNotReady, WithIsGood DEF x
<1>2. CASE n \in Attachments(m)
  <2>1. PICK v \in DOMAIN m.versions, f \in BOOLEAN :
          Mutable(m, v) /\ n = With(m, v, [m.versions[v] EXCEPT !.final = f])
    BY <1>2 DEF Attachments
  <2> DEFINE x == [m.versions[v] EXCEPT !.final = f]
  <2>2. v \in Version /\ m.versions[v] \in Entry /\ m.versions[v].state # "READY"
    BY <2>1, MutableIsNotReady
  <2>3. x \in Entry /\ x.state = m.versions[v].state
    BY <2>2 DEF Entry
  <2>4. AcceptedVersion(x)
    BY <2>2, <2>3 DEF AcceptedVersion
  <2> HIDE DEF x
  <2>5. QED
    BY <2>1, <2>2, <2>3, <2>4, WithIsGood DEF x
<1>3. QED
  BY <1>1, <1>2

LEMMA AcceptancesAreGood ==
  ASSUME NEW m \in GoodManifest, NEW n \in Acceptances(m)
  PROVE  n \in GoodManifest
<1>1. CASE n = m
  BY <1>1
<1>2. CASE n # m
  <2>1. PICK v \in DOMAIN m.versions, f \in Fingerprint :
          m.versions[v].state = "WORKING" /\ m.versions[v].final /\ n = Accepted(m, v, f)
    BY <1>2 DEF Acceptances
  <2> DEFINE x == [m.versions[v] EXCEPT !.state = "READY", !.print = f]
  <2>2. v \in Version /\ m.versions[v] \in Entry /\ m.versions[v].state # "READY"
    BY <2>1, MutableIsNotReady
  <2>3. x \in Entry /\ x.state = "READY" /\ x.final /\ x.print = f
    BY <2>1, <2>2 DEF Entry
  <2>4. AcceptedVersion(x)
    BY <2>3, NoneAssumption DEF AcceptedVersion
  <2> PICK k : k = With(m, v, x)
    OBVIOUS
  <2>5. k \in GoodManifest /\ v \in DOMAIN k.versions /\ k.versions[v] = x
    BY <2>2, <2>3, <2>4, WithIsGood, WithIs DEF GoodManifest
  <2>6. k \in Manifest /\ Good(k) /\ k.versions[v].state = "READY"
    BY <2>3, <2>5 DEF GoodManifest
  <2>7. n = [k EXCEPT !.asset.latest = v, !.asset.recommended = IF @ = None THEN v ELSE @]
    BY <2>1 DEF Accepted
  <2>8. /\ n \in Manifest /\ n.versions = k.versions /\ n.asset.latest = v
        /\ n.asset.recommended = IF k.asset.recommended = None THEN v ELSE k.asset.recommended
    BY <2>2, <2>6, <2>7 DEF Manifest, IndexEntry
  <2>9. QED
    BY <2>5, <2>6, <2>8 DEF GoodManifest, Good, AcceptedManifest
<1>3. QED
  BY <1>1, <1>2

LEMMA ArchivalsAreGood ==
  ASSUME NEW m \in GoodManifest, NEW n \in Archivals(m)
  PROVE  n \in GoodManifest
<1>1. CASE n = m
  BY <1>1
<1>2. CASE n = [m EXCEPT !.asset.archived = TRUE]
  <2>1. m \in Manifest /\ Good(m)
    BY DEF GoodManifest
  <2>2. /\ n \in Manifest /\ n.versions = m.versions
        /\ n.asset.latest = m.asset.latest /\ n.asset.recommended = m.asset.recommended
    BY <1>2, <2>1 DEF Manifest, IndexEntry
  <2>3. QED
    BY <2>1, <2>2 DEF GoodManifest, Good, AcceptedManifest
<1>3. CASE n # m /\ n # [m EXCEPT !.asset.archived = TRUE]
  <2>1. PICK v \in DOMAIN m.versions :
          Mutable(m, v) /\ n = With(m, v, [m.versions[v] EXCEPT !.state = "ARCHIVED"])
    BY <1>3 DEF Archivals
  <2> DEFINE x == [m.versions[v] EXCEPT !.state = "ARCHIVED"]
  <2>2. v \in Version /\ m.versions[v] \in Entry /\ m.versions[v].state # "READY"
    BY <2>1, MutableIsNotReady
  <2>3. x \in Entry /\ x.state = "ARCHIVED"
    BY <2>2 DEF Entry
  <2>4. AcceptedVersion(x)
    BY <2>3 DEF AcceptedVersion
  <2> HIDE DEF x
  <2>5. QED
    BY <2>1, <2>2, <2>3, <2>4, WithIsGood DEF x
<1>4. QED
  BY <1>1, <1>2, <1>3

LEMMA ChangesAreGood ==
  ASSUME NEW m \in GoodManifest, NEW n \in Changes(m)
  PROVE  n \in GoodManifest
BY ChildrenAreGood, UpdatesAreGood, AcceptancesAreGood, ArchivalsAreGood DEF Changes

LEMMA CreationsAreGood == Creations \subseteq GoodManifest
<1> SUFFICES ASSUME NEW n \in Creations PROVE n \in GoodManifest
  OBVIOUS
<1> PICK v : v = CHOOSE u \in Version : TRUE
  OBVIOUS
<1>1. v \in Version
  BY VersionAssumption
<1>2. CASE n = Of([u \in {} |-> None], None, None, FALSE)
  <2> DEFINE w == [u \in {} |-> None]
  <2>1. w \in [{} -> Entry] /\ DOMAIN w = {}
    OBVIOUS
  <2>2. {} \in SUBSET Version
    OBVIOUS
  <2>3. w \in Versions
    BY <2>1, <2>2, VersionsMade
  <2>4. n = Of(w, None, None, FALSE)
    BY <1>2
  <2> HIDE DEF w
  <2>5. n.is = "manifest" /\ n.versions = w /\ n.asset.recommended = None /\ n.asset.latest = None /\ n \in Manifest
    BY <2>3, <2>4 DEF Of, Manifest, IndexEntry
  <2>6. QED
    BY <2>1, <2>5 DEF GoodManifest, Good, AcceptedManifest
<1>3. ASSUME NEW x \in Entry, NEW r \in {v, None}, n = Of([u \in {v} |-> x], v, r, FALSE),
             AcceptedVersion(x), r = v => x.state = "READY"
      PROVE  n \in GoodManifest
  <2> DEFINE w == [u \in {v} |-> x]
  <2>1. w \in [{v} -> Entry] /\ DOMAIN w = {v} /\ w[v] = x
    OBVIOUS
  <2>2. {v} \in SUBSET Version
    BY <1>1
  <2>3. w \in Versions
    BY <2>1, <2>2, VersionsMade
  <2>4. n = Of(w, v, r, FALSE)
    BY <1>3
  <2> HIDE DEF w
  <2>5. n.versions = w /\ n.asset.recommended = r /\ n.asset.latest = v /\ n \in Manifest
    BY <1>1, <2>3, <2>4 DEF Of, Manifest, IndexEntry
  <2>6. QED
    BY <1>3, <2>1, <2>5 DEF GoodManifest, Good, AcceptedManifest
<1>4. CASE n = Of([u \in {v} |-> Fresh("DRAFT", FALSE, None)], v, None, FALSE)
  <2>1. Fresh("DRAFT", FALSE, None) \in Entry /\ AcceptedVersion(Fresh("DRAFT", FALSE, None))
    BY DEF Fresh, Entry, AcceptedVersion
  <2>2. None # v
    BY <1>1, NoneAssumption
  <2>3. QED
    BY <1>3, <1>4, <2>1, <2>2
<1>5. CASE \E f \in Fingerprint : n = Of([u \in {v} |-> Fresh("READY", TRUE, f)], v, v, FALSE)
  <2>1. PICK f \in Fingerprint : n = Of([u \in {v} |-> Fresh("READY", TRUE, f)], v, v, FALSE)
    BY <1>5
  <2>2. /\ Fresh("READY", TRUE, f) \in Entry /\ Fresh("READY", TRUE, f).state = "READY"
        /\ AcceptedVersion(Fresh("READY", TRUE, f))
    BY NoneAssumption DEF Fresh, Entry, AcceptedVersion
  <2>3. QED
    BY <1>3, <2>1, <2>2
<1>6. QED
  BY <1>2, <1>4, <1>5 DEF Creations
-------------------------------------------------------------------------------
(* Files. *)
LEMMA FileKinds ==
  /\ ~Readable(Missing) /\ ~Readable(Broken) /\ Missing # Broken
  /\ \A m \in GoodManifest : Readable(m) /\ m \in File
  /\ \A f \in File : Readable(f) => f \in GoodManifest
  /\ Missing \in File /\ Broken \in File
BY DEF Readable, Missing, Broken, File, GoodManifest, Manifest

LEMMA AppendIs ==
  ASSUME NEW S, NEW s \in Seq(S), NEW x \in S
  PROVE  /\ Append(s, x) \in Seq(S) /\ Len(Append(s, x)) = Len(s) + 1 /\ Len(s) \in Nat
         /\ Newest(Append(s, x)) = x
         /\ Len(s) > 0 => Append(s, x)[Len(Append(s, x)) - 1] = Newest(s)
BY DEF Newest

LEMMA ReadsIs ==
  ASSUME LibraryInv, NEW a \in Asset
  PROVE  /\ Reads(a) \in File
         /\ Readable(primary[a]) => Reads(a) = primary[a]
         /\ ~Readable(primary[a]) /\ Readable(backup[a]) => Reads(a) = backup[a]
         /\ ~Readable(primary[a]) /\ ~Readable(backup[a]) => Reads(a) = primary[a]
BY DEF LibraryInv, LibraryTyped, Reads

(* A repair leaves what is read as it was; and now the file says so. *)
LEMMA RepairIs ==
  ASSUME LibraryInv, NEW a \in Asset
  PROVE  /\ Repaired(a) \in [Asset -> File] /\ Repaired(a)[a] = Reads(a)
         /\ \A b \in Asset : b # a => Repaired(a)[b] = primary[b] /\ Reckoned(a)[b] = log[b]
         /\ Reckoned(a) \in [Asset -> Seq(GoodManifest)]
         /\ Logged(Reads(a), backup[a], Reckoned(a)[a])
         /\ Readable(Reads(a)) /\ Len(Reckoned(a)[a]) > 0 => Reads(a) = Newest(Reckoned(a)[a])
<1>1. /\ primary \in [Asset -> File] /\ backup \in [Asset -> File] /\ log \in [Asset -> Seq(GoodManifest)]
      /\ Logged(primary[a], backup[a], log[a])
  BY DEF LibraryInv, LibraryTyped, FilesAgree
<1>2. Repaired(a) \in [Asset -> File] /\ Repaired(a)[a] = Reads(a) /\ \A b \in Asset : b # a => Repaired(a)[b] = primary[b]
  BY <1>1, ReadsIs DEF Repaired
<1>3. CASE ~Readable(primary[a]) /\ Readable(backup[a])
  <2> DEFINE s == Append(log[a], backup[a])
  <2>1. backup[a] \in GoodManifest
    BY <1>1, <1>3, FileKinds
  <2>2. Reads(a) = backup[a] /\ Reckoned(a) = [log EXCEPT ![a] = s]
    BY <1>3, ReadsIs DEF Reckoned
  <2>3. s \in Seq(GoodManifest) /\ Newest(s) = backup[a]
    BY <1>1, <2>1, AppendIs
  <2> HIDE DEF s
  <2>4. /\ Reckoned(a) \in [Asset -> Seq(GoodManifest)] /\ Reckoned(a)[a] = s
        /\ \A b \in Asset : b # a => Reckoned(a)[b] = log[b]
    BY <1>1, <2>2, <2>3
  <2>5. QED
    BY <1>2, <2>2, <2>3, <2>4 DEF Logged
<1>4. CASE Readable(primary[a]) \/ ~Readable(backup[a])
  <2>1. Reads(a) = primary[a] /\ Reckoned(a) = log
    BY <1>4, ReadsIs DEF Reckoned
  <2>2. QED
    BY <1>1, <1>2, <2>1 DEF Logged
<1>5. QED
  BY <1>3, <1>4

LEMMA ReadsStay ==
  ASSUME LibraryInv, NEW a \in Asset, primary' = Repaired(a), backup' = backup
  PROVE  \A b \in Asset : Reads(b)' = Reads(b)
<1> SUFFICES ASSUME NEW b \in Asset PROVE Reads(b)' = Reads(b)
  OBVIOUS
<1>1. CASE b = a
  BY <1>1, RepairIs, ReadsIs DEF Reads
<1>2. CASE b # a
  BY <1>2, RepairIs DEF Reads
<1>3. QED
  BY <1>1, <1>2

-------------------------------------------------------------------------------
(* Calls. *)
LEMMA EmptyEntries == [a \in {} |-> None] \in Entries /\ DOMAIN [a \in {} |-> None] = {}
<1> DEFINE w == [a \in {} |-> None]
<1>1. w \in [{} -> IndexEntry] /\ DOMAIN w = {} /\ {} \in SUBSET Asset
  OBVIOUS
<1> HIDE DEF w
<1>2. w \in Entries
  BY <1>1, EntriesMade
<1>3. QED
  BY <1>1, <1>2 DEF w

LEMMA IdleIs ==
  /\ Idle \in CallRecord
  /\ Idle.at = "idle" /\ Idle.todo = {} /\ DOMAIN Idle.found = {}
<1> DEFINE w == [a \in {} |-> None]
           none == {}
<1>1. w \in Entries /\ DOMAIN w = {} /\ Idle = [at |-> "idle", asset |-> None, next |-> Missing, todo |-> none, found |-> w]
  BY EmptyEntries DEF Idle
<1>2. none \in SUBSET Asset /\ none = {}
  OBVIOUS
<1>3. Missing \in File
  BY FileKinds
<1> HIDE DEF w, none
<1>4. QED
  BY <1>1, <1>2, <1>3 DEF CallRecord, Places

LEMMA OneCall ==
  ASSUME LibraryTyped, NEW p \in Proc, NEW r \in CallRecord, proc' = [proc EXCEPT ![p] = r]
  PROVE  /\ proc' \in [Proc -> CallRecord] /\ proc'[p] = r
         /\ \A q \in Proc : q # p => proc'[q] = proc[q]
BY DEF LibraryTyped

(* Those that write go on as they did. *)
LEMMA WritersStay ==
  ASSUME LibraryInv,
         \A q \in Proc : proc'[q].at = "write" =>
           /\ proc'[q] = proc[q] /\ lock'[proc[q].asset] = lock[proc[q].asset]
           /\ backup'[proc[q].asset] = backup[proc[q].asset] /\ log'[proc[q].asset] = log[proc[q].asset],
         \A q \in Proc : proc'[q].at \in {"scan", "list"} => indexLock' = q
  PROVE  Locks' /\ Copies'
BY DEF LibraryInv, Locks, Copies, At

(* Nobody writes an asset whose lock is free. *)
LEMMA NobodyWrites ==
  ASSUME LibraryInv, NEW a \in Asset, lock[a] = None, NEW q \in Proc, proc[q].at = "write"
  PROVE  proc[q].asset # a
BY NoneAssumption DEF LibraryInv, Locks, At
-------------------------------------------------------------------------------
(* The steps. *)
PreparesFrom(p, a, m, f, s) ==
  /\ At(p, "idle") /\ lock[a] = None
  /\ proc' = [proc EXCEPT ![p] = [Idle EXCEPT !.at = "write", !.asset = a, !.next = m]]
  /\ lock' = [lock EXCEPT ![a] = p]
  /\ primary' = [primary EXCEPT ![a] = f] /\ log' = [log EXCEPT ![a] = s]
  /\ UNCHANGED <<index, indexLock, missed>>

LEMMA WriterIs ==
  ASSUME LibraryInv, NEW p \in Proc, NEW a \in Asset, NEW m \in GoodManifest,
         proc' = [proc EXCEPT ![p] = [Idle EXCEPT !.at = "write", !.asset = a, !.next = m]]
  PROVE  /\ proc' \in [Proc -> CallRecord]
         /\ proc'[p].at = "write" /\ proc'[p].asset = a /\ proc'[p].next = m
         /\ \A q \in Proc : q # p => proc'[q] = proc[q]
<1> DEFINE r == [Idle EXCEPT !.at = "write", !.asset = a, !.next = m]
<1>1. m \in File
  BY FileKinds
<1>2. r \in CallRecord /\ r.at = "write" /\ r.asset = a /\ r.next = m
  BY <1>1, IdleIs DEF CallRecord, Places
<1> HIDE DEF r
<1>3. proc' = [proc EXCEPT ![p] = r]
  BY DEF r
<1>4. QED
  BY <1>2, <1>3, OneCall DEF LibraryInv

LEMMA PrepareKeeps ==
  ASSUME LibraryInv, NEW p \in Proc, NEW a \in Asset, NEW m \in GoodManifest, NEW f \in File,
         NEW b \in File, NEW s \in Seq(GoodManifest),
         PreparesFrom(p, a, m, f, s), backup' = [backup EXCEPT ![a] = b],
         Logged(f, b, s), Len(s) > 0 => b = Newest(s)
  PROVE  LibraryInv'
<1>1. /\ proc' \in [Proc -> CallRecord]
      /\ proc'[p].at = "write" /\ proc'[p].asset = a /\ proc'[p].next = m
      /\ \A q \in Proc : q # p => proc'[q] = proc[q]
  BY WriterIs DEF PreparesFrom
<1>2. /\ primary \in [Asset -> File] /\ backup \in [Asset -> File] /\ log \in [Asset -> Seq(GoodManifest)]
      /\ lock \in [Asset -> Proc \union {None}]
  BY DEF LibraryInv, LibraryTyped
<1>3. /\ primary' \in [Asset -> File] /\ backup' \in [Asset -> File] /\ log' \in [Asset -> Seq(GoodManifest)]
      /\ lock' \in [Asset -> Proc \union {None}]
      /\ primary'[a] = f /\ backup'[a] = b /\ log'[a] = s /\ lock'[a] = p
      /\ \A c \in Asset : c # a => /\ primary'[c] = primary[c] /\ backup'[c] = backup[c]
                                   /\ log'[c] = log[c] /\ lock'[c] = lock[c]
  BY <1>2 DEF PreparesFrom
<1>4. LibraryTyped'
  BY <1>1, <1>3 DEF LibraryInv, LibraryTyped, PreparesFrom
<1>5. Locks'
  <2> SUFFICES ASSUME NEW q \in Proc
               PROVE  /\ proc'[q].at = "write" => /\ proc'[q].asset \in Asset /\ proc'[q].next \in GoodManifest
                                                  /\ lock'[proc'[q].asset] = q
                      /\ proc'[q].at \in {"scan", "list"} => indexLock' = q
    BY DEF Locks, At
  <2>1. CASE q = p
    BY <1>1, <1>3, <2>1
  <2>2. CASE q # p
    BY <1>1, <1>3, <2>2, NobodyWrites DEF PreparesFrom, LibraryInv, Locks, At
  <2>3. QED
    BY <2>1, <2>2
<1>6. Copies'
  <2> SUFFICES ASSUME NEW q \in Proc, proc'[q].at = "write", Len(log'[proc'[q].asset]) > 0
               PROVE  backup'[proc'[q].asset] = Newest(log'[proc'[q].asset])
    BY DEF Copies, At, Newest
  <2>1. CASE q = p
    BY <1>1, <1>3, <2>1
  <2>2. CASE q # p
    BY <1>1, <1>3, <2>2, NobodyWrites DEF PreparesFrom, LibraryInv, Locks, Copies, At
  <2>3. QED
    BY <2>1, <2>2
<1>7. FilesAgree'
  BY <1>3 DEF LibraryInv, FilesAgree
<1>8. QED
  BY <1>4, <1>5, <1>6, <1>7 DEF LibraryInv

LEMMA CreateKeeps ==
  ASSUME LibraryInv, NEW p \in Proc, NEW a \in Asset, Create(p, a)
  PROVE  LibraryInv'
<1>1. PICK m \in Creations : Prepare(p, a, m, Missing)
  BY DEF Create
<1>2. m \in GoodManifest
  BY CreationsAreGood
<1> DEFINE s == << >>
           f == primary[a]
           b == backup[a]
<1>3. s \in Seq(GoodManifest) /\ Len(s) = 0
  OBVIOUS
<1>4. /\ primary \in [Asset -> File] /\ backup \in [Asset -> File] /\ f \in File /\ b \in File
  BY DEF LibraryInv, LibraryTyped
<1>5. primary = [primary EXCEPT ![a] = f] /\ backup = [backup EXCEPT ![a] = b]
  BY <1>4
<1>6. primary' = primary /\ backup' = backup /\ log' = [log EXCEPT ![a] = s]
  BY <1>1 DEF Create, Prepare
<1> HIDE DEF s, f, b
<1>7. PreparesFrom(p, a, m, f, s) /\ backup' = [backup EXCEPT ![a] = b]
  BY <1>1, <1>5, <1>6 DEF Prepare, PreparesFrom
<1>8. Logged(f, b, s) /\ (Len(s) > 0 => b = Newest(s))
  BY <1>3 DEF Logged
<1>9. QED
  BY <1>2, <1>3, <1>4, <1>7, <1>8, PrepareKeeps

LEMMA ChangeKeeps ==
  ASSUME LibraryInv, NEW p \in Proc, NEW a \in Asset, Change(p, a)
  PROVE  LibraryInv'
<1> PICK f : f = Reads(a)
  OBVIOUS
<1> PICK s : s = Reckoned(a)[a]
  OBVIOUS
<1>1. PICK m \in Changes(f) : Prepare(p, a, m, f)
  BY DEF Change
<1>2. f \in File /\ Readable(f) /\ f # Missing /\ f \in GoodManifest
  BY ReadsIs, FileKinds DEF Change
<1>3. m \in GoodManifest
  BY <1>2, ChangesAreGood
<1>4. /\ s \in Seq(GoodManifest) /\ (Len(s) > 0 => f = Newest(s)) /\ Logged(f, backup[a], s)
      /\ Repaired(a)[a] = f /\ Repaired(a) \in [Asset -> File] /\ Reckoned(a) \in [Asset -> Seq(GoodManifest)]
      /\ \A b \in Asset : b # a => Repaired(a)[b] = primary[b] /\ Reckoned(a)[b] = log[b]
  BY <1>2, RepairIs
<1>5. Repaired(a) = [primary EXCEPT ![a] = f] /\ Reckoned(a) = [log EXCEPT ![a] = s]
  <2>1. primary \in [Asset -> File] /\ log \in [Asset -> Seq(GoodManifest)]
    BY DEF LibraryInv, LibraryTyped
  <2>2. QED
    BY <1>4, <2>1
<1>6. PreparesFrom(p, a, m, f, s) /\ backup' = [backup EXCEPT ![a] = f]
  BY <1>1, <1>2, <1>5 DEF Change, Prepare, PreparesFrom
<1>7. Logged(f, f, s)
  BY <1>4 DEF Logged
<1>8. QED
  BY <1>2, <1>3, <1>4, <1>6, <1>7, PrepareKeeps

LEMMA ReplaceKeeps ==
  ASSUME LibraryInv, NEW p \in Proc, Replace(p)
  PROVE  LibraryInv'
<1> PICK a : a = proc[p].asset
  OBVIOUS
<1> PICK m : m = proc[p].next
  OBVIOUS
<1> DEFINE s == Append(log[a], m)
           r == [Idle EXCEPT !.at = "rebuild"]
<1>1. a \in Asset /\ m \in GoodManifest /\ lock[a] = p /\ (Len(log[a]) > 0 => backup[a] = Newest(log[a]))
  BY DEF LibraryInv, Locks, Copies, Replace, At
<1>2. /\ primary' = [primary EXCEPT ![a] = m] /\ log' = [log EXCEPT ![a] = s]
      /\ lock' = [lock EXCEPT ![a] = None] /\ proc' = [proc EXCEPT ![p] = r]
      /\ UNCHANGED <<backup, index, indexLock, missed>>
  BY DEF Replace
<1>3. /\ primary \in [Asset -> File] /\ backup \in [Asset -> File] /\ log \in [Asset -> Seq(GoodManifest)]
      /\ lock \in [Asset -> Proc \union {None}]
  BY DEF LibraryInv, LibraryTyped
<1>4. /\ s \in Seq(GoodManifest) /\ Len(s) = Len(log[a]) + 1 /\ Newest(s) = m /\ Len(log[a]) \in Nat
      /\ (Len(log[a]) > 0 => s[Len(s) - 1] = Newest(log[a]))
  BY <1>1, <1>3, AppendIs
<1>5. r \in CallRecord /\ r.at = "rebuild"
  BY IdleIs DEF CallRecord, Places
<1> HIDE DEF s, r
<1>6. proc' \in [Proc -> CallRecord] /\ proc'[p] = r /\ \A q \in Proc : q # p => proc'[q] = proc[q]
  BY <1>2, <1>5, OneCall DEF LibraryInv
<1>7. m \in File
  BY <1>1, FileKinds
<1>8. /\ primary' \in [Asset -> File] /\ log' \in [Asset -> Seq(GoodManifest)] /\ lock' \in [Asset -> Proc \union {None}]
      /\ primary'[a] = m /\ log'[a] = s
      /\ \A c \in Asset : c # a => primary'[c] = primary[c] /\ log'[c] = log[c] /\ lock'[c] = lock[c]
  BY <1>1, <1>2, <1>3, <1>4, <1>7
<1>9. LibraryTyped'
  BY <1>2, <1>6, <1>8 DEF LibraryInv, LibraryTyped
<1>10. Locks' /\ Copies'
  <2>1. ASSUME NEW q \in Proc, proc'[q].at = "write"
        PROVE  q # p /\ proc'[q] = proc[q] /\ proc[q].asset \in Asset /\ proc[q].asset # a
    BY <1>1, <1>5, <1>6, <2>1 DEF LibraryInv, Locks, At
  <2>2. ASSUME NEW q \in Proc, proc'[q].at \in {"scan", "list"}
        PROVE  indexLock' = q
    BY <1>2, <1>5, <1>6, <2>2 DEF LibraryInv, Locks, At
  <2>3. QED
    BY <1>2, <1>8, <2>1, <2>2, WritersStay
<1>11. Logged(m, backup[a], s)
  BY <1>1, <1>4 DEF Logged
<1>12. FilesAgree'
  BY <1>2, <1>8, <1>11 DEF LibraryInv, FilesAgree
<1>13. QED
  BY <1>9, <1>10, <1>12 DEF LibraryInv
(* One call moves on, not to write; the manifests stay. *)
LEMMA MoveKeeps ==
  ASSUME LibraryInv, NEW p \in Proc, NEW r \in CallRecord, r.at # "write",
         proc' = [proc EXCEPT ![p] = r], UNCHANGED files,
         lock' \in [Asset -> Proc \union {None}],
         \A a \in Asset : lock[a] # p => lock'[a] = lock[a],
         index' \in Entries, missed' \in BOOLEAN, indexLock' \in Proc \union {None},
         r.at \in {"scan", "list"} => indexLock' = p,
         \A q \in Proc : q # p /\ indexLock = q => indexLock' = q \/ proc[q].at \notin {"scan", "list"}
  PROVE  LibraryInv'
<1>1. proc' \in [Proc -> CallRecord] /\ proc'[p] = r /\ \A q \in Proc : q # p => proc'[q] = proc[q]
  BY OneCall DEF LibraryInv
<1>2. LibraryTyped'
  BY <1>1 DEF LibraryInv, LibraryTyped, files
<1>3. FilesAgree'
  BY DEF LibraryInv, FilesAgree, files
<1>4. ASSUME NEW q \in Proc, proc'[q].at = "write"
      PROVE  proc'[q] = proc[q] /\ lock'[proc[q].asset] = lock[proc[q].asset]
  <2>1. q # p /\ proc'[q] = proc[q]
    BY <1>1, <1>4
  <2>2. proc[q].asset \in Asset /\ lock[proc[q].asset] = q
    BY <1>4, <2>1 DEF LibraryInv, Locks, At
  <2>3. QED
    BY <2>1, <2>2
<1>5. ASSUME NEW q \in Proc, proc'[q].at \in {"scan", "list"}
      PROVE  indexLock' = q
  BY <1>1, <1>5 DEF LibraryInv, Locks
<1>6. Locks' /\ Copies'
  BY <1>4, <1>5, WritersStay DEF files
<1>7. QED
  BY <1>2, <1>3, <1>6 DEF LibraryInv

LEMMA ReplaceFailsKeeps ==
  ASSUME LibraryInv, NEW p \in Proc, ReplaceFails(p)
  PROVE  LibraryInv'
<1>1. proc[p].asset \in Asset /\ lock[proc[p].asset] = p
  BY DEF LibraryInv, Locks, ReplaceFails, At
<1>2. /\ lock' \in [Asset -> Proc \union {None}]
      /\ \A a \in Asset : lock[a] # p => lock'[a] = lock[a]
  BY <1>1 DEF LibraryInv, LibraryTyped, ReplaceFails
<1>3. Idle \in CallRecord /\ Idle.at = "idle"
  BY IdleIs
<1>4. /\ proc' = [proc EXCEPT ![p] = Idle] /\ UNCHANGED <<files, index, indexLock, missed>>
  BY DEF ReplaceFails, End
<1>5. index \in Entries /\ missed \in BOOLEAN /\ indexLock \in Proc \union {None}
  BY DEF LibraryInv, LibraryTyped
<1>6. QED
  BY <1>2, <1>3, <1>4, <1>5, MoveKeeps

LEMMA DieKeeps ==
  ASSUME LibraryInv, NEW p \in Proc, Die(p)
  PROVE  LibraryInv'
<1>1. /\ lock' \in [Asset -> Proc \union {None}]
      /\ \A a \in Asset : lock[a] # p => lock'[a] = lock[a]
  BY DEF LibraryInv, LibraryTyped, Die
<1>2. Idle \in CallRecord /\ Idle.at = "idle"
  BY IdleIs
<1>3. /\ proc' = [proc EXCEPT ![p] = Idle] /\ UNCHANGED <<files, index>>
      /\ indexLock' = IF indexLock = p THEN None ELSE indexLock
  BY DEF Die, End
<1>4. index \in Entries /\ indexLock' \in Proc \union {None}
  BY <1>3 DEF LibraryInv, LibraryTyped
<1>5. missed' \in BOOLEAN
  BY DEF LibraryInv, LibraryTyped, Die
<1>6. QED
  BY <1>1, <1>2, <1>3, <1>4, <1>5, MoveKeeps

ScanStart == {a \in Asset : primary[a] # Missing \/ backup[a] # Missing}

LEMMA ScannerIs ==
  ASSUME NEW place \in Places
  PROVE  LET r == [Idle EXCEPT !.at = place, !.todo = ScanStart]
         IN  r \in CallRecord /\ r.at = place /\ r.todo = ScanStart /\ DOMAIN r.found = {}
<1> DEFINE t == ScanStart
<1>1. t \in SUBSET Asset
  BY DEF ScanStart
<1> HIDE DEF t
<1>2. LET r == [Idle EXCEPT !.at = place, !.todo = t]
      IN  r \in CallRecord /\ r.at = place /\ r.todo = t /\ DOMAIN r.found = {}
  BY <1>1, IdleIs DEF CallRecord
<1>3. QED
  BY <1>2 DEF t

LEMMA ScanningKeeps ==
  ASSUME LibraryInv, NEW p \in Proc, Rebuild(p) \/ Recover(p)
  PROVE  LibraryInv'
<1>1. PICK place \in {"scan", "survey"} :
        /\ Scanning(p, place)
        /\ \/ place = "scan" /\ indexLock = None /\ indexLock' = p
           \/ place = "survey" /\ UNCHANGED indexLock
  BY DEF Rebuild, Recover
<1>2. UNCHANGED <<files, index, lock>> /\ missed' = FALSE
  BY DEF Rebuild, Recover
<1> DEFINE r == [Idle EXCEPT !.at = place, !.todo = ScanStart]
<1>3. r \in CallRecord /\ r.at = place
  BY ScannerIs DEF Places
<1>4. proc' = [proc EXCEPT ![p] = r]
  BY <1>1 DEF Scanning, ScanStart
<1> HIDE DEF r
<1>5. /\ lock' \in [Asset -> Proc \union {None}] /\ index' \in Entries /\ indexLock \in Proc \union {None}
  BY <1>2 DEF LibraryInv, LibraryTyped
<1>6. QED
  BY <1>1, <1>2, <1>3, <1>4, <1>5, NoneAssumption, MoveKeeps

LEMMA WriteIndexKeeps ==
  ASSUME LibraryInv, NEW p \in Proc, WriteIndex(p)
  PROVE  LibraryInv'
<1>1. /\ proc' = [proc EXCEPT ![p] = Idle] /\ UNCHANGED <<files, lock, missed>>
      /\ index' = proc[p].found /\ indexLock' = None /\ proc[p].at \in {"scan", "list"}
  BY DEF WriteIndex, End
<1>2. Idle \in CallRecord /\ Idle.at = "idle"
  BY IdleIs
<1>3. proc[p].found \in Entries
  BY DEF LibraryInv, LibraryTyped, CallRecord
<1>4. lock \in [Asset -> Proc \union {None}] /\ missed \in BOOLEAN
  BY DEF LibraryInv, LibraryTyped
<1>5. indexLock = p
  BY <1>1 DEF LibraryInv, Locks
<1>6. QED
  BY <1>1, <1>2, <1>3, <1>4, <1>5, MoveKeeps

LEMMA LockSurveyedKeeps ==
  ASSUME LibraryInv, NEW p \in Proc, LockSurveyed(p)
  PROVE  LibraryInv'
<1> DEFINE r == [proc[p] EXCEPT !.at = "list"]
<1>1. proc[p] \in CallRecord
  BY DEF LibraryInv, LibraryTyped
<1>2. r \in CallRecord /\ r.at = "list"
  BY <1>1 DEF CallRecord, Places
<1>3. /\ proc' = [proc EXCEPT ![p] = r] /\ UNCHANGED <<files, index, lock, missed>>
      /\ indexLock = None /\ indexLock' = p
  BY DEF LockSurveyed, To
<1> HIDE DEF r
<1>4. lock \in [Asset -> Proc \union {None}] /\ missed \in BOOLEAN /\ index \in Entries
  BY DEF LibraryInv, LibraryTyped
<1>5. QED
  BY <1>2, <1>3, <1>4, NoneAssumption, MoveKeeps

(* The file of a is repaired, by nobody in particular or by one that scans. *)
LEMMA RepairKeeps ==
  ASSUME LibraryInv, NEW a \in Asset, lock[a] = None, primary' = Repaired(a), log' = Reckoned(a),
         UNCHANGED <<backup, index, lock, indexLock, missed>>,
         proc' \in [Proc -> CallRecord],
         \A q \in Proc : proc'[q] = proc[q] \/ (proc'[q].at = proc[q].at /\ proc[q].at \in {"scan", "survey"})
  PROVE  LibraryInv'
<1>1. /\ Repaired(a) \in [Asset -> File] /\ Repaired(a)[a] = Reads(a)
      /\ \A b \in Asset : b # a => Repaired(a)[b] = primary[b] /\ Reckoned(a)[b] = log[b]
      /\ Reckoned(a) \in [Asset -> Seq(GoodManifest)]
      /\ Logged(Reads(a), backup[a], Reckoned(a)[a])
  BY RepairIs
<1>2. LibraryTyped'
  BY <1>1 DEF LibraryInv, LibraryTyped
<1>3. FilesAgree'
  BY <1>1 DEF LibraryInv, FilesAgree
<1>4. ASSUME NEW q \in Proc, proc'[q].at = "write"
      PROVE  proc'[q] = proc[q] /\ log'[proc[q].asset] = log[proc[q].asset]
  <2>1. proc'[q] = proc[q]
    BY <1>4
  <2>2. proc[q].asset \in Asset /\ proc[q].asset # a
    BY <1>4, <2>1, NobodyWrites DEF LibraryInv, Locks, At
  <2>3. QED
    BY <1>1, <2>1, <2>2
<1>5. ASSUME NEW q \in Proc, proc'[q].at \in {"scan", "list"}
      PROVE  indexLock' = q
  <2>1. proc[q].at \in {"scan", "list"}
    BY <1>5
  <2>2. QED
    BY <2>1 DEF LibraryInv, Locks
<1>6. Locks' /\ Copies'
  BY <1>4, <1>5, WritersStay
<1>7. QED
  BY <1>2, <1>3, <1>6 DEF LibraryInv

(* What a scan knows of an asset after it has looked at it. *)
FoundNow(found, a) ==
  IF Readable(Reads(a)) THEN [b \in DOMAIN found \union {a} |-> IF b = a THEN Reads(a).asset ELSE found[b]]
  ELSE found

LEMMA FoundIs ==
  ASSUME LibraryInv, NEW f \in Entries, NEW a \in Asset
  PROVE  FoundNow(f, a) \in Entries
<1>1. CASE Readable(Reads(a))
  <2> DEFINE D == DOMAIN f \union {a}
             w == [b \in D |-> IF b = a THEN Reads(a).asset ELSE f[b]]
  <2>1. Reads(a).asset \in IndexEntry
    BY <1>1, ReadsIs, FileKinds DEF GoodManifest, Manifest
  <2>2. D \in SUBSET Asset /\ w \in [D -> IndexEntry]
    BY <2>1, EntriesAre
  <2>3. w \in Entries
    BY <2>2, EntriesMade
  <2>4. QED
    BY <1>1, <2>3 DEF FoundNow
<1>2. CASE ~Readable(Reads(a))
  BY <1>2 DEF FoundNow
<1>3. QED
  BY <1>1, <1>2

LEMMA ScanIs ==
  ASSUME LibraryInv, NEW p \in Proc, NEW a \in Asset, Scan(p, a)
  PROVE  /\ proc' \in [Proc -> CallRecord]
         /\ proc'[p].at = proc[p].at /\ proc'[p].todo = proc[p].todo \ {a}
         /\ proc'[p].found = FoundNow(proc[p].found, a)
         /\ \A q \in Proc : q # p => proc'[q] = proc[q]
<1> PICK t : t = proc[p].todo \ {a}
  OBVIOUS
<1> PICK f : f = FoundNow(proc[p].found, a)
  OBVIOUS
<1>1. proc[p] \in CallRecord
  BY DEF LibraryInv, LibraryTyped
<1>2. t \in SUBSET Asset /\ f \in Entries
  BY <1>1, FoundIs DEF CallRecord
<1> DEFINE r == [proc[p] EXCEPT !.todo = t, !.found = f]
<1>3. r \in CallRecord /\ r.at = proc[p].at /\ r.todo = t /\ r.found = f
  BY <1>1, <1>2 DEF CallRecord
<1>4. proc' = [proc EXCEPT ![p] = r]
  BY DEF Scan, FoundNow
<1> HIDE DEF r
<1>5. QED
  BY <1>3, <1>4, OneCall DEF LibraryInv

LEMMA ScanKeeps ==
  ASSUME LibraryInv, NEW p \in Proc, NEW a \in Asset, Scan(p, a)
  PROVE  LibraryInv'
<1>1. /\ proc' \in [Proc -> CallRecord] /\ proc'[p].at = proc[p].at /\ proc[p].at \in {"scan", "survey"}
      /\ \A q \in Proc : q # p => proc'[q] = proc[q]
  BY ScanIs DEF Scan
<1>2. QED
  BY <1>1, RepairKeeps DEF Scan

LEMMA ReadKeeps ==
  ASSUME LibraryInv, NEW a \in Asset, Read(a)
  PROVE  LibraryInv'
<1>1. proc' = proc /\ proc \in [Proc -> CallRecord]
  BY DEF Read, LibraryInv, LibraryTyped
<1>2. QED
  BY <1>1, RepairKeeps DEF Read

LEMMA DamageKeeps ==
  ASSUME LibraryInv, NEW a \in Asset, Damage(a)
  PROVE  LibraryInv'
<1>1. PICK f \in {Missing, Broken} : primary' = [primary EXCEPT ![a] = f]
  BY DEF Damage
<1>2. UNCHANGED <<backup, index, lock, indexLock, proc, log>> /\ missed' = TRUE
  BY DEF Damage
<1>3. f \in File /\ ~Readable(f)
  BY FileKinds
<1>4. /\ primary' \in [Asset -> File] /\ primary'[a] = f
      /\ \A c \in Asset : c # a => primary'[c] = primary[c]
  BY <1>1, <1>3 DEF LibraryInv, LibraryTyped
<1>5. LibraryTyped'
  BY <1>2, <1>4 DEF LibraryInv, LibraryTyped
<1>6. Locks' /\ Copies'
  BY <1>2 DEF LibraryInv, Locks, Copies, At, Newest
<1>7. FilesAgree'
  BY <1>2, <1>3, <1>4 DEF LibraryInv, FilesAgree, Logged
<1>8. QED
  BY <1>5, <1>6, <1>7 DEF LibraryInv
-------------------------------------------------------------------------------
LEMMA LibraryInit == Init => LibraryInv
<1> SUFFICES ASSUME Init PROVE LibraryInv
  OBVIOUS
<1>1. Missing \in File /\ ~Readable(Missing)
  BY FileKinds
<1>2. index \in Entries
  BY EmptyEntries DEF Init
<1>3. << >> \in Seq(GoodManifest) /\ Len(<< >>) = 0
  OBVIOUS
<1>4. log \in [Asset -> Seq(GoodManifest)] /\ \A a \in Asset : Len(log[a]) = 0
  BY <1>3 DEF Init
<1>5. proc \in [Proc -> CallRecord] /\ \A p \in Proc : proc[p].at = "idle"
  BY IdleIs DEF Init
<1>6. LibraryTyped
  BY <1>1, <1>2, <1>4, <1>5 DEF Init, LibraryTyped
<1>7. Locks /\ Copies /\ FilesAgree
  BY <1>4, <1>5 DEF Locks, Copies, FilesAgree, Logged, At
<1>8. QED
  BY <1>6, <1>7 DEF LibraryInv

LEMMA LibraryStutter == LibraryInv /\ UNCHANGED vars => LibraryInv'
<1> SUFFICES ASSUME LibraryInv, UNCHANGED vars PROVE LibraryInv'
  OBVIOUS
<1> USE DEF vars
<1>1. LibraryTyped' /\ Locks' /\ Copies' /\ FilesAgree'
  BY DEF LibraryInv, LibraryTyped, Locks, Copies, FilesAgree, At
<1>2. QED
  BY <1>1 DEF LibraryInv

LEMMA LibraryNext == LibraryInv /\ [Next]_vars => LibraryInv'
<1> SUFFICES ASSUME LibraryInv, [Next]_vars PROVE LibraryInv'
  OBVIOUS
<1>1. ASSUME NEW p \in Proc, NEW a \in Asset, Create(p, a) \/ Change(p, a) \/ Scan(p, a)
      PROVE  LibraryInv'
  BY <1>1, CreateKeeps, ChangeKeeps, ScanKeeps
<1>2. ASSUME NEW p \in Proc, Replace(p) \/ ReplaceFails(p) \/ Rebuild(p) \/ WriteIndex(p)
      PROVE  LibraryInv'
  BY <1>2, ReplaceKeeps, ReplaceFailsKeeps, ScanningKeeps, WriteIndexKeeps
<1>3. ASSUME NEW p \in Proc, Recover(p) \/ LockSurveyed(p) \/ Die(p)
      PROVE  LibraryInv'
  BY <1>3, ScanningKeeps, LockSurveyedKeeps, DieKeeps
<1>4. ASSUME NEW a \in Asset, Damage(a) \/ Read(a)
      PROVE  LibraryInv'
  BY <1>4, DamageKeeps, ReadKeeps
<1>5. QED
  BY <1>1, <1>2, <1>3, <1>4, LibraryStutter DEF Next

(* The library's files, and who is at work on them, in every state. *)
THEOREM AlwaysSound == Spec => []LibraryInv
BY LibraryInit, LibraryNext, PTL DEF Spec

(* The records are of their types, a manifest is written under its lock and an    *)
(* index under the index's.                                                       *)
THEOREM TypeCorrect == Spec => []TypeOK
<1>1. LibraryInv => TypeOK
  <2> SUFFICES ASSUME LibraryInv PROVE TypeOK
    OBVIOUS
  <2>1. ASSUME NEW f \in File PROVE Manifests(f)
    <3>1. CASE f \in GoodManifest
      <4>1. f.versions \in Versions /\ f.asset \in IndexEntry
        BY <3>1 DEF GoodManifest, Manifest
      <4>2. QED
        BY <4>1, VersionsAre DEF Manifests
    <3>2. CASE f \in {Missing, Broken}
      BY <3>2 DEF Manifests
    <3>3. QED
      BY <3>1, <3>2 DEF File
  <2>2. \A a \in Asset : primary[a] \in File /\ backup[a] \in File /\ lock[a] \in Proc \union {None}
    BY DEF LibraryInv, LibraryTyped
  <2>3. DOMAIN index \subseteq Asset /\ indexLock \in Proc \union {None} /\ \A a \in DOMAIN index : index[a] \in IndexEntry
    BY EntriesAre DEF LibraryInv, LibraryTyped
  <2>4. \A p \in Proc : proc[p].at \in {"idle", "write", "rebuild", "scan", "survey", "list"}
    BY DEF LibraryInv, LibraryTyped, CallRecord, Places
  <2>5. \A p \in Proc : /\ At(p, "write") => lock[proc[p].asset] = p
                        /\ proc[p].at \in {"scan", "list"} => indexLock = p
    BY DEF LibraryInv, Locks
  <2>6. QED
    BY <2>1, <2>2, <2>3, <2>4, <2>5 DEF TypeOK
<1>2. QED
  BY <1>1, AlwaysSound, PTL

(* Of an asset that was written, there is one writing or there are more.           *)
LEMMA OneOrMore == \A n \in Nat : n > 0 => n = 1 \/ n > 1
OBVIOUS

(* Whatever dies, fails or is damaged and whoever repairs it: an asset's file is   *)
(* what was written last, or cannot be read while the copy beside it is that or    *)
(* what was written before; of an asset written once there may be no copy yet.     *)
THEOREM AtMostOneChangeLost == Spec => []OneChangeLost
<1>1. LibraryInv => OneChangeLost
  <2> SUFFICES ASSUME LibraryInv, NEW a \in Asset, Len(log[a]) > 0
               PROVE  \/ primary[a] = Newest(log[a])
                      \/ ~Readable(primary[a]) /\ (Len(log[a]) = 1 \/ backup[a] \in {Newest(log[a]), log[a][Len(log[a]) - 1]})
    BY DEF OneChangeLost
  <2>1. Logged(primary[a], backup[a], log[a])
    BY DEF LibraryInv, FilesAgree
  <2> PICK n : n = Len(log[a])
    OBVIOUS
  <2>2. n > 0 /\ (n = 1 \/ n > 1)
    <3>1. log[a] \in Seq(GoodManifest)
      BY DEF LibraryInv, LibraryTyped
    <3>2. n \in Nat
      BY <3>1
    <3>3. n > 0
      OBVIOUS
    <3>4. QED
      BY <3>2, <3>3, OneOrMore
  <2>3. /\ primary[a] = Newest(log[a]) \/ ~Readable(primary[a])
        /\ n > 1 => backup[a] \in {Newest(log[a]), log[a][Len(log[a]) - 1]}
    BY <2>1, <2>2 DEF Logged
  <2>4. QED
    BY <2>2, <2>3, Zenon
<1>2. QED
  BY <1>1, AlwaysSound, PTL

(* Every manifest that is or was there, and every one that a reader takes from a   *)
(* backup, is one the schema accepts, and recommends a version that was accepted   *)
(* and has not been changed since.                                                 *)
THEOREM ManifestsStaySound == Spec => []ManifestsAreSound
<1>1. LibraryInv => ManifestsAreSound
  <2> SUFFICES ASSUME LibraryInv, NEW a \in Asset, NEW m \in {primary[a], backup[a], Reads(a)}, Readable(m)
               PROVE  /\ AcceptedManifest(m)
                      /\ m.asset.recommended # None => m.versions[m.asset.recommended].state = "READY"
    BY DEF ManifestsAreSound
  <2>1. m \in File
    BY ReadsIs DEF LibraryInv, LibraryTyped
  <2>2. m \in GoodManifest
    BY <2>1, FileKinds
  <2>3. QED
    BY <2>2 DEF GoodManifest, Good
<1>2. QED
  BY <1>1, AlwaysSound, PTL

-------------------------------------------------------------------------------
(* The index.                                                                      *)

(* A list says of an asset what it said, while the asset is read as it was.        *)
LEMMA ListedStays ==
  ASSUME NEW a \in Asset, Reads(a)' = Reads(a), NEW list
  PROVE  Listed(list, a)' <=> Listed(list, a)
BY DEF Listed

(* At most one call lists the assets.                                              *)
LEMMA OneLists ==
  ASSUME LibraryInv, Solitude, NEW p \in Proc, NEW q \in Proc, Lists(p), Lists(q)
  PROVE  p = q
<1>1. CASE Surveys(p) \/ Surveys(q)
  BY <1>1 DEF Solitude, Surveys, Lists, At
<1>2. CASE ~Surveys(p) /\ ~Surveys(q)
  BY <1>2 DEF Surveys, Lists, LibraryInv, Locks
<1>3. QED
  BY <1>1, <1>2

LEMMA SolitudeStays ==
  ASSUME Solitude, NEW p \in Proc, ~At(p, "idle"), Surveys(p)' => Surveys(p),
         \A q \in Proc : q # p => proc'[q] = proc[q]
  PROVE  Solitude'
<1> SUFFICES ASSUME NEW x \in Proc, NEW y \in Proc, proc'[x].at \in {"survey", "list"}, y # x
             PROVE  proc'[y].at = "idle"
  BY DEF Solitude, Surveys, At
<1>1. CASE x = p
  BY <1>1 DEF Solitude, Surveys, At
<1>2. CASE x # p
  BY <1>2 DEF Solitude, Surveys, At
<1>3. QED
  BY <1>1, <1>2

(* The three ways in which the index is, or will be, right. *)
Begins     == \E p \in Proc : At(p, "rebuild")
Goes       == \E p \in Proc : Lists(p) /\ \A a \in Asset : a \in proc[p].todo \/ Listed(proc[p].found, a)
IsComplete == (\A p \in Proc : ~Lists(p)) /\ \A a \in Asset : Listed(index, a)

LEMMA FollowsIs == IndexFollows <=> (~missed => Begins \/ Goes \/ IsComplete)
BY DEF IndexFollows, Begins, Goes, IsComplete

(* A call moves on that has nothing to do with the index, and what is read of the *)
(* assets stays.                                                                   *)
LEMMA FollowsStays ==
  ASSUME IndexFollows, NEW p \in Proc, ~missed' => ~missed,
         \A q \in Proc : q # p => proc'[q] = proc[q],
         ~Lists(p), ~At(p, "rebuild"), ~Lists(p)', index' = index,
         \A a \in Asset : Reads(a)' = Reads(a)
  PROVE  IndexFollows'
<1> SUFFICES ASSUME ~missed' PROVE Begins' \/ Goes' \/ IsComplete'
  BY DEF IndexFollows, Begins, Goes, IsComplete
<1>1. Begins \/ Goes \/ IsComplete
  BY FollowsIs
<1>2. CASE Begins
  <2>1. PICK q \in Proc : At(q, "rebuild")
    BY <1>2 DEF Begins
  <2>2. proc'[q] = proc[q]
    BY <2>1
  <2>3. QED
    BY <2>1, <2>2 DEF Begins, At
<1>3. CASE Goes
  <2>1. PICK q \in Proc : Lists(q) /\ \A a \in Asset : a \in proc[q].todo \/ Listed(proc[q].found, a)
    BY <1>3 DEF Goes
  <2> PICK f : f = proc[q].found
    OBVIOUS
  <2>2. proc'[q] = proc[q]
    BY <2>1
  <2>3. \A a \in Asset : Listed(f, a)' <=> Listed(f, a)
    BY ListedStays
  <2>4. proc'[q].found = f /\ Lists(q)' /\ \A a \in Asset : a \in proc'[q].todo \/ Listed(f, a)'
    BY <2>1, <2>2, <2>3 DEF Lists
  <2>5. QED
    BY <2>4 DEF Goes, Listed
<1>4. CASE IsComplete
  <2>1. \A q \in Proc : ~Lists(q)'
    BY <1>4 DEF IsComplete, Lists
  <2> PICK f : f = index
    OBVIOUS
  <2>2. \A a \in Asset : Listed(f, a)'
    BY <1>4, ListedStays DEF IsComplete
  <2>3. index' = f
    OBVIOUS
  <2>4. QED
    BY <2>1, <2>2, <2>3 DEF IsComplete, Listed
<1>5. QED
  BY <1>1, <1>2, <1>3, <1>4

LEMMA PrepareAlone ==
  ASSUME RecoversAlone, LibraryInv, AloneInv, NEW p \in Proc, NEW a \in Asset, Create(p, a) \/ Change(p, a)
  PROVE  AloneInv'
<1>1. \E m, b : Prepare(p, a, m, b)
  <2>1. CASE Create(p, a)
    BY <2>1 DEF Create
  <2>2. CASE Change(p, a)
    BY <2>2 DEF Change
  <2>3. QED
    BY <2>1, <2>2
<1> PICK m, b : Prepare(p, a, m, b)
  BY <1>1
<1>2. /\ At(p, "idle") /\ (\A q \in Proc : ~Surveys(q)) /\ UNCHANGED <<index, missed>>
      /\ proc' = [proc EXCEPT ![p] = [Idle EXCEPT !.at = "write", !.asset = a, !.next = m]]
  BY DEF Prepare, Surveys
<1>3. proc'[p].at = "write" /\ \A q \in Proc : q # p => proc'[q] = proc[q]
  BY <1>2 DEF LibraryInv, LibraryTyped, Idle
<1>4. Solitude'
  <2>1. \A q \in Proc : ~Surveys(q)'
    BY <1>2, <1>3 DEF Surveys
  <2>2. QED
    BY <2>1 DEF Solitude
<1>5. \A c \in Asset : Reads(c)' = Reads(c)
  <2>1. CASE Create(p, a)
    <3>1. primary' = primary /\ backup' = backup
      BY <2>1 DEF Create, Prepare
    <3>2. QED
      BY <3>1 DEF Reads
  <2>2. CASE Change(p, a)
    <3>1. /\ primary' = Repaired(a) /\ Readable(Reads(a)) /\ primary' \in [Asset -> File] /\ primary'[a] = Reads(a)
          /\ \A c \in Asset : c # a => primary'[c] = primary[c]
      BY <2>2, RepairIs DEF Change
    <3>2. \A c \in Asset : c # a => backup'[c] = backup[c]
      BY <2>2 DEF Change, Prepare, LibraryInv, LibraryTyped
    <3>3. Reads(a)' = Reads(a)
      BY <3>1 DEF Reads
    <3>4. \A c \in Asset : c # a => Reads(c)' = Reads(c)
      BY <3>1, <3>2 DEF Reads
    <3>5. QED
      BY <3>3, <3>4
  <2>3. QED
    BY <2>1, <2>2
<1>6. ~Lists(p) /\ ~At(p, "rebuild") /\ ~Lists(p)'
  BY <1>2, <1>3 DEF Lists, At
<1>7. IndexFollows'
  BY <1>2, <1>3, <1>5, <1>6, FollowsStays DEF AloneInv
<1>8. QED
  BY <1>4, <1>7 DEF AloneInv

(* Once a manifest is replaced, a rebuild is to begin. *)
LEMMA ReplaceAlone ==
  ASSUME LibraryInv, AloneInv, NEW p \in Proc, Replace(p)
  PROVE  AloneInv'
<1>1. /\ At(p, "write") /\ proc'[p].at = "rebuild" /\ \A q \in Proc : q # p => proc'[q] = proc[q]
  BY DEF Replace, LibraryInv, LibraryTyped, Idle
<1>2. Solitude'
  BY <1>1, SolitudeStays DEF AloneInv, Surveys, At
<1>3. IndexFollows'
  BY <1>1 DEF IndexFollows, At
<1>4. QED
  BY <1>2, <1>3 DEF AloneInv

LEMMA ReplaceFailsAlone ==
  ASSUME LibraryInv, AloneInv, NEW p \in Proc, ReplaceFails(p)
  PROVE  AloneInv'
<1>1. /\ At(p, "write") /\ proc'[p].at = "idle" /\ \A q \in Proc : q # p => proc'[q] = proc[q]
  BY DEF ReplaceFails, End, LibraryInv, LibraryTyped, Idle
<1>2. Solitude'
  BY <1>1, SolitudeStays DEF AloneInv, Surveys, At
<1>3. \A a \in Asset : Reads(a)' = Reads(a)
  BY DEF ReplaceFails, files, Reads
<1>4. ~Lists(p) /\ ~At(p, "rebuild") /\ ~Lists(p)'
  BY <1>1 DEF Lists, At
<1>5. missed' = missed /\ index' = index
  BY DEF ReplaceFails
<1>6. IndexFollows'
  BY <1>1, <1>3, <1>4, <1>5, FollowsStays DEF AloneInv
<1>7. QED
  BY <1>2, <1>6 DEF AloneInv

LEMMA DieAlone ==
  ASSUME LibraryInv, AloneInv, NEW p \in Proc, Die(p)
  PROVE  AloneInv'
<1>1. /\ ~At(p, "idle") /\ proc'[p].at = "idle" /\ \A q \in Proc : q # p => proc'[q] = proc[q]
  BY DEF Die, End, LibraryInv, LibraryTyped, Idle
<1>2. Solitude'
  BY <1>1, SolitudeStays DEF AloneInv, Surveys, At
<1>3. CASE proc[p].at = "write"
  <2>1. \A a \in Asset : Reads(a)' = Reads(a)
    BY DEF Die, files, Reads
  <2>2. ~Lists(p) /\ ~At(p, "rebuild") /\ ~Lists(p)'
    BY <1>1, <1>3 DEF Lists, At
  <2>3. ~missed' => ~missed
    BY DEF Die, LibraryInv, LibraryTyped
  <2>4. index' = index
    BY DEF Die
  <2>5. IndexFollows'
    BY <1>1, <2>1, <2>2, <2>3, <2>4, FollowsStays DEF AloneInv
  <2>6. QED
    BY <1>2, <2>5 DEF AloneInv
<1>4. CASE proc[p].at # "write"
  <2>1. missed'
    BY <1>4 DEF Die
  <2>2. QED
    BY <1>2, <2>1 DEF AloneInv, IndexFollows
<1>5. QED
  BY <1>3, <1>4
(* A rebuild, or a recovery, takes up whatever has a file. *)
LEMMA ScanningAlone ==
  ASSUME RecoversAlone, LibraryInv, AloneInv, NEW p \in Proc, Rebuild(p) \/ Recover(p)
  PROVE  AloneInv'
<1>1. PICK place \in {"scan", "survey"} :
        /\ Scanning(p, place)
        /\ \/ place = "scan" /\ ~At(p, "idle")
           \/ place = "survey" /\ \A q \in Proc : At(q, "idle")
  BY DEF Rebuild, Recover, At
<1>2. UNCHANGED files
  BY DEF Rebuild, Recover
<1> DEFINE r == [Idle EXCEPT !.at = place, !.todo = ScanStart]
<1>3. r \in CallRecord /\ r.at = place /\ r.todo = ScanStart /\ DOMAIN r.found = {}
  BY ScannerIs DEF Places
<1>4. proc' = [proc EXCEPT ![p] = r]
  BY <1>1 DEF Scanning, ScanStart
<1> HIDE DEF r
<1>5. proc'[p] = r /\ \A q \in Proc : q # p => proc'[q] = proc[q]
  BY <1>3, <1>4, OneCall DEF LibraryInv
<1>6. Solitude'
  <2>1. CASE place = "scan"
    BY <1>1, <1>3, <1>5, <2>1, SolitudeStays DEF AloneInv, Surveys
  <2>2. CASE place = "survey"
    BY <1>1, <1>3, <1>5, <2>2 DEF Solitude, Surveys, At
  <2>3. QED
    BY <2>1, <2>2
<1> PICK f, t : f = r.found /\ t = r.todo
  OBVIOUS
<1>7. ASSUME NEW a \in Asset PROVE a \in t \/ Listed(f, a)'
  <2>1. CASE a \in ScanStart
    BY <1>3, <2>1
  <2>2. CASE a \notin ScanStart
    <3>1. primary[a] = Missing /\ backup[a] = Missing
      BY <2>2 DEF ScanStart
    <3>2. primary'[a] = Missing /\ backup'[a] = Missing
      BY <1>2, <3>1 DEF files
    <3>3. ~Readable(Reads(a)')
      BY <3>2, FileKinds DEF Reads
    <3>4. QED
      BY <1>3, <3>3 DEF Listed
  <2>3. QED
    BY <2>1, <2>2
<1>8. Lists(p)'
  BY <1>3, <1>5 DEF Lists
<1>9. Goes'
  <2>1. proc'[p].found = f /\ proc'[p].todo = t
    BY <1>5
  <2>2. QED
    BY <1>7, <1>8, <2>1 DEF Goes, Listed
<1>10. IndexFollows'
  BY <1>9 DEF IndexFollows, Goes
<1>11. QED
  BY <1>6, <1>10 DEF AloneInv

LEMMA LockSurveyedAlone ==
  ASSUME LibraryInv, AloneInv, NEW p \in Proc, LockSurveyed(p)
  PROVE  AloneInv'
<1> DEFINE r == [proc[p] EXCEPT !.at = "list"]
<1>1. proc[p] \in CallRecord /\ proc[p].at = "survey"
  BY DEF LibraryInv, LibraryTyped, LockSurveyed, At
<1>2. r \in CallRecord /\ r.at = "list" /\ r.todo = proc[p].todo /\ r.found = proc[p].found
  BY <1>1 DEF CallRecord, Places
<1>3. proc' = [proc EXCEPT ![p] = r]
  BY DEF LockSurveyed, To
<1> HIDE DEF r
<1>4. proc'[p] = r /\ \A q \in Proc : q # p => proc'[q] = proc[q]
  BY <1>2, <1>3, OneCall DEF LibraryInv
<1>5. Solitude'
  BY <1>1, <1>4, SolitudeStays DEF AloneInv, Surveys, At
<1>6. (\A a \in Asset : Reads(a)' = Reads(a)) /\ missed' = missed
  BY DEF LockSurveyed, files, Reads
<1>7. ASSUME ~missed' PROVE Begins' \/ Goes' \/ IsComplete'
  <2>1. Begins \/ Goes \/ IsComplete
    BY <1>6, <1>7, FollowsIs DEF AloneInv
  <2>2. ASSUME NEW q \in Proc, At(q, "rebuild") PROVE FALSE
    BY <1>1, <2>2 DEF AloneInv, Solitude, Surveys, At
  <2>3. ~IsComplete
    BY <1>1 DEF IsComplete, Lists
  <2>4. Goes
    BY <2>1, <2>2, <2>3 DEF Begins
  <2>5. PICK q \in Proc : Lists(q) /\ \A a \in Asset : a \in proc[q].todo \/ Listed(proc[q].found, a)
    BY <2>4 DEF Goes
  <2>6. q = p
    BY <1>1, <2>5, OneLists DEF Lists, AloneInv
  <2> PICK f : f = proc[p].found
    OBVIOUS
  <2>7. \A a \in Asset : Listed(f, a)' <=> Listed(f, a)
    BY <1>6, ListedStays
  <2>8. proc'[p].found = f /\ Lists(p)' /\ \A a \in Asset : a \in proc'[p].todo \/ Listed(f, a)'
    BY <1>2, <1>4, <2>5, <2>6, <2>7 DEF Lists
  <2>9. Goes'
    BY <2>8 DEF Goes, Listed
  <2>10. QED
    BY <2>9
<1>8. IndexFollows'
  BY <1>7 DEF IndexFollows, Begins, Goes, IsComplete
<1>9. QED
  BY <1>5, <1>8 DEF AloneInv

(* The one that lists has found what is there, or another is to begin. *)
LEMMA WriteIndexAlone ==
  ASSUME LibraryInv, AloneInv, NEW p \in Proc, WriteIndex(p)
  PROVE  AloneInv'
<1>1. /\ proc' = [proc EXCEPT ![p] = Idle] /\ UNCHANGED <<files, lock, missed>>
      /\ index' = proc[p].found /\ proc[p].at \in {"scan", "list"} /\ proc[p].todo = {}
  BY DEF WriteIndex, End
<1>2. proc'[p].at = "idle" /\ \A q \in Proc : q # p => proc'[q] = proc[q]
  BY <1>1, IdleIs, OneCall DEF LibraryInv
<1>3. Lists(p) /\ ~At(p, "idle") /\ ~At(p, "rebuild")
  BY <1>1 DEF Lists, At
<1>4. Solitude'
  BY <1>2, <1>3, SolitudeStays DEF AloneInv, Surveys
<1>5. (\A a \in Asset : Reads(a)' = Reads(a)) /\ missed' = missed
  BY <1>1 DEF files, Reads
<1>6. ASSUME ~missed' PROVE Begins' \/ Goes' \/ IsComplete'
  <2>1. Begins \/ Goes
    BY <1>3, <1>5, <1>6, FollowsIs DEF AloneInv, IsComplete
  <2>2. CASE Begins
    <3>1. PICK q \in Proc : At(q, "rebuild")
      BY <2>2 DEF Begins
    <3>2. q # p /\ proc'[q] = proc[q]
      BY <1>2, <1>3, <3>1 DEF At
    <3>3. QED
      BY <3>1, <3>2 DEF Begins, At
  <2>3. CASE Goes
    <3>1. PICK q \in Proc : Lists(q) /\ \A a \in Asset : a \in proc[q].todo \/ Listed(proc[q].found, a)
      BY <2>3 DEF Goes
    <3>2. q = p
      BY <1>3, <3>1, OneLists DEF AloneInv
    <3> PICK f : f = proc[p].found
      OBVIOUS
    <3>3. \A a \in Asset : Listed(f, a)'
      BY <1>1, <1>5, <3>1, <3>2, ListedStays
    <3>4. \A x \in Proc : ~Lists(x)'
      <4>1. \A x \in Proc : x # p => ~Lists(x)
        BY <1>3, OneLists DEF AloneInv
      <4>2. QED
        BY <1>2, <4>1 DEF Lists
    <3>5. index' = f
      BY <1>1
    <3>6. IsComplete'
      BY <3>3, <3>4, <3>5 DEF IsComplete, Listed
    <3>7. QED
      BY <3>6
  <2>4. QED
    BY <2>1, <2>2, <2>3
<1>7. IndexFollows'
  BY <1>6 DEF IndexFollows, Begins, Goes, IsComplete
<1>8. QED
  BY <1>4, <1>7 DEF AloneInv

LEMMA FoundSays ==
  ASSUME LibraryInv, NEW f \in Entries, NEW a \in Asset, NEW b \in Asset,
         b = a => (Readable(Reads(a)) \/ a \notin DOMAIN f),
         b # a => Listed(f, b)
  PROVE  Listed(FoundNow(f, a), b)
<1>1. CASE Readable(Reads(a))
  <2> DEFINE w == [c \in DOMAIN f \union {a} |-> IF c = a THEN Reads(a).asset ELSE f[c]]
  <2>1. /\ DOMAIN w = DOMAIN f \union {a} /\ w[a] = Reads(a).asset
        /\ \A c \in DOMAIN f : c # a => w[c] = f[c]
    OBVIOUS
  <2>2. FoundNow(f, a) = w
    BY <1>1 DEF FoundNow
  <2> HIDE DEF w
  <2>3. QED
    BY <1>1, <2>1, <2>2 DEF Listed
<1>2. CASE ~Readable(Reads(a))
  BY <1>2 DEF FoundNow, Listed
<1>3. QED
  BY <1>1, <1>2
LEMMA FreshCall ==
  ASSUME LibraryInv, Afresh, NEW p \in Proc, NEW r \in CallRecord, proc' = [proc EXCEPT ![p] = r],
         r.todo \intersect DOMAIN r.found = {}
  PROVE  Afresh'
<1>1. proc'[p] = r /\ \A q \in Proc : q # p => proc'[q] = proc[q]
  BY OneCall DEF LibraryInv
<1>2. ASSUME NEW q \in Proc PROVE proc'[q].todo \intersect DOMAIN proc'[q].found = {}
  BY <1>1 DEF Afresh
<1>3. QED
  BY <1>2 DEF Afresh

LEMMA AfreshNext == LibraryInv /\ Afresh /\ [Next]_vars => Afresh'
<1> SUFFICES ASSUME LibraryInv, Afresh, [Next]_vars PROVE Afresh'
  OBVIOUS
<1>1. ASSUME NEW p \in Proc, NEW a \in Asset, Create(p, a) \/ Change(p, a) PROVE Afresh'
  <2>1. \E m, b : Prepare(p, a, m, b) /\ m \in File
    <3>1. CASE Create(p, a)
      BY <3>1, CreationsAreGood, FileKinds DEF Create
    <3>2. CASE Change(p, a)
      <4>1. Reads(a) \in GoodManifest
        BY <3>2, ReadsIs, FileKinds DEF Change
      <4>2. QED
        BY <3>2, <4>1, ChangesAreGood, FileKinds DEF Change
    <3>3. QED
      BY <1>1, <3>1, <3>2
  <2>2. PICK m, b : Prepare(p, a, m, b) /\ m \in File
    BY <2>1
  <2> DEFINE r == [Idle EXCEPT !.at = "write", !.asset = a, !.next = m]
  <2>3. r \in CallRecord /\ r.todo = {}
    BY <2>2, IdleIs DEF CallRecord, Places
  <2>4. proc' = [proc EXCEPT ![p] = r]
    BY <2>2 DEF Prepare
  <2> HIDE DEF r
  <2>5. QED
    BY <2>3, <2>4, FreshCall
<1>2. ASSUME NEW p \in Proc, NEW a \in Asset, Scan(p, a) PROVE Afresh'
  <2>1. /\ proc'[p].todo = proc[p].todo \ {a} /\ proc'[p].found = FoundNow(proc[p].found, a)
        /\ \A q \in Proc : q # p => proc'[q] = proc[q]
    BY <1>2, ScanIs
  <2>2. DOMAIN FoundNow(proc[p].found, a) \subseteq DOMAIN proc[p].found \union {a}
    BY DEF FoundNow
  <2>3. proc'[p].todo \intersect DOMAIN proc'[p].found = {}
    BY <2>1, <2>2 DEF Afresh
  <2>4. QED
    BY <2>1, <2>3 DEF Afresh
<1>3. ASSUME NEW p \in Proc, Replace(p) PROVE Afresh'
  <2> DEFINE r == [Idle EXCEPT !.at = "rebuild"]
  <2>1. r \in CallRecord /\ r.todo = {}
    BY IdleIs DEF CallRecord, Places
  <2>2. proc' = [proc EXCEPT ![p] = r]
    BY <1>3 DEF Replace
  <2> HIDE DEF r
  <2>3. QED
    BY <2>1, <2>2, FreshCall
<1>4. ASSUME NEW p \in Proc, ReplaceFails(p) \/ WriteIndex(p) \/ Die(p) PROVE Afresh'
  <2>1. proc' = [proc EXCEPT ![p] = Idle]
    BY <1>4 DEF ReplaceFails, WriteIndex, Die, End
  <2>2. QED
    BY <2>1, IdleIs, FreshCall
<1>5. ASSUME NEW p \in Proc, Rebuild(p) \/ Recover(p) PROVE Afresh'
  <2>1. PICK place \in {"scan", "survey"} : Scanning(p, place)
    BY <1>5 DEF Rebuild, Recover
  <2> DEFINE r == [Idle EXCEPT !.at = place, !.todo = ScanStart]
  <2>2. r \in CallRecord /\ DOMAIN r.found = {}
    BY ScannerIs DEF Places
  <2>3. proc' = [proc EXCEPT ![p] = r]
    BY <2>1 DEF Scanning, ScanStart
  <2> HIDE DEF r
  <2>4. r.todo \intersect DOMAIN r.found = {}
    BY <2>2
  <2>5. QED
    BY <2>2, <2>3, <2>4, FreshCall
<1>6. ASSUME NEW p \in Proc, LockSurveyed(p) PROVE Afresh'
  <2> DEFINE r == [proc[p] EXCEPT !.at = "list"]
  <2>1. proc[p] \in CallRecord
    BY DEF LibraryInv, LibraryTyped
  <2>2. r \in CallRecord /\ r.todo = proc[p].todo /\ r.found = proc[p].found
    BY <2>1 DEF CallRecord, Places
  <2>3. proc' = [proc EXCEPT ![p] = r]
    BY <1>6 DEF LockSurveyed, To
  <2> HIDE DEF r
  <2>4. r.todo \intersect DOMAIN r.found = {}
    BY <2>2 DEF Afresh
  <2>5. QED
    BY <2>2, <2>3, <2>4, FreshCall
<1>7. ASSUME UNCHANGED proc PROVE Afresh'
  BY <1>7 DEF Afresh
<1>8. ASSUME NEW a \in Asset, Damage(a) \/ Read(a) PROVE UNCHANGED proc
  BY <1>8 DEF Damage, Read
<1>9. QED
  BY <1>1, <1>2, <1>3, <1>4, <1>5, <1>6, <1>7, <1>8 DEF Next, vars

(* A scan adds to what it has found; a reader changes nothing of it. *)
LEMMA ScanAlone ==
  ASSUME LibraryInv, Afresh, AloneInv, NEW p \in Proc, NEW a \in Asset, Scan(p, a)
  PROVE  AloneInv'
<1>1. /\ proc' \in [Proc -> CallRecord]
      /\ proc'[p].at = proc[p].at /\ proc'[p].todo = proc[p].todo \ {a}
      /\ proc'[p].found = FoundNow(proc[p].found, a)
      /\ \A q \in Proc : q # p => proc'[q] = proc[q]
  BY ScanIs
<1>2. proc[p].at \in {"scan", "survey"} /\ a \in proc[p].todo
  BY DEF Scan
<1>3. Solitude'
  BY <1>1, <1>2, SolitudeStays DEF AloneInv, Surveys, At
<1>4. (\A b \in Asset : Reads(b)' = Reads(b)) /\ UNCHANGED <<missed, index>>
  BY ReadsStay DEF Scan
<1>5. Lists(p) /\ Lists(p)'
  BY <1>1, <1>2 DEF Lists
<1>6. ASSUME ~missed' PROVE Begins' \/ Goes'
  <2>1. Begins \/ Goes
    BY <1>4, <1>5, <1>6, FollowsIs DEF AloneInv, IsComplete
  <2>2. CASE Begins
    <3>1. PICK q \in Proc : At(q, "rebuild")
      BY <2>2 DEF Begins
    <3>2. q # p /\ proc'[q] = proc[q]
      BY <1>1, <1>2, <3>1 DEF At
    <3>3. QED
      BY <3>1, <3>2 DEF Begins, At
  <2>3. CASE Goes
    <3>1. PICK q \in Proc : Lists(q) /\ \A b \in Asset : b \in proc[q].todo \/ Listed(proc[q].found, b)
      BY <2>3 DEF Goes
    <3>2. q = p
      BY <1>5, <3>1, OneLists DEF AloneInv
    <3> PICK f : f = proc[p].found
      OBVIOUS
    <3> PICK g : g = FoundNow(f, a)
      OBVIOUS
    <3>3. f \in Entries /\ a \notin DOMAIN f
      BY <1>2 DEF LibraryInv, LibraryTyped, CallRecord, Afresh
    <3>4. ASSUME NEW b \in Asset PROVE b \in proc'[p].todo \/ Listed(g, b)
      <4>1. CASE b = a
        BY <3>3, <4>1, FoundSays
      <4>2. CASE b # a
        <5>1. b \in proc[p].todo \/ Listed(f, b)
          BY <3>1, <3>2
        <5>2. Listed(f, b) => Listed(g, b)
          BY <3>3, <4>2, FoundSays
        <5>3. QED
          BY <1>1, <4>2, <5>1, <5>2
      <4>3. QED
        BY <4>1, <4>2
    <3>5. \A b \in Asset : Listed(g, b)' <=> Listed(g, b)
      BY <1>4, ListedStays
    <3>6. proc'[p].found = g /\ \A b \in Asset : b \in proc'[p].todo \/ Listed(g, b)'
      BY <1>1, <3>4, <3>5
    <3>7. Goes'
      BY <1>5, <3>6 DEF Goes, Listed
    <3>8. QED
      BY <3>7
  <2>4. QED
    BY <2>1, <2>2, <2>3
<1>7. IndexFollows'
  BY <1>6 DEF IndexFollows, Begins, Goes
<1>8. QED
  BY <1>3, <1>7 DEF AloneInv

(* The processes, and what is read, stay. *)
LEMMA NothingAlone ==
  ASSUME AloneInv, UNCHANGED <<proc, index>>, missed' \/ (missed' = missed /\ \A a \in Asset : Reads(a)' = Reads(a))
  PROVE  AloneInv'
<1>1. Solitude'
  BY DEF AloneInv, Solitude, Surveys, At
<1>2. CASE missed'
  BY <1>1, <1>2 DEF AloneInv, IndexFollows
<1>3. CASE ~missed'
  <2>1. \A a \in Asset : Reads(a)' = Reads(a)
    BY <1>3
  <2>2. \A a \in Asset : \A f : Listed(f, a)' <=> Listed(f, a)
    BY <2>1, ListedStays
  <2>3. Begins \/ Goes \/ IsComplete
    BY <1>3, FollowsIs DEF AloneInv
  <2>4. Begins => Begins'
    BY DEF Begins, At
  <2>5. Goes => Goes'
    <3>1. SUFFICES ASSUME NEW q \in Proc, Lists(q), \A a \in Asset : a \in proc[q].todo \/ Listed(proc[q].found, a)
                   PROVE  Goes'
      BY DEF Goes
    <3> PICK f : f = proc[q].found
      OBVIOUS
    <3>2. proc'[q].found = f /\ Lists(q)' /\ \A a \in Asset : a \in proc'[q].todo \/ Listed(f, a)'
      BY <2>2, <3>1 DEF Lists
    <3>3. QED
      BY <3>2 DEF Goes, Listed
  <2>6. IsComplete => IsComplete'
    <3> PICK f : f = index
      OBVIOUS
    <3>1. SUFFICES ASSUME IsComplete PROVE IsComplete'
      OBVIOUS
    <3>2. index' = f /\ \A a \in Asset : Listed(f, a)'
      BY <2>2, <3>1 DEF IsComplete
    <3>3. \A q \in Proc : ~Lists(q)'
      BY <3>1 DEF IsComplete, Lists
    <3>4. QED
      BY <3>2, <3>3 DEF IsComplete, Listed
  <2>7. QED
    BY <1>1, <2>3, <2>4, <2>5, <2>6 DEF AloneInv, IndexFollows, Begins, Goes, IsComplete
<1>4. QED
  BY <1>2, <1>3

LEMMA AloneNext ==
  ASSUME RecoversAlone
  PROVE  LibraryInv /\ Afresh /\ AloneInv /\ [Next]_vars => AloneInv'
<1> SUFFICES ASSUME LibraryInv, Afresh, AloneInv, [Next]_vars PROVE AloneInv'
  OBVIOUS
<1>1. ASSUME NEW p \in Proc, NEW a \in Asset, Create(p, a) \/ Change(p, a) \/ Scan(p, a)
      PROVE  AloneInv'
  BY <1>1, PrepareAlone, ScanAlone
<1>2. ASSUME NEW p \in Proc, Replace(p) \/ ReplaceFails(p) \/ Rebuild(p) \/ WriteIndex(p)
      PROVE  AloneInv'
  BY <1>2, ReplaceAlone, ReplaceFailsAlone, ScanningAlone, WriteIndexAlone
<1>3. ASSUME NEW p \in Proc, Recover(p) \/ LockSurveyed(p) \/ Die(p)
      PROVE  AloneInv'
  BY <1>3, ScanningAlone, LockSurveyedAlone, DieAlone
<1>4. ASSUME NEW a \in Asset, Damage(a) PROVE AloneInv'
  BY <1>4, NothingAlone DEF Damage
<1>5. ASSUME NEW a \in Asset, Read(a) PROVE AloneInv'
  <2>1. \A b \in Asset : Reads(b)' = Reads(b)
    BY <1>5, ReadsStay DEF Read
  <2>2. UNCHANGED <<proc, index, missed>>
    BY <1>5 DEF Read
  <2>3. QED
    BY <2>1, <2>2, NothingAlone
<1>6. ASSUME UNCHANGED vars PROVE AloneInv'
  <2>1. \A b \in Asset : Reads(b)' = Reads(b)
    BY <1>6 DEF vars, Reads
  <2>2. QED
    BY <1>6, <2>1, NothingAlone DEF vars
<1>7. QED
  BY <1>1, <1>2, <1>3, <1>4, <1>5, <1>6 DEF Next

LEMMA AloneInit == Init => Afresh /\ AloneInv
<1> SUFFICES ASSUME Init PROVE Afresh /\ AloneInv
  OBVIOUS
<1>1. \A p \in Proc : proc[p].at = "idle" /\ proc[p].todo = {}
  BY IdleIs DEF Init
<1>2. \A a \in Asset : ~Readable(Reads(a))
  BY FileKinds DEF Init, Reads
<1>3. DOMAIN index = {}
  BY EmptyEntries DEF Init
<1>4. Afresh
  BY <1>1 DEF Afresh
<1>5. Solitude
  BY <1>1 DEF Solitude, Surveys
<1>6. IsComplete
  BY <1>1, <1>2, <1>3 DEF IsComplete, Lists, Listed
<1>7. QED
  BY <1>4, <1>5, <1>6, FollowsIs DEF AloneInv

(* As long as a recovery has the library for itself: once all are done, and no     *)
(* rebuild was lost with its process, the index says what the manifests do.        *)
THEOREM IndexIsRight == ASSUME RecoversAlone PROVE Spec => []IndexAgrees
<1>1. LibraryInv /\ AloneInv => IndexAgrees
  <2> SUFFICES ASSUME LibraryInv, AloneInv, ~missed, \A p \in Proc : At(p, "idle")
               PROVE  index = [a \in {b \in Asset : Readable(Reads(b))} |-> Reads(a).asset]
    BY DEF IndexAgrees
  <2>1. IsComplete
    BY FollowsIs DEF AloneInv, Begins, Goes, Lists, At
  <2>2. DOMAIN index \subseteq Asset /\ index = [a \in DOMAIN index |-> index[a]]
    BY EntriesAre DEF LibraryInv, LibraryTyped
  <2>3. DOMAIN index = {b \in Asset : Readable(Reads(b))}
    BY <2>1, <2>2 DEF IsComplete, Listed
  <2>4. \A a \in DOMAIN index : index[a] = Reads(a).asset
    BY <2>1, <2>3 DEF IsComplete, Listed
  <2>5. QED
    BY <2>2, <2>3, <2>4
<1>2. LibraryInv /\ Afresh /\ AloneInv /\ [Next]_vars => (Afresh /\ AloneInv)'
  BY AfreshNext, AloneNext
<1>3. Spec => [](Afresh /\ AloneInv)
  BY <1>2, AloneInit, AlwaysSound, PTL DEF Spec
<1>4. QED
  BY <1>1, <1>3, AlwaysSound, PTL

-------------------------------------------------------------------------------
(* What the workspace page shows (module WorkspacePage).                         *)

PageRevisions == {r \in Int : r >= -1}
PageRequests ==
  [at : {"none", "asked", "answered", "refused", "follows", "followed", "reloads", "reloaded"},
   film : Film \cup {NoFilm}, base : Int, rev : Int]
Commands == [nr : Nat, for : Film, work : PageRequests]
Openings == [nr : Nat, film : Film, at : {"waits", "creates", "loaded"}, after : Nat, rev : PageRevisions]
Created(film) == revision[film] >= 0

PageTyped ==
  /\ revision \in [Film -> PageRevisions] /\ told \in [Film -> PageRevisions]
  /\ page \in [film : Film, rev : Int]
  /\ chain \in Seq(Commands)
  /\ upload \in PageRequests /\ reload \in PageRequests
  /\ given \in Nat /\ transition \in Nat
  /\ openings \subseteq Openings
  /\ asked \in Film /\ strayed = FALSE

(* A request is for a project that is there, and has of it no revision to come.  *)
Reaches(request, revisions) ==
  /\ request.film \in Film /\ revisions[request.film] >= 0
  /\ request.at \in {"answered", "followed", "reloaded"} => request.rev <= revisions[request.film]
ReachesItsProject(request) == Reaches(request, revision)

(* The first command is at work on the project it was given for; those behind it *)
(* are for the project that is shown, so that they will be.                      *)
ChainFollowsPage ==
  /\ \A i \in DOMAIN chain : chain[i].nr <= given
  /\ chain # << >> => /\ chain[1].work # NoRequest /\ chain[1].work.film = chain[1].for
                      /\ ReachesItsProject(chain[1].work)
  /\ \A i \in DOMAIN chain : i > 1 => chain[i].work = NoRequest /\ chain[i].for = page.film

(* An opening that waits has all the commands before it; one that is loaded or   *)
(* creates finds one command at most, of another project.                        *)
OpeningStands(o) ==
  /\ o.nr <= transition
  /\ o.nr = transition => o.film = asked
  /\ o.at = "waits" => Created(o.film) /\ o.after = given
  /\ o.at = "creates" => ~Created(o.film) /\ \A p \in openings : p.film = o.film => p = o
  /\ o.at # "waits" => Len(chain) <= 1
  /\ o.at = "loaded" => /\ Created(o.film) /\ o.rev <= revision[o.film]
                        /\ chain # << >> => chain[1].for # o.film
                        /\ o.nr = transition => o.rev >= told[o.film]

PageInv ==
  /\ PageTyped
  /\ Created(page.film)
  /\ \A f \in Film : told[f] <= revision[f]
  /\ page.rev >= told[page.film]
  /\ ChainFollowsPage
  /\ upload # NoRequest => ReachesItsProject(upload)
  /\ reload.at = "reloaded" => ReachesItsProject(reload)
  /\ \A o \in openings : OpeningStands(o)
  /\ \A o, p \in openings : o.nr = p.nr => o = p
  /\ (\A o \in openings : o.nr # transition) => page.film = asked
  /\ openings # {} => upload = NoRequest /\ reload = NoRequest

PageSpec == PageInit /\ [][PageNext]_pageVars

(* Commands whose first one may have its turn.                                    *)
Orderly(commands, last, film) ==
  /\ commands \in Seq(Commands)
  /\ \A i \in DOMAIN commands : commands[i].nr <= last
  /\ \A i \in DOMAIN commands : i > 1 => commands[i].work = NoRequest /\ commands[i].for = film
  /\ commands # << >> => \/ commands[1].work = NoRequest /\ commands[1].for = film
                         \/ /\ commands[1].work # NoRequest /\ commands[1].work.film = commands[1].for
                            /\ ReachesItsProject(commands[1].work)

(* A turn leaves the commands in their order, and the first one at work on the     *)
(* project it was given for.                                                       *)
LEMMA TurnKeeps ==
  ASSUME NEW commands, NEW shown \in [film : Film, rev : Int], NEW last,
         Orderly(commands, last, shown.film), Created(shown.film), strayed = FALSE,
         Turn(commands, shown), revision' = revision, page'.film = shown.film, given' = last
  PROVE  /\ chain' \in Seq(Commands) /\ strayed' = FALSE /\ ChainFollowsPage'
         /\ Len(chain') = Len(commands)
         /\ chain' # << >> => chain'[1].for = commands[1].for
<1> DEFINE asks == [at |-> "asked", film |-> shown.film, base |-> shown.rev, rev |-> -1]
<1>1. asks \in PageRequests /\ asks # NoRequest /\ ReachesItsProject(asks) /\ asks.film = shown.film
  BY DEF PageRequests, NoRequest, ReachesItsProject, Reaches, Created
<1>2. ASSUME NEW request, ReachesItsProject(request)
      PROVE  ReachesItsProject(request)'
  BY <1>2 DEF ReachesItsProject, Reaches, Created
<1> HIDE DEF asks
<1>3. CASE commands = << >> \/ commands[1].work # NoRequest
  <2>1. chain' = commands
    BY <1>3 DEF Turn
  <2>2. chain' # << >> => chain'[1].work.film = chain'[1].for /\ ReachesItsProject(chain'[1].work)
    BY <1>3, <2>1 DEF Orderly
  <2>3. strayed' = FALSE
    BY <2>2 DEF Turn
  <2>4. chain' # << >> => ReachesItsProject(chain[1].work)'
    BY <2>2 DEF ReachesItsProject, Reaches, Created
  <2>5. ChainFollowsPage'
    BY <1>3, <2>1, <2>2, <2>4 DEF ChainFollowsPage, Orderly
  <2>6. QED
    BY <2>1, <2>3, <2>5 DEF Orderly
<1>4. CASE commands # << >> /\ commands[1].work = NoRequest
  <2>1. commands \in Seq(Commands) /\ Len(commands) \in Nat /\ Len(commands) > 0 /\ commands[1] \in Commands
    BY <1>4 DEF Orderly
  <2>2. chain' = [commands EXCEPT ![1].work = asks]
    BY <1>4 DEF Turn, asks
  <2>3. [commands[1] EXCEPT !.work = asks] \in Commands
    BY <1>1, <2>1 DEF Commands
  <2>4. chain' = [commands EXCEPT ![1] = [commands[1] EXCEPT !.work = asks]]
    BY <2>1, <2>2
  <2>5. chain' \in Seq(Commands) /\ Len(chain') = Len(commands) /\ DOMAIN chain' = DOMAIN commands
    BY <2>1, <2>3, <2>4, ExceptSeq
  <2>6. chain'[1] = [commands[1] EXCEPT !.work = asks]
    BY <2>1, <2>4
  <2>7. /\ chain'[1].work = asks /\ chain'[1].nr = commands[1].nr /\ chain'[1].for = commands[1].for
        /\ commands[1].for = shown.film
    BY <1>4, <2>1, <2>6 DEF Commands, Orderly
  <2>8. \A i \in DOMAIN commands : i > 1 => chain'[i] = commands[i]
    BY <2>1, <2>4
  <2>9. strayed' = FALSE
    BY <1>1, <2>7 DEF Turn
  <2>10. ReachesItsProject(chain[1].work)'
    BY <1>1, <2>7 DEF ReachesItsProject, Reaches, Created
  <2>11. \A i \in DOMAIN chain' : chain'[i].nr <= last
    BY <2>5, <2>7, <2>8, <2>1 DEF Orderly
  <2>12. \A i \in DOMAIN chain' : i > 1 => chain'[i].work = NoRequest /\ chain'[i].for = page'.film
    BY <2>5, <2>8 DEF Orderly
  <2>13. ChainFollowsPage'
    BY <1>1, <2>7, <2>10, <2>11, <2>12 DEF ChainFollowsPage
  <2>14. QED
    BY <2>5, <2>7, <2>9, <2>13
<1>5. QED
  BY <1>3, <1>4

LEMMA InOrder ==
  ASSUME PageInv
  PROVE  /\ Orderly(chain, given, page.film)
         /\ chain # << >> => Orderly(Tail(chain), given, page.film) /\ Len(Tail(chain)) = Len(chain) - 1
<1>1. chain \in Seq(Commands) /\ ChainFollowsPage
  BY DEF PageInv, PageTyped
<1>2. Orderly(chain, given, page.film)
  BY <1>1 DEF ChainFollowsPage, Orderly
<1>3. ASSUME chain # << >>
      PROVE  Orderly(Tail(chain), given, page.film) /\ Len(Tail(chain)) = Len(chain) - 1
  <2>1. Tail(chain) \in Seq(Commands) /\ Len(Tail(chain)) = Len(chain) - 1 /\ Len(chain) \in Nat
    BY <1>1, <1>3
  <2>2. \A i \in DOMAIN Tail(chain) : i \in Nat /\ i >= 1 /\ i + 1 \in DOMAIN chain /\ Tail(chain)[i] = chain[i + 1]
    BY <1>1, <1>3, <2>1
  <2>3. \A i \in DOMAIN Tail(chain) :
          Tail(chain)[i].nr <= given /\ Tail(chain)[i].work = NoRequest /\ Tail(chain)[i].for = page.film
    <3>1. SUFFICES ASSUME NEW i \in DOMAIN Tail(chain)
                   PROVE  Tail(chain)[i].nr <= given /\ Tail(chain)[i].work = NoRequest /\ Tail(chain)[i].for = page.film
      OBVIOUS
    <3>2. i + 1 \in DOMAIN chain /\ i + 1 > 1 /\ Tail(chain)[i] = chain[i + 1]
      BY <2>2
    <3>3. QED
      BY <1>1, <3>2 DEF ChainFollowsPage
  <2>4. Tail(chain) # << >> => 1 \in DOMAIN Tail(chain)
    BY <2>1
  <2>5. QED
    BY <2>1, <2>3, <2>4 DEF Orderly
<1>4. QED
  BY <1>2, <1>3

(* Edits only add to a project that is there.                                     *)
EditsOnly ==
  /\ revision' \in [Film -> PageRevisions]
  /\ \A f \in Film : revision[f] <= revision'[f] /\ (Created(f)' <=> Created(f))

LEMMA RequestStands ==
  ASSUME EditsOnly, PageTyped, NEW request \in PageRequests, ReachesItsProject(request)
  PROVE  ReachesItsProject(request)'
<1>1. request.film \in Film /\ revision[request.film] >= 0 /\ request.rev \in Int
  BY DEF ReachesItsProject, Reaches, PageRequests
<1>2. /\ revision[request.film] \in Int /\ revision'[request.film] \in Int
      /\ revision[request.film] <= revision'[request.film]
  BY <1>1 DEF EditsOnly, PageTyped, PageRevisions
<1>3. request.at \in {"answered", "followed", "reloaded"} => request.rev <= revision[request.film]
  BY DEF ReachesItsProject, Reaches
<1>4. Reaches(request, revision')
  BY <1>1, <1>2, <1>3 DEF Reaches
<1>5. QED
  BY <1>4 DEF ReachesItsProject, Reaches

(* What an opening needs is kept while no other begins or ends, no command is      *)
(* given, and what the page was told is of the command that was at work.          *)
LEMMA OpeningsStand ==
  ASSUME PageInv, EditsOnly, UNCHANGED <<openings, transition, given, asked>>,
         Len(chain') \in Nat, Len(chain') <= Len(chain),
         chain' # << >> => chain # << >> /\ (Len(chain) <= 1 => chain'[1].for = chain[1].for),
         \A f \in Film : told'[f] # told[f] => chain # << >> /\ f = chain[1].for
  PROVE  (\A o \in openings : OpeningStands(o))' /\ (\A o, p \in openings : o.nr = p.nr => o = p)'
<1>1. /\ \A o \in openings : OpeningStands(o)
      /\ \A o, p \in openings : o.nr = p.nr => o = p
      /\ openings \subseteq Openings /\ chain \in Seq(Commands)
      /\ revision \in [Film -> PageRevisions]
  BY DEF PageInv, PageTyped
<1>2. ASSUME NEW o \in openings
      PROVE  OpeningStands(o)'
  <2>1. o \in Openings /\ OpeningStands(o) /\ o.film \in Film
    BY <1>1 DEF Openings
  <2>2. (o.nr <= transition)' /\ (o.nr = transition => o.film = asked)'
    BY <2>1 DEF OpeningStands
  <2>3. (o.at = "waits" => Created(o.film) /\ o.after = given)'
    BY <2>1 DEF OpeningStands, EditsOnly
  <2>4. (o.at = "creates" => ~Created(o.film) /\ \A p \in openings : p.film = o.film => p = o)'
    BY <2>1 DEF OpeningStands, EditsOnly
  <2>5. (o.at # "waits" => Len(chain) <= 1)'
    BY <1>1, <2>1 DEF OpeningStands
  <2>6. (o.at = "loaded" => /\ Created(o.film) /\ o.rev <= revision[o.film]
                            /\ chain # << >> => chain[1].for # o.film
                            /\ o.nr = transition => o.rev >= told[o.film])'
    <3>1. SUFFICES ASSUME o.at = "loaded"
                   PROVE  (/\ Created(o.film) /\ o.rev <= revision[o.film]
                           /\ chain # << >> => chain[1].for # o.film
                           /\ o.nr = transition => o.rev >= told[o.film])'
      OBVIOUS
    <3>2. /\ Created(o.film) /\ o.rev <= revision[o.film] /\ Len(chain) <= 1
          /\ chain # << >> => chain[1].for # o.film
          /\ o.nr = transition => o.rev >= told[o.film]
      BY <2>1, <3>1 DEF OpeningStands
    <3>3. (Created(o.film) /\ o.rev <= revision[o.film])'
      BY <1>1, <2>1, <3>2 DEF EditsOnly, Openings, PageRevisions
    <3>4. QED
      BY <2>1, <3>2, <3>3
  <2>7. QED
    BY <2>2, <2>3, <2>4, <2>5, <2>6 DEF OpeningStands
<1>3. QED
  BY <1>1, <1>2

(* An answer that is shown leaves the page at its project, and not behind it.      *)
LEMMA PublishKeeps ==
  ASSUME PageInv, NEW film \in Film, NEW rev \in Int, rev <= revision[film],
         Publish(film, rev), revision' = revision
  PROVE  /\ page' \in [film : Film, rev : Int] /\ told' \in [Film -> PageRevisions]
         /\ page'.film = page.film /\ Created(page.film)'
         /\ (\A f \in Film : told[f] <= revision[f])' /\ (page.rev >= told[page.film])'
         /\ \A f \in Film : told'[f] # told[f] => f = film
<1>1. /\ page \in [film : Film, rev : Int] /\ told \in [Film -> PageRevisions]
      /\ Created(page.film) /\ page.rev >= told[page.film] /\ \A f \in Film : told[f] <= revision[f]
      /\ revision \in [Film -> PageRevisions]
  BY DEF PageInv, PageTyped
<1>2. told' = [told EXCEPT ![film] = IF rev > told[film] THEN rev ELSE told[film]]
  BY <1>1 DEF Publish, Hear
<1>3. page' = IF page.film = film /\ rev >= page.rev THEN [film |-> film, rev |-> rev] ELSE page
  BY DEF Publish, MayShow
<1>4. page'.film = page.film /\ page' \in [film : Film, rev : Int]
  BY <1>1, <1>3 DEF PageRevisions
<1>5. told' \in [Film -> PageRevisions] /\ \A f \in Film : told'[f] # told[f] => f = film
  BY <1>1, <1>2 DEF PageRevisions
<1>6. \A f \in Film : told'[f] <= revision'[f]
  BY <1>1, <1>2, <1>5
<1>7. page'.rev >= told'[page'.film]
  <2>1. CASE page.film = film /\ rev >= page.rev
    BY <1>1, <1>2, <1>3, <2>1 DEF PageRevisions
  <2>2. CASE page.film = film /\ ~(rev >= page.rev)
    BY <1>1, <1>2, <1>3, <2>2 DEF PageRevisions
  <2>3. CASE page.film # film
    BY <1>1, <1>2, <1>3, <2>3 DEF PageRevisions
  <2>4. QED
    BY <2>1, <2>2, <2>3
<1>8. Created(page.film)'
  BY <1>1, <1>4 DEF Created
<1>9. QED
  BY <1>4, <1>5, <1>6, <1>7, <1>8

-------------------------------------------------------------------------------
(* Commands.                                                                      *)

LEMMA PersistCommandKeeps ==
  ASSUME PageInv, ~Hasty, PersistCommand
  PROVE  PageInv'
<1> DEFINE new == [nr |-> given + 1, for |-> page.film, work |-> NoRequest]
<1>1. /\ given' = given + 1 /\ openings = {} /\ Turn(Append(chain, new), page)
      /\ UNCHANGED <<revision, page, transition, openings, upload, reload, told, asked>>
  BY DEF PersistCommand, Quiet
<1>2. PageTyped /\ chain \in Seq(Commands) /\ given \in Nat /\ page \in [film : Film, rev : Int] /\ Created(page.film)
      /\ strayed = FALSE /\ ChainFollowsPage
  BY DEF PageInv, PageTyped
<1>3. new \in Commands
  BY <1>2 DEF Commands, PageRequests, NoRequest
<1> HIDE DEF new
<1>4. Orderly(Append(chain, new), given + 1, page.film)
  <2> DEFINE after == Append(chain, new)
  <2>1. /\ after \in Seq(Commands) /\ Len(after) = Len(chain) + 1 /\ Len(chain) \in Nat /\ after[Len(chain) + 1] = new
        /\ \A i \in 1..Len(chain) : after[i] = chain[i]
    BY <1>2, <1>3
  <2>2. DOMAIN after = 1..(Len(chain) + 1) /\ DOMAIN chain = 1..Len(chain)
    BY <1>2, <2>1
  <2>3. new.nr = given + 1 /\ new.for = page.film /\ new.work = NoRequest
    BY DEF new
  <2> HIDE DEF after
  <2>4. \A i \in DOMAIN chain : chain[i].nr <= given /\ chain[i].nr \in Nat
    <3>1. \A i \in DOMAIN chain : chain[i] \in Commands
      BY <1>2
    <3>2. QED
      BY <1>2, <3>1 DEF ChainFollowsPage, Commands
  <2>5. \A i \in DOMAIN after : after[i].nr <= given + 1
    BY <1>2, <2>1, <2>2, <2>3, <2>4
  <2>6. \A i \in DOMAIN after : i > 1 => after[i].work = NoRequest /\ after[i].for = page.film
    BY <1>2, <2>1, <2>2, <2>3 DEF ChainFollowsPage
  <2>7. CASE chain = << >>
    BY <1>2, <2>1, <2>3, <2>5, <2>6, <2>7 DEF Orderly, after
  <2>8. CASE chain # << >>
    BY <1>2, <2>1, <2>2, <2>5, <2>6, <2>8 DEF Orderly, ChainFollowsPage, after
  <2>9. QED
    BY <2>7, <2>8 DEF after
<1>5. chain' \in Seq(Commands) /\ strayed' = FALSE /\ ChainFollowsPage'
  <2>1. revision' = revision /\ page'.film = page.film /\ given' = given + 1
    BY <1>1
  <2>2. QED
    BY <1>1, <1>2, <1>4, <2>1, TurnKeeps
<1>6. PageTyped'
  BY <1>1, <1>2, <1>5 DEF PageTyped
<1>7. QED
  BY <1>1, <1>5, <1>6 DEF PageInv, Created, ReachesItsProject, Reaches, OpeningStands

(* The rest of a step of the first command: of the server, or of the page.        *)
LEMMA FirstCommandMoves ==
  ASSUME PageInv, EditsOnly, NEW request \in PageRequests, chain # << >>,
         UNCHANGED <<page, given, transition, openings, upload, reload, told, asked, strayed>>,
         chain' = [chain EXCEPT ![1].work = request], request # NoRequest,
         request.film = chain[1].work.film, Reaches(request, revision')
  PROVE  PageInv'
<1>1. /\ PageTyped /\ chain \in Seq(Commands) /\ Len(chain) \in Nat /\ Len(chain) > 0 /\ chain[1] \in Commands
      /\ ChainFollowsPage
  BY DEF PageInv, PageTyped
<1>2. chain' = [chain EXCEPT ![1] = [chain[1] EXCEPT !.work = request]] /\ [chain[1] EXCEPT !.work = request] \in Commands
  BY <1>1 DEF Commands
<1>3. chain' \in Seq(Commands) /\ Len(chain') = Len(chain) /\ DOMAIN chain' = DOMAIN chain
  BY <1>1, <1>2, ExceptSeq
<1>4. /\ chain'[1].work = request /\ chain'[1].nr = chain[1].nr /\ chain'[1].for = chain[1].for
      /\ \A i \in DOMAIN chain : i > 1 => chain'[i] = chain[i]
  BY <1>1, <1>2 DEF Commands
<1>5. ChainFollowsPage'
  <2>1. \A i \in DOMAIN chain' : chain'[i].nr <= given'
    BY <1>1, <1>3, <1>4 DEF ChainFollowsPage
  <2>2. \A i \in DOMAIN chain' : i > 1 => chain'[i].work = NoRequest /\ chain'[i].for = page'.film
    BY <1>1, <1>3, <1>4 DEF ChainFollowsPage
  <2>3. ReachesItsProject(chain[1].work)'
    BY <1>4 DEF ReachesItsProject, Reaches, Created
  <2>4. QED
    BY <1>1, <1>4, <2>1, <2>2, <2>3 DEF ChainFollowsPage
<1>6. (\A o \in openings : OpeningStands(o))' /\ (\A o, p \in openings : o.nr = p.nr => o = p)'
  <2>1. Len(chain') \in Nat /\ Len(chain') <= Len(chain) /\ chain'[1].for = chain[1].for
    BY <1>1, <1>3, <1>4
  <2>2. \A f \in Film : told'[f] = told[f]
    OBVIOUS
  <2>3. UNCHANGED <<openings, transition, given, asked>>
    OBVIOUS
  <2>4. QED
    BY <2>1, <2>2, <2>3, OpeningsStand
<1>7. PageTyped'
  BY <1>1, <1>3 DEF PageTyped, EditsOnly, PageInv
<1>8. Created(page.film)' /\ (\A f \in Film : told[f] <= revision[f])' /\ (page.rev >= told[page.film])'
  BY <1>1 DEF PageInv, EditsOnly, PageTyped, PageRevisions
<1>9. (upload # NoRequest => ReachesItsProject(upload))' /\ (reload.at = "reloaded" => ReachesItsProject(reload))'
  <2>1. upload \in PageRequests /\ reload \in PageRequests
    BY <1>1 DEF PageTyped
  <2>2. upload # NoRequest => ReachesItsProject(upload)'
    BY <1>1, <2>1, RequestStands DEF PageInv
  <2>3. reload.at = "reloaded" => ReachesItsProject(reload)'
    BY <1>1, <2>1, RequestStands DEF PageInv
  <2>4. QED
    BY <2>2, <2>3 DEF ReachesItsProject, Reaches, Created
<1>10. /\ ((\A o \in openings : o.nr # transition) => page.film = asked)'
       /\ (openings # {} => upload = NoRequest /\ reload = NoRequest)'
  BY DEF PageInv
<1>11. QED
  BY <1>5, <1>6, <1>7, <1>8, <1>9, <1>10 DEF PageInv

LEMMA AtWorkIs ==
  ASSUME PageInv, NEW at \in {"asked", "answered", "refused", "reloaded"}, Works(at)
  PROVE  /\ chain # << >> /\ AtWork = chain[1].work /\ AtWork \in PageRequests /\ AtWork.at = at
         /\ AtWork # NoRequest /\ ReachesItsProject(AtWork) /\ AtWork.film = chain[1].for /\ chain \in Seq(Commands)
<1>1. chain \in Seq(Commands) /\ ChainFollowsPage
  BY DEF PageInv, PageTyped
<1>2. chain # << >> /\ AtWork = chain[1].work /\ AtWork.at = at
  BY DEF Works, AtWork
<1>3. chain[1] \in Commands
  BY <1>1, <1>2
<1>4. QED
  BY <1>1, <1>2, <1>3 DEF Commands, ChainFollowsPage

(* What the server makes of a request.                                            *)
LEMMA ServedReaches ==
  ASSUME PageTyped, NEW request \in PageRequests, ReachesItsProject(request), Served(request),
         NEW done \in {"answered", "followed"}
  PROVE  /\ EditsOnly
         /\ ServedAs(request, done, "refused") \in PageRequests
         /\ ServedAs(request, done, "refused") # NoRequest
         /\ ServedAs(request, done, "refused").film = request.film
         /\ Reaches(ServedAs(request, done, "refused"), revision')
<1>1. /\ revision \in [Film -> PageRevisions] /\ request.film \in Film /\ revision[request.film] >= 0
      /\ revision[request.film] \in PageRevisions /\ revision[request.film] \in Int
  BY DEF PageTyped, ReachesItsProject, Reaches, Created, PageRevisions
<1>2. CASE request.base = revision[request.film]
  <2>1. revision' = [revision EXCEPT ![request.film] = revision[request.film] + 1]
    BY <1>2 DEF Served
  <2>2. EditsOnly
    BY <1>1, <2>1 DEF EditsOnly, PageRevisions, Created
  <2>3. ServedAs(request, done, "refused") = [request EXCEPT !.at = done, !.rev = revision[request.film] + 1]
    BY <1>2 DEF ServedAs
  <2>4. revision'[request.film] = revision[request.film] + 1
    BY <1>1, <2>1
  <2>5. ASSUME NEW rev \in Int
        PROVE  [request EXCEPT !.at = done, !.rev = rev] \in PageRequests
    BY DEF PageRequests
  <2>6. ServedAs(request, done, "refused").film = request.film /\ ServedAs(request, done, "refused").at = done
        /\ ServedAs(request, done, "refused").rev = revision'[request.film]
    BY <2>3, <2>4 DEF PageRequests
  <2>7. ServedAs(request, done, "refused") \in PageRequests
    <3>1. revision[request.film] + 1 \in Int
      BY <1>1
    <3>2. [request EXCEPT !.at = done, !.rev = revision[request.film] + 1] \in PageRequests
      BY <2>5, <3>1, Zenon
    <3>3. QED
      BY <2>3, <3>2, Zenon
  <2>8. QED
    BY <1>1, <2>2, <2>4, <2>6, <2>7 DEF NoRequest, Reaches
<1>3. CASE request.base # revision[request.film]
  <2>1. revision' = revision
    BY <1>3 DEF Served
  <2>2. EditsOnly
    BY <1>1, <2>1 DEF EditsOnly, PageRevisions, Created
  <2>3. ServedAs(request, done, "refused") = [request EXCEPT !.at = "refused"]
    BY <1>3 DEF ServedAs
  <2>4. QED
    BY <1>1, <2>1, <2>2, <2>3 DEF PageRequests, NoRequest, ReachesItsProject, Reaches, Created
<1>4. QED
  BY <1>2, <1>3

LEMMA CommandServedKeeps ==
  ASSUME PageInv, CommandServed
  PROVE  PageInv'
<1> DEFINE served == ServedAs(AtWork, "answered", "refused")
<1>1. PageTyped
  BY DEF PageInv
<1>2. Works("asked") /\ Served(AtWork) /\ chain' = [chain EXCEPT ![1].work = served]
  BY DEF CommandServed, Work
<1>3. UNCHANGED <<page, given, transition, openings, upload, reload, told, asked, strayed>>
  BY DEF CommandServed
<1>4. /\ chain # << >> /\ AtWork = chain[1].work /\ AtWork \in PageRequests /\ ReachesItsProject(AtWork)
  BY <1>2, AtWorkIs
<1>5. /\ EditsOnly /\ served \in PageRequests /\ served # NoRequest /\ served.film = AtWork.film
      /\ Reaches(served, revision')
  BY <1>1, <1>2, <1>4, ServedReaches
<1> HIDE DEF served
<1>6. QED
  BY <1>2, <1>3, <1>4, <1>5, FirstCommandMoves

LEMMA ReadLatestKeeps ==
  ASSUME PageInv, ReadLatest
  PROVE  PageInv'
<1> DEFINE read == [AtWork EXCEPT !.at = "reloaded", !.rev = revision[AtWork.film]]
<1>1. PageTyped /\ revision \in [Film -> PageRevisions]
  BY DEF PageInv, PageTyped
<1>2. Works("refused") /\ chain' = [chain EXCEPT ![1].work = read] /\ revision' = revision
  BY DEF ReadLatest, Work
<1>3. UNCHANGED <<page, given, transition, openings, upload, reload, told, asked, strayed>>
  BY DEF ReadLatest
<1>4. /\ chain # << >> /\ AtWork = chain[1].work /\ AtWork \in PageRequests /\ ReachesItsProject(AtWork)
  BY <1>2, AtWorkIs
<1>5. read \in PageRequests /\ read # NoRequest /\ read.film = AtWork.film /\ Reaches(read, revision')
  <2>1. AtWork.film \in Film /\ revision[AtWork.film] >= 0 /\ revision[AtWork.film] \in Int
    BY <1>1, <1>4 DEF ReachesItsProject, Reaches, PageRevisions
  <2>2. read \in PageRequests /\ read.at = "reloaded" /\ read.film = AtWork.film /\ read.rev = revision[AtWork.film]
    BY <1>4, <2>1 DEF PageRequests
  <2> HIDE DEF read
  <2>3. revision'[read.film] = revision[AtWork.film] /\ read.film \in Film
    BY <1>2, <2>1, <2>2
  <2>4. read # NoRequest
    BY <2>2 DEF NoRequest
  <2>5. Reaches(read, revision')
    BY <2>1, <2>2, <2>3 DEF Reaches
  <2>6. QED
    BY <2>2, <2>4, <2>5
<1>6. EditsOnly
  BY <1>1, <1>2 DEF EditsOnly, Created, PageRevisions
<1> HIDE DEF read
<1>7. QED
  BY <1>2, <1>3, <1>4, <1>5, <1>6, FirstCommandMoves

(* The first command is over, and the page has heard of it or not.                 *)
LEMMA FirstCommandEnds ==
  ASSUME PageInv, chain # << >>, Turn(Tail(chain), page'),
         UNCHANGED <<revision, given, transition, openings, upload, reload, asked>>,
         page' \in [film : Film, rev : Int], page'.film = page.film, told' \in [Film -> PageRevisions],
         (\A f \in Film : told[f] <= revision[f])', (page.rev >= told[page.film])',
         \A f \in Film : told'[f] # told[f] => f = chain[1].for
  PROVE  PageInv'
<1>1. /\ PageTyped /\ chain \in Seq(Commands) /\ Len(chain) \in Nat /\ revision \in [Film -> PageRevisions]
      /\ Created(page.film) /\ strayed = FALSE
  BY DEF PageInv, PageTyped
<1>2. /\ Orderly(Tail(chain), given, page'.film) /\ Len(Tail(chain)) = Len(chain) - 1
  BY InOrder
<1>3. revision' = revision /\ given' = given /\ Created(page'.film)
  BY <1>1 DEF Created
<1>4. chain' \in Seq(Commands) /\ strayed' = FALSE /\ ChainFollowsPage' /\ Len(chain') = Len(Tail(chain))
  BY <1>1, <1>2, <1>3, TurnKeeps
<1>5. EditsOnly
  BY <1>1, <1>3 DEF EditsOnly, Created, PageRevisions
<1>6. (\A o \in openings : OpeningStands(o))' /\ (\A o, p \in openings : o.nr = p.nr => o = p)'
  <2>1. Len(chain') \in Nat /\ Len(chain') <= Len(chain)
    BY <1>1, <1>2, <1>4
  <2>2. chain' # << >> => Len(chain) > 1
    BY <1>1, <1>2, <1>4
  <2>3. chain' # << >> => chain # << >> /\ (Len(chain) <= 1 => chain'[1].for = chain[1].for)
    BY <1>1, <2>2
  <2>4. UNCHANGED <<openings, transition, given, asked>>
    OBVIOUS
  <2>5. QED
    BY <1>5, <2>1, <2>3, <2>4, OpeningsStand
<1>7. PageTyped'
  BY <1>1, <1>4 DEF PageTyped
<1>8. (upload # NoRequest => ReachesItsProject(upload))' /\ (reload.at = "reloaded" => ReachesItsProject(reload))'
  BY <1>3 DEF PageInv, ReachesItsProject, Reaches, Created
<1>9. /\ ((\A o \in openings : o.nr # transition) => page.film = asked)'
      /\ (openings # {} => upload = NoRequest /\ reload = NoRequest)'
      /\ Created(page.film)'
  BY <1>1, <1>3 DEF PageInv, Created
<1>10. QED
  BY <1>4, <1>6, <1>7, <1>8, <1>9 DEF PageInv

LEMMA CommandFailsKeeps ==
  ASSUME PageInv, CommandFails
  PROVE  PageInv'
<1>1. chain # << >> /\ Turn(Tail(chain), page) /\ page' = page /\ told' = told
  BY DEF CommandFails, Works
<1>2. UNCHANGED <<revision, given, transition, openings, upload, reload, asked>>
  BY DEF CommandFails
<1>3. /\ page' \in [film : Film, rev : Int] /\ page'.film = page.film /\ told' \in [Film -> PageRevisions]
      /\ (\A f \in Film : told[f] <= revision[f])' /\ (page.rev >= told[page.film])'
      /\ \A f \in Film : told'[f] # told[f] => f = chain[1].for
  BY <1>1, <1>2 DEF PageInv, PageTyped
<1>4. Turn(Tail(chain), page')
  BY <1>1
<1>5. QED
  BY <1>1, <1>2, <1>3, <1>4, FirstCommandEnds

LEMMA AnswerKeeps ==
  ASSUME PageInv, NEW at \in {"answered", "reloaded"}, Works(at), Publish(AtWork.film, AtWork.rev),
         Turn(Tail(chain), page'), UNCHANGED <<revision, given, transition, openings, upload, reload, asked>>
  PROVE  PageInv'
<1>1. /\ chain # << >> /\ AtWork \in PageRequests /\ ReachesItsProject(AtWork) /\ AtWork.at = at
      /\ AtWork.film = chain[1].for
  BY AtWorkIs
<1>2. PageTyped /\ revision \in [Film -> PageRevisions]
  BY DEF PageInv, PageTyped
<1>3. AtWork.film \in Film /\ AtWork.rev <= revision[AtWork.film] /\ AtWork.rev \in Int
  BY <1>1 DEF ReachesItsProject, Reaches, PageRequests
<1>4. /\ page' \in [film : Film, rev : Int] /\ told' \in [Film -> PageRevisions] /\ page'.film = page.film
      /\ (\A f \in Film : told[f] <= revision[f])' /\ (page.rev >= told[page.film])'
      /\ \A f \in Film : told'[f] # told[f] => f = chain[1].for
  BY <1>1, <1>2, <1>3, PublishKeeps
<1>5. QED
  BY <1>1, <1>4, FirstCommandEnds

LEMMA CommandAnsweredKeeps ==
  ASSUME PageInv, CommandAnswered
  PROVE  PageInv'
BY AnswerKeeps DEF CommandAnswered

LEMMA LatestArrivesKeeps ==
  ASSUME PageInv, LatestArrives
  PROVE  PageInv'
BY AnswerKeeps DEF LatestArrives

-------------------------------------------------------------------------------
(* A file, the save button and edits by others, for which no opening is under way. *)

(* Nothing of the commands or the openings changes.                               *)
LEMMA AsideKeeps ==
  ASSUME PageInv, EditsOnly, UNCHANGED <<chain, given, transition, openings, asked, strayed>>,
         page' \in [film : Film, rev : Int], page'.film = page.film, told' \in [Film -> PageRevisions],
         (\A f \in Film : told[f] <= revision[f])', (page.rev >= told[page.film])',
         upload' \in PageRequests, reload' \in PageRequests,
         (upload # NoRequest => ReachesItsProject(upload))',
         (reload.at = "reloaded" => ReachesItsProject(reload))',
         openings # {} => told' = told /\ upload' = NoRequest /\ reload' = NoRequest
  PROVE  PageInv'
<1>1. /\ PageTyped /\ chain \in Seq(Commands) /\ Len(chain) \in Nat /\ ChainFollowsPage
  BY DEF PageInv, PageTyped
<1>2. PageTyped'
  BY <1>1 DEF PageTyped, EditsOnly
<1>3. ChainFollowsPage'
  <2>1. chain # << >> => chain[1] \in Commands /\ chain[1].work \in PageRequests
    <3>1. chain # << >> => chain[1] \in Commands
      BY <1>1
    <3>2. QED
      BY <3>1 DEF Commands
  <2>2. chain # << >> => ReachesItsProject(chain[1].work)'
    BY <1>1, <2>1, RequestStands DEF ChainFollowsPage
  <2>3. QED
    BY <1>1, <2>2 DEF ChainFollowsPage
<1>4. (\A o \in openings : OpeningStands(o))' /\ (\A o, p \in openings : o.nr = p.nr => o = p)'
  <2>1. CASE openings = {}
    BY <2>1
  <2>2. CASE openings # {}
    <3>1. \A f \in Film : told'[f] # told[f] => chain # << >> /\ f = chain[1].for
      BY <2>2
    <3>2. UNCHANGED <<openings, transition, given, asked>>
      OBVIOUS
    <3>3. Len(chain') \in Nat /\ Len(chain') <= Len(chain) /\ chain' = chain
      BY <1>1
    <3>4. QED
      BY <3>1, <3>2, <3>3, OpeningsStand
  <2>3. QED
    BY <2>1, <2>2
<1>5. Created(page.film)'
  BY <1>1 DEF PageInv, EditsOnly, PageTyped
<1>6. /\ ((\A o \in openings : o.nr # transition) => page.film = asked)'
      /\ (openings # {} => upload = NoRequest /\ reload = NoRequest)'
  BY DEF PageInv
<1>7. QED
  BY <1>2, <1>3, <1>4, <1>5, <1>6 DEF PageInv

(* One of the two requests changes, and the page does not hear of it.              *)
LEMMA RequestKeeps ==
  ASSUME PageInv, EditsOnly, UNCHANGED <<page, told, chain, given, transition, openings, asked, strayed>>,
         openings = {} \/ UNCHANGED <<upload, reload>>,
         upload' \in PageRequests, upload' # NoRequest => Reaches(upload', revision'),
         reload' \in PageRequests, reload'.at = "reloaded" => Reaches(reload', revision')
  PROVE  PageInv'
<1>1. /\ PageTyped /\ page \in [film : Film, rev : Int] /\ told \in [Film -> PageRevisions]
      /\ revision \in [Film -> PageRevisions]
  BY DEF PageInv, PageTyped
<1>2. (\A f \in Film : told[f] <= revision[f])'
  <2>1. ASSUME NEW f \in Film
        PROVE  told[f] <= revision'[f]
    BY <1>1 DEF PageInv, EditsOnly, PageRevisions
  <2>2. QED
    BY <2>1
<1>3. (page.rev >= told[page.film])'
  BY DEF PageInv
<1>4. (upload # NoRequest => ReachesItsProject(upload))' /\ (reload.at = "reloaded" => ReachesItsProject(reload))'
  BY DEF ReachesItsProject, Reaches
<1>5. openings # {} => told' = told /\ upload' = NoRequest /\ reload' = NoRequest
  BY DEF PageInv
<1>6. page' \in [film : Film, rev : Int] /\ page'.film = page.film /\ told' \in [Film -> PageRevisions]
  BY <1>1
<1>7. UNCHANGED <<chain, given, transition, openings, asked, strayed>>
  OBVIOUS
<1>8. QED
  BY <1>2, <1>3, <1>4, <1>5, <1>6, <1>7, AsideKeeps

LEMMA RequestsAre ==
  ASSUME PageInv
  PROVE  /\ PageTyped /\ upload \in PageRequests /\ reload \in PageRequests /\ NoRequest \in PageRequests
         /\ upload # NoRequest => Reaches(upload, revision)
         /\ reload.at = "reloaded" => Reaches(reload, revision)
         /\ upload # NoRequest \/ reload # NoRequest => openings = {}
         /\ revision' = revision => EditsOnly
<1>1. PageTyped /\ revision \in [Film -> PageRevisions]
  BY DEF PageInv, PageTyped
<1>2. revision' = revision => EditsOnly
  BY <1>1 DEF EditsOnly, Created, PageRevisions
<1>3. NoRequest \in PageRequests
  BY DEF NoRequest, PageRequests
<1>4. QED
  BY <1>1, <1>2, <1>3 DEF PageInv, PageTyped, ReachesItsProject

LEMMA UploadFileKeeps ==
  ASSUME PageInv, ~Hasty, UploadFile
  PROVE  PageInv'
<1>1. /\ openings = {} /\ upload' = [at |-> "asked", film |-> page.film, base |-> page.rev, rev |-> -1]
      /\ revision' = revision /\ reload' = reload
      /\ UNCHANGED <<page, told, chain, given, transition, openings, asked, strayed>>
  BY DEF UploadFile, Quiet
<1>2. page.film \in Film /\ page.rev \in Int /\ revision[page.film] >= 0
  BY DEF PageInv, PageTyped, Created
<1>3. upload' \in PageRequests /\ Reaches(upload', revision')
  BY <1>1, <1>2 DEF PageRequests, Reaches
<1>4. QED
  BY <1>1, <1>3, RequestsAre, RequestKeeps

LEMMA UploadServedKeeps ==
  ASSUME PageInv, UploadServed
  PROVE  PageInv'
<1>1. /\ upload.at \in {"asked", "follows"} /\ Served(upload) /\ reload' = reload
      /\ UNCHANGED <<page, told, chain, given, transition, openings, asked, strayed>>
  BY DEF UploadServed
<1>2. PICK done \in {"answered", "followed"} : upload' = ServedAs(upload, done, "refused")
  BY DEF UploadServed
<1>3. PageTyped /\ upload \in PageRequests /\ ReachesItsProject(upload) /\ openings = {}
  BY <1>1, RequestsAre DEF NoRequest, ReachesItsProject
<1>4. EditsOnly /\ upload' \in PageRequests /\ Reaches(upload', revision')
  BY <1>1, <1>2, <1>3, ServedReaches
<1>5. reload \in PageRequests /\ (reload.at = "reloaded" => Reaches(reload, revision'))
  BY <1>3, <1>4, RequestsAre, RequestStands DEF ReachesItsProject, Reaches
<1>6. QED
  BY <1>1, <1>3, <1>4, <1>5, RequestKeeps

LEMMA FollowUpKeeps ==
  ASSUME PageInv, FollowUp
  PROVE  PageInv'
<1>1. /\ upload.at = "answered" /\ upload' = [upload EXCEPT !.at = "follows", !.base = upload.rev]
      /\ revision' = revision /\ reload' = reload
      /\ UNCHANGED <<page, told, chain, given, transition, openings, asked, strayed>>
  BY DEF FollowUp
<1>2. upload \in PageRequests /\ Reaches(upload, revision) /\ openings = {}
  BY <1>1, RequestsAre DEF NoRequest
<1>3. upload' \in PageRequests
  BY <1>1, <1>2 DEF PageRequests
<1>4. upload'.film = upload.film /\ upload'.at = "follows"
  BY <1>1, <1>2 DEF PageRequests
<1>5. Reaches(upload', revision')
  BY <1>1, <1>2, <1>4 DEF Reaches
<1>6. QED
  BY <1>1, <1>2, <1>3, <1>5, RequestsAre, RequestKeeps

LEMMA UploadFailsKeeps ==
  ASSUME PageInv, UploadFails
  PROVE  PageInv'
<1>1. /\ upload # NoRequest /\ upload' = NoRequest /\ revision' = revision /\ reload' = reload
      /\ UNCHANGED <<page, told, chain, given, transition, openings, asked, strayed>>
  BY DEF UploadFails
<1>2. QED
  BY <1>1, RequestsAre, RequestKeeps

LEMMA SaveProjectKeeps ==
  ASSUME PageInv, ~Hasty, SaveProject
  PROVE  PageInv'
<1>1. /\ openings = {} /\ reload' = [NoRequest EXCEPT !.at = "asked", !.base = given]
      /\ revision' = revision /\ upload' = upload
      /\ UNCHANGED <<page, told, chain, given, transition, openings, asked, strayed>>
  BY DEF SaveProject, Quiet
<1>2. given \in Int
  BY DEF PageInv, PageTyped
<1>3. reload' \in PageRequests /\ reload'.at # "reloaded"
  <2>1. reload' = [at |-> "asked", film |-> NoFilm, base |-> given, rev |-> -1]
    BY <1>1 DEF NoRequest
  <2>2. QED
    BY <1>2, <2>1 DEF PageRequests
<1>4. QED
  BY <1>1, <1>3, RequestsAre, RequestKeeps

LEMMA SaveServedKeeps ==
  ASSUME PageInv, SaveServed
  PROVE  PageInv'
<1>1. /\ reload.at = "asked" /\ revision' = revision /\ upload' = upload
      /\ reload' = [reload EXCEPT !.at = "reloaded", !.film = page.film, !.rev = revision[page.film]]
      /\ UNCHANGED <<page, told, chain, given, transition, openings, asked, strayed>>
  BY DEF SaveServed
<1>2. reload \in PageRequests /\ openings = {}
  BY <1>1, RequestsAre DEF NoRequest
<1>3. page.film \in Film /\ revision[page.film] \in Int /\ revision[page.film] >= 0
  BY DEF PageInv, PageTyped, Created, PageRevisions
<1>4. reload'.at = "reloaded" /\ reload'.film = page.film /\ reload'.rev = revision[page.film]
  BY <1>1, <1>2 DEF PageRequests
<1>5. reload' \in PageRequests
  BY <1>1, <1>2, <1>3 DEF PageRequests
<1>6. Reaches(reload', revision')
  BY <1>1, <1>3, <1>4 DEF Reaches
<1>7. QED
  BY <1>1, <1>2, <1>5, <1>6, RequestsAre, RequestKeeps

(* The page hears of one of the two.                                              *)
LEMMA HearKeeps ==
  ASSUME PageInv, NEW request \in PageRequests, Reaches(request, revision),
         request.at \in {"answered", "followed", "reloaded"}, Publish(request.film, request.rev),
         UNCHANGED <<revision, chain, given, transition, openings, asked, strayed>>, openings = {},
         upload' \in {upload, NoRequest}, reload' \in {reload, NoRequest}
  PROVE  PageInv'
<1>1. request.film \in Film /\ request.rev <= revision[request.film] /\ request.rev \in Int
  BY DEF Reaches, PageRequests
<1>2. /\ page' \in [film : Film, rev : Int] /\ told' \in [Film -> PageRevisions] /\ page'.film = page.film
      /\ (\A f \in Film : told[f] <= revision[f])' /\ (page.rev >= told[page.film])'
  BY <1>1, PublishKeeps
<1>3. /\ EditsOnly /\ upload' \in PageRequests /\ reload' \in PageRequests
      /\ (upload # NoRequest => ReachesItsProject(upload))' /\ (reload.at = "reloaded" => ReachesItsProject(reload))'
  BY RequestsAre DEF ReachesItsProject, Reaches, NoRequest
<1>4. UNCHANGED <<chain, given, transition, openings, asked, strayed>>
  OBVIOUS
<1>5. QED
  BY <1>2, <1>3, <1>4, AsideKeeps

LEMMA UploadAnsweredKeeps ==
  ASSUME PageInv, UploadAnswered
  PROVE  PageInv'
<1>1. /\ upload.at \in {"answered", "followed"} /\ Publish(upload.film, upload.rev)
      /\ upload' = NoRequest /\ reload' = reload
      /\ UNCHANGED <<revision, chain, given, transition, openings, asked, strayed>>
  BY DEF UploadAnswered
<1>2. upload \in PageRequests /\ Reaches(upload, revision) /\ openings = {}
  BY <1>1, RequestsAre DEF NoRequest
<1>3. QED
  BY <1>1, <1>2, HearKeeps

LEMMA SaveAnsweredKeeps ==
  ASSUME PageInv, SaveAnswered
  PROVE  PageInv'
<1>1. /\ reload.at = "reloaded" /\ Publish(reload.film, reload.rev)
      /\ reload' = NoRequest /\ upload' = upload
      /\ UNCHANGED <<revision, chain, given, transition, openings, asked, strayed>>
  BY DEF SaveAnswered
<1>2. reload \in PageRequests /\ Reaches(reload, revision) /\ openings = {}
  BY <1>1, RequestsAre DEF NoRequest
<1>3. QED
  BY <1>1, <1>2, HearKeeps

LEMMA EditByOtherPagesKeeps ==
  ASSUME PageInv, NEW film \in Film, EditByOtherPages(film)
  PROVE  PageInv'
<1>1. /\ revision[film] >= 0 /\ revision' = [revision EXCEPT ![film] = revision[film] + 1]
      /\ UNCHANGED <<page, told, chain, given, transition, openings, asked, strayed>>
      /\ UNCHANGED <<upload, reload>>
  BY DEF EditByOtherPages
<1>2. revision \in [Film -> PageRevisions]
  BY DEF PageInv, PageTyped
<1>3. EditsOnly
  BY <1>1, <1>2 DEF EditsOnly, PageRevisions, Created
<1>4. /\ upload \in PageRequests /\ (upload # NoRequest => Reaches(upload, revision'))
      /\ reload \in PageRequests /\ (reload.at = "reloaded" => Reaches(reload, revision'))
  BY <1>3, RequestsAre, RequestStands DEF ReachesItsProject, Reaches
<1>5. QED
  BY <1>1, <1>3, <1>4, RequestKeeps

-------------------------------------------------------------------------------
(* Openings and creations.                                                        *)

LEMMA TransitionKeeps ==
  ASSUME PageInv, ~Hasty, NEW film \in Film, NEW at, NEW after, Transition(film, at, after),
         \/ at = "waits" /\ after = given /\ Created(film)
         \/ at = "creates" /\ after = 0 /\ ~Created(film) /\ Len(chain) <= 1 /\ \A o \in openings : o.film # film
  PROVE  PageInv'
<1>0. PICK new : new = [nr |-> transition + 1, film |-> film, at |-> at, after |-> after, rev |-> -1]
  OBVIOUS
<1>1. /\ upload = NoRequest /\ reload = NoRequest /\ transition' = transition + 1
      /\ openings' = openings \cup {new} /\ asked' = film
      /\ UNCHANGED <<revision, page, chain, given, upload, reload, told, strayed>>
  BY <1>0 DEF Transition
<1>2. /\ PageTyped /\ given \in Nat /\ transition \in Nat /\ openings \subseteq Openings
      /\ \A o \in openings : OpeningStands(o) /\ o.nr <= transition /\ o.nr \in Nat
  <2>1. PageTyped /\ \A o \in openings : OpeningStands(o)
    BY DEF PageInv
  <2>2. QED
    BY <2>1 DEF PageTyped, OpeningStands, Openings
<1>3. /\ new \in Openings /\ new.nr = transition + 1 /\ new.film = film /\ new.at = at /\ new.after = after
      /\ at \in {"waits", "creates"}
  BY <1>0, <1>2 DEF Openings, PageRevisions
<1>4. PageTyped'
  BY <1>1, <1>2, <1>3 DEF PageTyped
<1>5. ASSUME NEW o \in openings
      PROVE  OpeningStands(o)'
  <2>1. OpeningStands(o) /\ o.nr # transition + 1 /\ o.nr <= transition + 1
    BY <1>2
  <2>2. o.at = "creates" => ~Created(o.film) /\ o.film # film
    BY <2>1 DEF OpeningStands
  <2>3. (o.at = "creates" => ~Created(o.film) /\ \A p \in openings : p.film = o.film => p = o)'
    BY <1>1, <1>3, <2>1, <2>2 DEF OpeningStands, Created
  <2>4. (o.at = "loaded" => /\ Created(o.film) /\ o.rev <= revision[o.film]
                            /\ chain # << >> => chain[1].for # o.film
                            /\ o.nr = transition => o.rev >= told[o.film])'
    BY <1>1, <2>1 DEF OpeningStands, Created
  <2>5. QED
    BY <1>1, <2>1, <2>3, <2>4 DEF OpeningStands, Created
<1>6. OpeningStands(new)'
  <2>1. (new.at = "creates" => ~Created(new.film) /\ \A p \in openings : p.film = new.film => p = new)'
    BY <1>1, <1>3 DEF Created
  <2>2. (new.at = "waits" => Created(new.film) /\ new.after = given)'
    BY <1>1, <1>3 DEF Created
  <2>3. new.at # "loaded" /\ (new.at # "waits" => Len(chain') <= 1)
    BY <1>1, <1>3
  <2>4. (new.nr <= transition)' /\ (new.nr = transition => new.film = asked)'
    BY <1>1, <1>2, <1>3
  <2>5. QED
    BY <2>1, <2>2, <2>3, <2>4 DEF OpeningStands
<1>7. (\A o, p \in openings : o.nr = p.nr => o = p)'
  <2>1. \A o \in openings : o.nr # new.nr
    BY <1>2, <1>3
  <2>2. QED
    BY <1>1, <2>1 DEF PageInv
<1>8. ((\A o \in openings : o.nr # transition) => page.film = asked)'
  BY <1>1, <1>3
<1>9. /\ (openings # {} => upload = NoRequest /\ reload = NoRequest)'
      /\ (\A o \in openings : OpeningStands(o))'
  BY <1>1, <1>5, <1>6
<1>10. /\ Created(page.film)' /\ (\A f \in Film : told[f] <= revision[f])' /\ (page.rev >= told[page.film])'
       /\ ChainFollowsPage' /\ (upload # NoRequest => ReachesItsProject(upload))'
       /\ (reload.at = "reloaded" => ReachesItsProject(reload))'
  BY <1>1 DEF PageInv, Created, ChainFollowsPage, ReachesItsProject
<1>11. QED
  BY <1>4, <1>7, <1>8, <1>9, <1>10 DEF PageInv

LEMMA OpenProjectKeeps ==
  ASSUME PageInv, ~Hasty, NEW film \in Film, OpenProject(film)
  PROVE  PageInv'
BY TransitionKeeps DEF OpenProject, Awaited, Created

LEMMA CreateNewProjectKeeps ==
  ASSUME PageInv, ~Hasty, NEW film \in Film, CreateNewProject(film)
  PROVE  PageInv'
<1>1. ~Created(film) /\ Len(chain) <= 1 /\ (\A o \in openings : o.film # film) /\ Transition(film, "creates", 0)
  BY DEF CreateNewProject, Created
<1>2. QED
  BY <1>1, TransitionKeeps

(* When what was given before an opening is over, nothing is under way in the      *)
(* chain; nothing is asked of a project that is being created.                     *)
LEMMA NothingBefore ==
  ASSUME PageInv, NEW o \in openings
  PROVE  /\ o \in Openings /\ OpeningStands(o)
         /\ o.at = "waits" /\ Over(o.after) => chain = << >>
         /\ o.at = "creates" /\ chain # << >> => chain[1].for # o.film
<1>1. PageTyped /\ o \in Openings /\ OpeningStands(o) /\ ChainFollowsPage /\ chain \in Seq(Commands)
  BY DEF PageInv, PageTyped
<1>2. ASSUME o.at = "waits", Over(o.after), chain # << >>
      PROVE  FALSE
  <2>1. o.after = given /\ given \in Nat
    BY <1>1, <1>2 DEF OpeningStands, PageTyped
  <2>2. 1 \in DOMAIN chain /\ chain[1] \in Commands
    BY <1>1, <1>2
  <2>3. chain[1].nr \in Nat /\ chain[1].nr <= given /\ chain[1].nr > given
    BY <1>1, <1>2, <2>1, <2>2 DEF Commands, ChainFollowsPage, Over
  <2>4. QED
    BY <2>1, <2>3
<1>3. ASSUME o.at = "creates", chain # << >>
      PROVE  chain[1].for # o.film
  <2>1. revision[chain[1].for] >= 0
    BY <1>1, <1>3 DEF ChainFollowsPage, ReachesItsProject, Reaches
  <2>2. ~(revision[o.film] >= 0)
    BY <1>1, <1>3 DEF OpeningStands, Created
  <2>3. QED
    BY <2>1, <2>2
<1>4. QED
  BY <1>1, <1>2, <1>3

LEMMA OpeningServedKeeps ==
  ASSUME PageInv, NEW o \in openings, OpeningServed(o)
  PROVE  PageInv'
<1>0. PICK loaded : loaded = [o EXCEPT !.at = "loaded", !.rev = revision'[o.film]]
  OBVIOUS
<1>1. /\ openings' = (openings \ {o}) \cup {loaded}
      /\ UNCHANGED <<page, chain, given, transition, upload, reload, told, asked, strayed>>
  BY <1>0 DEF OpeningServed
<1>2. /\ PageTyped /\ revision \in [Film -> PageRevisions] /\ told \in [Film -> PageRevisions]
      /\ chain \in Seq(Commands) /\ ChainFollowsPage /\ openings \subseteq Openings
      /\ upload = NoRequest /\ reload = NoRequest
      /\ \A p, q \in openings : p.nr = q.nr => p = q
      /\ Created(page.film) /\ \A f \in Film : told[f] <= revision[f]
  BY DEF PageInv, PageTyped
<1>3. o \in Openings /\ o.film \in Film /\ OpeningStands(o)
  BY NothingBefore DEF Openings
(* What of the projects changes, and what the opening finds.                      *)
<1>4. /\ revision' \in [Film -> PageRevisions] /\ revision'[o.film] >= 0 /\ revision'[o.film] \in Int
      /\ told[o.film] <= revision'[o.film]
      /\ \A f \in Film : f # o.film => revision'[f] = revision[f]
      /\ revision[o.film] >= 0 => revision' = revision
      /\ chain # << >> => chain[1].for # o.film
  <2>1. CASE o.at = "waits"
    <3>1. chain = << >> /\ revision' = revision /\ Created(o.film)
      BY <1>3, <2>1, NothingBefore DEF OpeningServed, OpeningStands
    <3>2. QED
      BY <1>2, <1>3, <3>1 DEF Created, PageRevisions
  <2>2. CASE o.at = "creates"
    <3>1. revision' = [revision EXCEPT ![o.film] = 0] /\ ~Created(o.film) /\ (chain # << >> => chain[1].for # o.film)
      BY <1>3, <2>2, NothingBefore DEF OpeningServed, OpeningStands
    <3>2. told[o.film] <= revision[o.film] /\ told[o.film] \in Int /\ revision[o.film] \in Int
      BY <1>2, <1>3 DEF PageRevisions
    <3>3. QED
      BY <1>2, <1>3, <3>1, <3>2 DEF Created, PageRevisions
  <2>3. QED
    BY <2>1, <2>2 DEF OpeningServed
<1>5. /\ loaded \in Openings /\ loaded.at = "loaded" /\ loaded.film = o.film /\ loaded.nr = o.nr
      /\ loaded.rev = revision'[o.film]
  <2>1. revision'[o.film] \in PageRevisions
    BY <1>3, <1>4
  <2>2. QED
    BY <1>0, <1>3, <2>1 DEF Openings
<1>6. PageTyped'
  BY <1>1, <1>2, <1>4, <1>5 DEF PageTyped
<1>7. \A f \in Film : Created(f) => Created(f)' /\ revision'[f] = revision[f]
  BY <1>2, <1>4 DEF Created
<1>8. \A f \in Film : told'[f] <= revision'[f]
  BY <1>1, <1>2, <1>3, <1>4
<1>9. Created(page.film)' /\ (page.rev >= told[page.film])'
  BY <1>1, <1>2, <1>7 DEF PageInv, PageTyped, Created
<1>10. ChainFollowsPage'
  <2>1. chain # << >> => ReachesItsProject(chain[1].work)'
    BY <1>1, <1>2, <1>7 DEF ChainFollowsPage, ReachesItsProject, Reaches, Created
  <2>2. QED
    BY <1>1, <1>2, <2>1 DEF ChainFollowsPage
<1>11. OpeningStands(loaded)'
  <2>1. (loaded.nr <= transition)' /\ (loaded.nr = transition => loaded.film = asked)'
    BY <1>1, <1>3, <1>5 DEF OpeningStands
  <2>2. Len(chain) <= 1
    <3>1. CASE o.at = "waits"
      BY <1>2, <3>1, NothingBefore DEF OpeningServed
    <3>2. CASE o.at # "waits"
      BY <1>3, <3>2 DEF OpeningStands
    <3>3. QED
      BY <3>1, <3>2
  <2>3. (/\ Created(loaded.film) /\ loaded.rev <= revision[loaded.film]
         /\ chain # << >> => chain[1].for # loaded.film
         /\ loaded.nr = transition => loaded.rev >= told[loaded.film])'
    <3>1. told[o.film] \in Int
      BY <1>2, <1>3 DEF PageRevisions
    <3>2. QED
      BY <1>1, <1>4, <1>5, <3>1 DEF Created
  <2>4. QED
    BY <1>1, <1>5, <2>1, <2>2, <2>3 DEF OpeningStands
<1>12. ASSUME NEW p \in openings, p # o
       PROVE  OpeningStands(p)'
  <2>1. OpeningStands(p) /\ p.film \in Film /\ p \in Openings
    BY <1>2 DEF PageInv, Openings
  <2>2. p.at = "creates" => p.film # o.film
    BY <2>1, <1>12 DEF OpeningStands
  <2>3. (p.at = "creates" => ~Created(p.film) /\ \A q \in openings : q.film = p.film => q = p)'
    BY <1>1, <1>4, <1>5, <2>1, <2>2 DEF OpeningStands, Created
  <2>4. (p.at = "waits" => Created(p.film) /\ p.after = given)'
    BY <1>1, <1>7, <2>1 DEF OpeningStands
  <2>5. (p.at = "loaded" => /\ Created(p.film) /\ p.rev <= revision[p.film]
                            /\ chain # << >> => chain[1].for # p.film
                            /\ p.nr = transition => p.rev >= told[p.film])'
    BY <1>1, <1>7, <2>1 DEF OpeningStands
  <2>6. QED
    BY <1>1, <2>1, <2>3, <2>4, <2>5 DEF OpeningStands
<1>13. (\A p \in openings : OpeningStands(p))'
  BY <1>1, <1>11, <1>12
<1>14. (\A p, q \in openings : p.nr = q.nr => p = q)'
  BY <1>1, <1>2, <1>5
<1>15. ((\A p \in openings : p.nr # transition) => page.film = asked)'
  <2>1. ASSUME \A p \in openings' : p.nr # transition
        PROVE  \A p \in openings : p.nr # transition
    BY <1>1, <1>5, <2>1
  <2>2. QED
    BY <1>1, <2>1 DEF PageInv
<1>16. /\ (openings # {} => upload = NoRequest /\ reload = NoRequest)'
       /\ (upload # NoRequest => ReachesItsProject(upload))' /\ (reload.at = "reloaded" => ReachesItsProject(reload))'
  BY <1>1, <1>2 DEF NoRequest
<1>17. QED
  BY <1>6, <1>8, <1>9, <1>10, <1>13, <1>14, <1>15, <1>16 DEF PageInv

(* Others stand when one is gone, whatever the page shows.                        *)
LEMMA OthersStand ==
  ASSUME PageInv, NEW o \in openings, openings' = openings \ {o},
         UNCHANGED <<revision, chain, given, transition>>,
         \A p \in openings \ {o} : p.nr = transition => asked' = asked /\ told' = told
  PROVE  /\ (\A p \in openings : OpeningStands(p))' /\ (\A p, q \in openings : p.nr = q.nr => p = q)'
<1>1. (\A p \in openings : OpeningStands(p)) /\ (\A p, q \in openings : p.nr = q.nr => p = q)
  BY DEF PageInv
<1>2. ASSUME NEW p \in openings, p # o
      PROVE  OpeningStands(p)'
  <2>1. OpeningStands(p)
    BY <1>1
  <2>2. (p.at = "loaded" => /\ Created(p.film) /\ p.rev <= revision[p.film]
                            /\ chain # << >> => chain[1].for # p.film
                            /\ p.nr = transition => p.rev >= told[p.film])'
    BY <1>2, <2>1 DEF OpeningStands, Created
  <2>3. (p.nr <= transition)' /\ (p.nr = transition => p.film = asked)'
    BY <1>2, <2>1 DEF OpeningStands
  <2>4. QED
    BY <2>1, <2>2, <2>3 DEF OpeningStands, Created
<1>3. QED
  BY <1>1, <1>2

LEMMA OpeningAnsweredKeeps ==
  ASSUME PageInv, NEW o \in openings, OpeningAnswered(o)
  PROVE  PageInv'
<1>1. /\ o.at = "loaded" /\ openings' = openings \ {o}
      /\ UNCHANGED <<revision, chain, given, transition, upload, reload, asked, strayed>>
  BY DEF OpeningAnswered
<1>2. /\ PageTyped /\ revision \in [Film -> PageRevisions] /\ told \in [Film -> PageRevisions]
      /\ chain \in Seq(Commands) /\ ChainFollowsPage /\ openings \subseteq Openings
      /\ page \in [film : Film, rev : Int]
      /\ \A p, q \in openings : p.nr = q.nr => p = q
      /\ Created(page.film) /\ page.rev >= told[page.film] /\ \A f \in Film : told[f] <= revision[f]
  BY DEF PageInv, PageTyped
<1>3. o \in Openings /\ o.film \in Film /\ o.rev \in PageRevisions /\ OpeningStands(o)
  BY NothingBefore DEF Openings
<1>4. /\ Created(o.film) /\ o.rev <= revision[o.film] /\ Len(chain) <= 1
      /\ o.nr = transition => o.rev >= told[o.film] /\ o.film = asked
  BY <1>1, <1>3 DEF OpeningStands
<1>5. CASE o.nr = transition
  <2>1. /\ page' = [film |-> o.film, rev |-> o.rev]
        /\ told' = [told EXCEPT ![o.film] = IF o.rev > told[o.film] THEN o.rev ELSE told[o.film]]
    BY <1>2, <1>3, <1>5 DEF OpeningAnswered, Hear
  <2>2. told' \in [Film -> PageRevisions] /\ (\A f \in Film : told[f] <= revision[f])' /\ told'[o.film] <= o.rev
    BY <1>1, <1>2, <1>3, <1>4, <1>5, <2>1 DEF PageRevisions
  <2>3. page' \in [film : Film, rev : Int] /\ page'.film = o.film /\ page'.rev = o.rev
    BY <1>3, <2>1 DEF PageRevisions
  <2>4. PageTyped'
    BY <1>1, <1>2, <2>2, <2>3 DEF PageTyped
  <2>5. ChainFollowsPage'
    <3>1. \A i \in DOMAIN chain : ~(i > 1)
      BY <1>2, <1>4
    <3>2. QED
      BY <1>1, <1>2, <3>1 DEF ChainFollowsPage, ReachesItsProject
  <2>6. \A p \in openings \ {o} : p.nr # transition
    BY <1>2, <1>5
  <2>7. /\ (\A p \in openings : OpeningStands(p))' /\ (\A p, q \in openings : p.nr = q.nr => p = q)'
    BY <1>1, <2>6, OthersStand
  <2>8. Created(page.film)' /\ (page.rev >= told[page.film])' /\ (page.film = asked)'
    <3>1. told'[o.film] \in Int
      BY <1>3, <2>2 DEF PageRevisions
    <3>2. QED
      BY <1>1, <1>3, <1>4, <1>5, <2>2, <2>3, <3>1 DEF Created, PageRevisions
  <2>9. /\ (openings # {} => upload = NoRequest /\ reload = NoRequest)'
        /\ (upload # NoRequest => ReachesItsProject(upload))' /\ (reload.at = "reloaded" => ReachesItsProject(reload))'
    BY <1>1 DEF PageInv, ReachesItsProject
  <2>10. QED
    BY <2>2, <2>4, <2>5, <2>7, <2>8, <2>9 DEF PageInv
<1>6. CASE o.nr # transition
  <2>1. page' = page /\ told' = told
    BY <1>6 DEF OpeningAnswered
  <2>2. /\ (\A p \in openings : OpeningStands(p))' /\ (\A p, q \in openings : p.nr = q.nr => p = q)'
    BY <1>1, <2>1, OthersStand
  <2>3. ((\A p \in openings : p.nr # transition) => page.film = asked)'
    BY <1>1, <1>6, <2>1 DEF PageInv
  <2>4. PageTyped'
    BY <1>1, <1>2, <2>1 DEF PageTyped
  <2>5. QED
    BY <1>1, <2>1, <2>2, <2>3, <2>4 DEF PageInv, Created, ChainFollowsPage, ReachesItsProject
<1>7. QED
  BY <1>5, <1>6

LEMMA OpeningFailsKeeps ==
  ASSUME PageInv, NEW o \in openings, OpeningFails(o)
  PROVE  PageInv'
<1>1. /\ openings' = openings \ {o}
      /\ UNCHANGED <<revision, page, chain, given, transition, upload, reload, told, strayed>>
      /\ asked' = IF o.nr = transition THEN page.film ELSE asked
  BY DEF OpeningFails
<1>2. /\ PageTyped /\ page.film \in Film /\ \A p, q \in openings : p.nr = q.nr => p = q
  BY DEF PageInv, PageTyped
<1>3. \A p \in openings \ {o} : p.nr = transition => asked' = asked /\ told' = told
  BY <1>1, <1>2
<1>4. /\ (\A p \in openings : OpeningStands(p))' /\ (\A p, q \in openings : p.nr = q.nr => p = q)'
  BY <1>1, <1>3, OthersStand
<1>5. ((\A p \in openings : p.nr # transition) => page.film = asked)'
  BY <1>1 DEF PageInv
<1>6. PageTyped'
  BY <1>1, <1>2 DEF PageTyped
<1>7. QED
  BY <1>1, <1>4, <1>5, <1>6 DEF PageInv, Created, ChainFollowsPage, ReachesItsProject

-------------------------------------------------------------------------------
LEMMA PageInitSound == PageInit => PageInv
<1>1. SUFFICES ASSUME PageInit PROVE PageInv
  OBVIOUS
<1>2. PICK film \in Film : revision[film] = 0 /\ page = [film |-> film, rev |-> 0]
  BY <1>1 DEF PageInit
<1>3. /\ revision \in [Film -> {-1, 0}] /\ chain = << >> /\ given = 0 /\ transition = 0 /\ openings = {}
      /\ upload = NoRequest /\ reload = NoRequest /\ asked = film /\ strayed = FALSE
      /\ told = [f \in Film |-> IF f = film THEN 0 ELSE -1]
  BY <1>1, <1>2 DEF PageInit
<1>4. /\ revision \in [Film -> PageRevisions] /\ told \in [Film -> PageRevisions]
      /\ \A f \in Film : told[f] <= revision[f]
  BY <1>2, <1>3 DEF PageRevisions
<1>5. PageTyped
  <2>1. NoRequest \in PageRequests /\ << >> \in Seq(Commands)
    BY DEF NoRequest, PageRequests
  <2>2. QED
    BY <1>2, <1>3, <1>4, <2>1 DEF PageTyped
<1>6. ChainFollowsPage
  BY <1>3 DEF ChainFollowsPage
<1>7. QED
  BY <1>2, <1>3, <1>4, <1>5, <1>6 DEF PageInv, Created, NoRequest

LEMMA PageStill ==
  ASSUME PageInv, UNCHANGED pageVars
  PROVE  PageInv'
BY DEF pageVars, PageInv, PageTyped, Created, ChainFollowsPage, ReachesItsProject, OpeningStands

LEMMA PageNextKeeps == ~Hasty => (PageInv /\ [PageNext]_pageVars => PageInv')
<1>1. SUFFICES ASSUME ~Hasty, PageInv, [PageNext]_pageVars PROVE PageInv'
  OBVIOUS
<1>2. CASE PageNext
  BY <1>1, <1>2, PersistCommandKeeps, CommandServedKeeps, CommandFailsKeeps, CommandAnsweredKeeps, ReadLatestKeeps,
     LatestArrivesKeeps, OpenProjectKeeps, CreateNewProjectKeeps, EditByOtherPagesKeeps, OpeningServedKeeps,
     OpeningAnsweredKeeps, OpeningFailsKeeps, UploadFileKeeps, UploadServedKeeps, FollowUpKeeps, UploadAnsweredKeeps,
     UploadFailsKeeps, SaveProjectKeeps, SaveServedKeeps, SaveAnsweredKeeps DEF PageNext
<1>3. CASE UNCHANGED pageVars
  BY <1>1, <1>3, PageStill
<1>4. QED
  BY <1>1, <1>2, <1>3

(* Whatever is answered when, where the page lets no command, file, save or opening *)
(* begin beside an opening: a command is made of the project it was given for, the *)
(* page does not fall behind what it was told, and it shows what was asked for     *)
(* last; for any number of projects, commands, openings, files and edits.          *)
THEOREM PageStaysTrue == ~Hasty => (PageSpec => []PageIsTrue)
<1>1. SUFFICES ASSUME ~Hasty PROVE PageSpec => []PageIsTrue
  OBVIOUS
<1>2. PageInv /\ [PageNext]_pageVars => PageInv'
  BY <1>1, PageNextKeeps
<1>3. PageInv => PageIsTrue
  BY DEF PageInv, PageTyped, PageIsTrue
<1>4. QED
  BY <1>2, <1>3, PageInitSound, PTL DEF PageSpec
================================================================================
