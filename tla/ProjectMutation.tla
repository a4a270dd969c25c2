---------------------------- MODULE ProjectMutation ----------------------------
(* lib/project/mutation-coordinator.ts over lib/project/repository.ts: every  *)
(* write of a Project goes through a file lock, a write-ahead operation log    *)
(* (operations.jsonl) and an atomic replacement of project.json.               *)
(*                                                                             *)
(* A worker is one call in progress, in this or in another server process.     *)
(* Between two writes to disk the process may die; the write of a log line may *)
(* be cut short; the save may fail.  A document is abstracted to the sequence  *)
(* of edits it was made by, so its revision is the length of that sequence.    *)
(* The log is abstracted to what every reader of it computes: the latest       *)
(* record of each operation, and the order of those records in the file;       *)
(* compaction drops the records behind a later one and so keeps both.          *)
EXTENDS Naturals, Sequences, FiniteSets

CONSTANTS
  Worker,          \* calls that can be in progress at once
  Op,              \* operation ids
  Payload,         \* fingerprints of the mutations
  MaxRevision,     \* bound: no mutation is accepted at this revision
  LateSaveErrors,  \* whether save may throw after project.json was replaced
  NoWorker, NoPayload

ASSUME WorkerAssumption == NoWorker \notin Worker
ASSUME PayloadAssumption == NoPayload \notin Payload
ASSUME BoundAssumption == MaxRevision \in Nat
ASSUME LateSaveAssumption == LateSaveErrors \in BOOLEAN

VARIABLES
  edits,   \* project.json: the edits the stored document was made by
  latest,  \* operations.jsonl: the latest record of each operation
  order,   \* operations.jsonl: the operations, by the place of their latest record
  tail,    \* how the log ends: "clean", "torn" or, beyond repair, "corrupt"
  lock,    \* the holder of operations.jsonl.lock
  pc, req, base,  \* of each call: where it is, what it asks, the revision it loaded
  acked    \* history: the answers that said "applied"

logVars  == <<latest, order, tail>>
diskVars == <<edits, latest, order, tail>>
vars     == <<edits, latest, order, tail, lock, pc, req, base, acked>>

-------------------------------------------------------------------------------
Edit    == [op : Op, fp : Payload]
Status  == {"none", "pending", "applied", "aborted"}
Record  == [op : Op, fp : Payload \cup {NoPayload}, rev : Nat, status : Status]
RequestAt(revisions) ==
  [kind : {"mutate"}, op : Op, fp : Payload, exp : revisions]
    \cup [kind : {"lookup"}, op : Op, fp : Payload \cup {NoPayload}, exp : {0}]
Request == RequestAt(Nat)
NoRequest == [kind |-> "none", op |-> NoPayload, fp |-> NoPayload, exp |-> 0]

(* The points of a call: waiting for the lock; holding it with the log still   *)
(* to be read; settling the records a dead call left pending; deciding; about  *)
(* to append "pending", to save, to append "applied" or "aborted".             *)
Inside == {"read", "settle", "decide", "append", "save", "applied", "aborted"}
Places == {"idle", "wait"} \cup Inside

Revision == Len(edits)

NoRecord(o) == [op |-> o, fp |-> NoPayload, rev |-> 0, status |-> "none"]

Init ==
  /\ edits = << >>
  /\ latest = [o \in Op |-> NoRecord(o)]
  /\ order = << >>
  /\ tail = "clean"
  /\ lock = NoWorker
  /\ pc = [w \in Worker |-> "idle"]
  /\ req = [w \in Worker |-> NoRequest]
  /\ base = [w \in Worker |-> 0]
  /\ acked = {}

-------------------------------------------------------------------------------
Goto(w, place) == pc' = [pc EXCEPT ![w] = place]

(* The end of a call, whatever its answer: withProjectLock releases the lock.  *)
Leave(w) ==
  /\ Goto(w, "idle")
  /\ req' = [req EXCEPT ![w] = NoRequest]
  /\ base' = [base EXCEPT ![w] = 0]
  /\ lock' = IF lock = w THEN NoWorker ELSE lock

(* The log without the records of an operation: the ones behind move up.        *)
Without(o) ==
  LET above == {i \in DOMAIN order : \E j \in 1 .. i : order[j] = o}
  IN  IF above = {} THEN order
      ELSE [i \in 1 .. Len(order) - 1 |-> IF i \in above THEN order[i + 1] ELSE order[i]]

(* Mutant of Recorded: a record keeps the place of the first one.               *)
RecordedInPlace(r) ==
  /\ latest' = [latest EXCEPT ![r.op] = r]
  /\ order' = IF \E i \in DOMAIN order : order[i] = r.op THEN order ELSE Append(order, r.op)

Recorded(r) ==
  /\ latest' = [latest EXCEPT ![r.op] = r]
  /\ order' = Append(Without(r.op), r.op)

(* appendRecord: one whole line.  Behind a line that was cut short it makes a   *)
(* line nobody can parse.                                                       *)
AppendRecord(r) ==
  /\ Recorded(r)
  /\ tail' = IF tail = "clean" THEN "clean" ELSE "corrupt"

(* The same write cut short by an I/O error or a crash: the record is lost or,  *)
(* when only its newline is missing, still readable.                            *)
TearRecord(r) ==
  /\ Recorded(r) \/ UNCHANGED <<latest, order>>
  /\ tail' = IF tail = "clean" THEN "torn" ELSE "corrupt"

Settled(r, revision) ==
  [r EXCEPT !.status = IF revision >= r.rev THEN "applied" ELSE "aborted"]

PendingOps == {o \in Op : latest[o].status = "pending"}

OwnRecord(w, status) ==
  [op |-> req[w].op, fp |-> req[w].fp, rev |-> base[w] + 1, status |-> status]

(* save installs the document computed from the one loaded at revision base.    *)
Replaced(w) ==
  Append(SubSeq(edits, 1, base[w]), [op |-> req[w].op, fp |-> req[w].fp])

-------------------------------------------------------------------------------
(* A client knows the revisions that have existed, and no later one.            *)
Call(w) ==
  /\ pc[w] = "idle"
  /\ \E r \in RequestAt(0..Revision) : req' = [req EXCEPT ![w] = r]
  /\ Goto(w, "wait")
  /\ UNCHANGED <<diskVars, lock, base, acked>>

(* Mutant of Enter: mutate without withProjectLock.                             *)
EnterUnlocked(w) ==
  /\ pc[w] = "wait"
  /\ lock' = w
  /\ Goto(w, "read")
  /\ UNCHANGED <<diskVars, req, base, acked>>

Enter(w) ==
  /\ pc[w] = "wait"
  /\ lock = NoWorker
  /\ lock' = w
  /\ Goto(w, "read")
  /\ UNCHANGED <<diskVars, req, base, acked>>

(* ExclusiveFileLockTimeoutError, thrown to the caller after maxWaitMs.         *)
GiveUp(w) ==
  /\ pc[w] = "wait"
  /\ lock # NoWorker
  /\ Leave(w)
  /\ UNCHANGED <<diskVars, acked>>

(* load, then readRecords, which rewrites a log that ends in a torn line; one   *)
(* that cannot be parsed throws, and the call ends as in Crash.                 *)
ReadLog(w) ==
  /\ pc[w] = "read"
  /\ tail # "corrupt"
  /\ tail' = "clean"
  /\ base' = [base EXCEPT ![w] = Revision]
  /\ Goto(w, "settle")
  /\ UNCHANGED <<edits, latest, order, lock, req, acked>>

(* reconcilePending: a record still pending was left by a call that died; it    *)
(* counts as applied when the document has reached its revision.                *)
Settle(w) ==
  /\ pc[w] = "settle"
  /\ \E o \in PendingOps : AppendRecord(Settled(latest[o], base[w]))
  /\ UNCHANGED <<edits, lock, pc, req, base, acked>>

SettleDone(w) ==
  /\ pc[w] = "settle"
  /\ PendingOps = {}
  /\ Goto(w, "decide")
  /\ UNCHANGED <<diskVars, lock, req, base, acked>>

-------------------------------------------------------------------------------
Existing(w) == latest[req[w].op]

Reused(w) ==
  /\ Existing(w).status # "none"
  /\ req[w].fp \notin {NoPayload, Existing(w).fp}

(* Mutant of AlreadyApplied: any record counts.                                 *)
AlreadyRecorded(w) == Existing(w).status # "none" /\ ~ Reused(w)

AlreadyApplied(w) == Existing(w).status = "applied" /\ ~ Reused(w)

Conflict(w) == req[w].kind = "mutate" /\ req[w].exp # base[w]

(* getOperation names no payload: its caller takes the recorded one.            *)
AskedFor(w) == IF req[w].fp = NoPayload THEN Existing(w).fp ELSE req[w].fp

(* The answer of a repeated mutation, and of getOperation.                      *)
AnswerApplied(w) ==
  /\ pc[w] = "decide"
  /\ AlreadyApplied(w)
  /\ acked' = acked \cup {[op |-> req[w].op, fp |-> AskedFor(w), rev |-> Existing(w).rev]}
  /\ Leave(w)
  /\ UNCHANGED diskVars

(* A reused id, a revision conflict, an apply that throws (a mutation only), or *)
(* a lookup of an operation that is unknown or aborted: nothing is written.     *)
AnswerOther(w) ==
  /\ pc[w] = "decide"
  /\ ~ AlreadyApplied(w)
  /\ Leave(w)
  /\ UNCHANGED <<diskVars, acked>>

Accept(w) ==
  /\ pc[w] = "decide"
  /\ req[w].kind = "mutate"
  /\ ~ Reused(w)
  /\ ~ AlreadyApplied(w)
  /\ ~ Conflict(w)
  /\ base[w] < MaxRevision
  /\ Goto(w, "append")
  /\ UNCHANGED <<diskVars, lock, req, base, acked>>

AppendPending(w) ==
  /\ pc[w] = "append"
  /\ AppendRecord(OwnRecord(w, "pending"))
  /\ Goto(w, "save")
  /\ UNCHANGED <<edits, lock, req, base, acked>>

SaveDone(w) ==
  /\ pc[w] = "save"
  /\ edits' = Replaced(w)
  /\ Goto(w, "applied")
  /\ UNCHANGED <<logVars, lock, req, base, acked>>

SaveFails(w) ==
  /\ pc[w] = "save"
  /\ Goto(w, "aborted")
  /\ UNCHANGED <<diskVars, lock, req, base, acked>>

(* The rename has happened when save throws: the removal of the temporary file  *)
(* or of project.json.lock failed.                                              *)
SaveFailsLate(w) ==
  /\ LateSaveErrors
  /\ pc[w] = "save"
  /\ edits' = Replaced(w)
  /\ Goto(w, "aborted")
  /\ UNCHANGED <<logVars, lock, req, base, acked>>

AppendApplied(w) ==
  /\ pc[w] = "applied"
  /\ AppendRecord(OwnRecord(w, "applied"))
  /\ acked' = acked \cup {[op |-> req[w].op, fp |-> req[w].fp, rev |-> base[w] + 1]}
  /\ Leave(w)
  /\ UNCHANGED edits

AppendAborted(w) ==
  /\ pc[w] = "aborted"
  /\ AppendRecord(OwnRecord(w, "aborted"))
  /\ Leave(w)
  /\ UNCHANGED <<edits, acked>>

(* What the call was about to append at each of its appends.                    *)
BeingAppended(w) ==
  CASE pc[w] = "settle"  -> {Settled(latest[o], base[w]) : o \in PendingOps}
    [] pc[w] = "append"  -> {OwnRecord(w, "pending")}
    [] pc[w] = "applied" -> {OwnRecord(w, "applied")}
    [] pc[w] = "aborted" -> {OwnRecord(w, "aborted")}
    [] OTHER -> {}

AppendTorn(w) ==
  /\ \E r \in BeingAppended(w) : TearRecord(r)
  /\ Leave(w)
  /\ UNCHANGED <<edits, acked>>

(* The process dies, or an I/O error ends the call before its next effect.  The *)
(* lock of a dead holder is taken over by the next waiter.                      *)
Crash(w) ==
  /\ pc[w] # "idle"
  /\ Leave(w)
  /\ UNCHANGED <<diskVars, acked>>

Step(w) ==
  \/ Call(w) \/ Enter(w) \/ GiveUp(w) \/ ReadLog(w)
  \/ Settle(w) \/ SettleDone(w)
  \/ AnswerApplied(w) \/ AnswerOther(w) \/ Accept(w) \/ AppendPending(w)
  \/ SaveDone(w) \/ SaveFails(w) \/ SaveFailsLate(w)
  \/ AppendApplied(w) \/ AppendAborted(w) \/ AppendTorn(w) \/ Crash(w)

Next == \E w \in Worker : Step(w)

Spec == Init /\ [][Next]_vars

-------------------------------------------------------------------------------
TypeOK ==
  /\ edits \in Seq(Edit)
  /\ latest \in [Op -> Record]
  /\ \A o \in Op : latest[o].op = o
  /\ tail \in {"clean", "torn", "corrupt"}
  /\ lock \in Worker \cup {NoWorker}
  /\ pc \in [Worker -> Places]
  /\ req \in [Worker -> Request \cup {NoRequest}]
  /\ base \in [Worker -> Nat]
  /\ acked \in SUBSET [op : Op, fp : Payload, rev : Nat]

(* A repeated, retried or recovered operation never edits the document twice:   *)
(* the operation-id protocol of mutate and reconcilePending.                    *)
AtMostOnce ==
  \A i, j \in DOMAIN edits : edits[i].op = edits[j].op => i = j

(* Every caller told that its operation is applied, at once, on a retry or by a *)
(* lookup after a crash, finds its own payload in the document at the revision  *)
(* it was given.                                                                *)
AckedIsInstalled ==
  \A a \in acked :
    /\ a.rev \in DOMAIN edits
    /\ edits[a.rev] = [op |-> a.op, fp |-> a.fp]

Installed(r) == r.rev \in DOMAIN edits /\ edits[r.rev] = [op |-> r.op, fp |-> r.fp]
Absent(o) == \A i \in DOMAIN edits : edits[i].op # o

(* The log tells the truth about the document, whatever crash it was left by:   *)
(* in particular reconcilePending, which only compares revisions, never credits *)
(* a dead operation with the revision of another one.                           *)
LogIsTruthful ==
  \A o \in Op :
    CASE latest[o].status = "none"    -> Absent(o)
      [] latest[o].status = "aborted" -> Absent(o)
      [] latest[o].status = "applied" -> Installed(latest[o])
      [] latest[o].status = "pending" ->
           IF latest[o].rev <= Revision
             THEN Installed(latest[o])
             ELSE Absent(o) /\ latest[o].rev = Revision + 1

(* No append lands behind a torn line: one crash in the middle of an append     *)
(* never makes the whole history of a project unreadable.                       *)
LogStaysReadable == tail # "corrupt"

Applied == {i \in DOMAIN order : latest[order[i]].status = "applied"}

(* The applied operations by the place of their latest record: the nth of them  *)
(* has n of them up to its place.                                               *)
ListHistory ==
  [n \in 1 .. Cardinality(Applied) |->
     order[CHOOSE i \in Applied : Cardinality({j \in Applied : j <= i}) = n]]

(* listHistory, once nothing is pending, is the story of the document: the      *)
(* applied operations, in the order in which they made it.                      *)
HistoryIsTheDocument ==
  PendingOps = {} => ListHistory = [i \in DOMAIN edits |-> edits[i].op]

(* A save never silently drops an edit another writer has installed, and never  *)
(* lands on a document its caller has not seen: the document only gains one     *)
(* edit at its end, made for the very revision it replaces.                     *)
NoLostUpdate ==
  [][ /\ Len(edits') = Len(edits) + 1
      /\ SubSeq(edits', 1, Len(edits)) = edits
      /\ \E w \in Worker :
           pc[w] = "save" /\ req[w].exp = Revision /\ req[w].op = edits'[Len(edits')].op ]_edits

(* The coordinator implements the register of module IdempotentRegister.        *)
Register == INSTANCE IdempotentRegister WITH installed <- edits
ImplementsRegister == Register!RegisterSpec

-------------------------------------------------------------------------------
(* The inductive invariant behind these properties (ProjectMutationProofs):     *)
(* what the lock, the place of a call and the log say of each other.            *)
LockInv == \A w \in Worker : pc[w] \in Inside => lock = w

ReqInv ==
  \A w \in Worker :
    /\ pc[w] # "idle" => req[w] \in Request
    /\ pc[w] \in {"append", "save", "applied", "aborted"} =>
         req[w].kind = "mutate" /\ req[w].exp = base[w]

BaseInv ==
  \A w \in Worker :
    /\ pc[w] \in {"settle", "decide", "append", "save"} => base[w] = Revision
    /\ pc[w] = "applied" => base[w] + 1 = Revision
    /\ pc[w] = "aborted" =>
         \/ base[w] = Revision
         \/ LateSaveErrors /\ base[w] + 1 = Revision

TailInv ==
  /\ tail # "corrupt"
  /\ \A w \in Worker : pc[w] \in Inside \ {"read"} => tail = "clean"

PendingInv ==
  \A w \in Worker :
    /\ pc[w] \in {"decide", "append"} => PendingOps = {}
    /\ pc[w] = "append" => latest[req[w].op].status \in {"none", "aborted"}
    /\ pc[w] \in {"save", "applied", "aborted"} =>
         /\ latest[req[w].op] = OwnRecord(w, "pending")
         /\ PendingOps = {req[w].op}

CreditInv ==
  \A o \in Op :
    /\ latest[o].status # "none" => latest[o].fp \in Payload
    /\ latest[o].status = "applied" => Installed(latest[o])
    /\ latest[o].status = "pending" =>
         Installed(latest[o]) \/ latest[o].rev = Revision + 1

AbsentInv ==
  \A o \in Op :
    \/ latest[o].status \in {"none", "aborted"}
    \/ latest[o].status = "pending" /\ latest[o].rev = Revision + 1
    => Absent(o)

(* What the order of the log says of the order of the edits.                    *)
OrderInv ==
  /\ order \in Seq(Op)
  /\ \A i, j \in DOMAIN order : order[i] = order[j] => i = j
  /\ \A o \in Op : latest[o].status # "none" => \E i \in DOMAIN order : order[i] = o
  /\ \A i, j \in Applied : i < j => latest[order[i]].rev < latest[order[j]].rev
  /\ \A i \in DOMAIN order : latest[order[i]].status = "pending" =>
       i = Len(order) /\ latest[order[i]].rev \in {Revision, Revision + 1}

IInv ==
  /\ TypeOK /\ LockInv /\ ReqInv /\ BaseInv /\ TailInv /\ PendingInv /\ CreditInv
  /\ AckedIsInstalled
  /\ ~ LateSaveErrors => AbsentInv /\ AtMostOnce
===============================================================================
