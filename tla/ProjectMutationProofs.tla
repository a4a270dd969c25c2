------------------------- MODULE ProjectMutationProofs -------------------------
(* Proofs about ProjectMutation, for any number of calls, operations, payloads *)
(* and revisions, about ProjectFiles, for any number of imports, uploads,      *)
(* lists, saves and deaths, and about EditorSession, for any number of windows *)
(* that edit a project, of calls under way and of entries in their stacks.     *)
EXTENDS ProjectMutation, ProjectFiles, EditorSession, FiniteSetTheorems, SequenceTheorems,
        WellFoundedInduction, TLAPS

(* Appending an edit to a document: the revision and the edits below it.       *)
LEMMA Appending ==
  ASSUME NEW s \in Seq(Edit), NEW e \in Edit
  PROVE  /\ SubSeq(s, 1, Len(s)) = s
         /\ Append(s, e) \in Seq(Edit)
         /\ Len(Append(s, e)) = Len(s) + 1
         /\ DOMAIN Append(s, e) = 1 .. (Len(s) + 1)
         /\ DOMAIN s = 1 .. Len(s)
         /\ \A i \in 1 .. Len(s) : Append(s, e)[i] = s[i]
         /\ Append(s, e)[Len(s) + 1] = e
<1>1. SubSeq(s, 1, Len(s)) = s
  OBVIOUS
<1>2. QED
  BY <1>1

LEMMA InitIInv == Init => IInv
<1> SUFFICES ASSUME Init PROVE IInv
  OBVIOUS
<1> USE DEF Init
<1>1. TypeOK
  BY BoundAssumption DEF TypeOK, NoRecord, Record, Status, Places, Inside
<1>2. LockInv /\ ReqInv /\ BaseInv /\ TailInv
  BY DEF LockInv, ReqInv, BaseInv, TailInv, Inside
<1>3. PendingInv /\ CreditInv /\ AckedIsInstalled
  BY DEF PendingInv, CreditInv, AckedIsInstalled, NoRecord, PendingOps
<1>4. AbsentInv /\ AtMostOnce
  BY DEF AbsentInv, AtMostOnce, Absent
<1>5. QED
  BY <1>1, <1>2, <1>3, <1>4 DEF IInv

(* A call that ends and writes nothing.                                        *)
LEMMA LeaveKeepsIInv ==
  ASSUME IInv, NEW w \in Worker, Leave(w), UNCHANGED <<diskVars, acked>>
  PROVE  IInv'
<1> USE DEF IInv, Leave, Goto, diskVars
<1>1. TypeOK'
  BY DEF TypeOK, Places
<1>2. LockInv' /\ ReqInv'
  BY WorkerAssumption DEF LockInv, ReqInv, TypeOK, Inside
<1>3. BaseInv' /\ TailInv'
  BY DEF BaseInv, TailInv, TypeOK, Inside, Revision
<1>4. PendingInv'
  BY DEF PendingInv, TypeOK, PendingOps, OwnRecord
<1>5. CreditInv' /\ AckedIsInstalled'
  BY DEF CreditInv, AckedIsInstalled, Installed, Revision
<1>6. ~ LateSaveErrors => AbsentInv' /\ AtMostOnce'
  BY DEF AbsentInv, AtMostOnce, Absent, Revision
<1>7. QED
  BY <1>1, <1>2, <1>3, <1>4, <1>5, <1>6

(* The steps that only move a call: Call, Enter, ReadLog, SettleDone, Accept,  *)
(* SaveFails.                                                                  *)
LEMMA MovesKeepIInv ==
  ASSUME IInv, NEW w \in Worker,
         Call(w) \/ Enter(w) \/ ReadLog(w) \/ SettleDone(w) \/ Accept(w) \/ SaveFails(w)
  PROVE  IInv'
<1> USE DEF IInv, Goto, diskVars, logVars
<1>1. CASE Call(w)
  <2> USE <1>1 DEF Call
  <2>1. PICK r \in RequestAt(0..Revision) : req' = [req EXCEPT ![w] = r]
    OBVIOUS
  <2>2. r \in Request
    BY <2>1 DEF TypeOK, Request, RequestAt, Revision
  <2>3. TypeOK' /\ LockInv' /\ ReqInv' /\ BaseInv' /\ TailInv'
    BY <2>1, <2>2 DEF TypeOK, Places, LockInv, ReqInv, BaseInv, TailInv, Inside, Revision
  <2>4. PendingInv' /\ CreditInv' /\ AckedIsInstalled'
    BY <2>1, <2>2 DEF TypeOK, PendingInv, CreditInv, AckedIsInstalled, Installed, PendingOps, OwnRecord, Revision
  <2>5. ~ LateSaveErrors => AbsentInv' /\ AtMostOnce'
    BY DEF AbsentInv, AtMostOnce, Absent, Revision
  <2>6. QED
    BY <2>3, <2>4, <2>5
<1>2. CASE Enter(w)
  <2> USE <1>2 DEF Enter
  <2>1. TypeOK' /\ LockInv' /\ ReqInv' /\ BaseInv' /\ TailInv'
    BY WorkerAssumption DEF TypeOK, Places, LockInv, ReqInv, BaseInv, TailInv, Inside, Revision
  <2>2. PendingInv' /\ CreditInv' /\ AckedIsInstalled'
    BY DEF TypeOK, PendingInv, CreditInv, AckedIsInstalled, Installed, PendingOps, OwnRecord, Revision
  <2>3. ~ LateSaveErrors => AbsentInv' /\ AtMostOnce'
    BY DEF AbsentInv, AtMostOnce, Absent, Revision
  <2>4. QED
    BY <2>1, <2>2, <2>3
<1>3. CASE ReadLog(w)
  <2> USE <1>3 DEF ReadLog
  <2>1. TypeOK' /\ LockInv' /\ ReqInv' /\ BaseInv' /\ TailInv'
    BY DEF TypeOK, Places, LockInv, ReqInv, BaseInv, TailInv, Inside, Revision
  <2>2. PendingInv' /\ CreditInv' /\ AckedIsInstalled'
    BY DEF TypeOK, PendingInv, CreditInv, AckedIsInstalled, Installed, PendingOps, OwnRecord, Revision
  <2>3. ~ LateSaveErrors => AbsentInv' /\ AtMostOnce'
    BY DEF AbsentInv, AtMostOnce, Absent, Revision
  <2>4. QED
    BY <2>1, <2>2, <2>3
<1>4. CASE SettleDone(w)
  <2> USE <1>4 DEF SettleDone
  <2>1. TypeOK' /\ LockInv' /\ ReqInv' /\ BaseInv' /\ TailInv'
    BY DEF TypeOK, Places, LockInv, ReqInv, BaseInv, TailInv, Inside, Revision
  <2>2. PendingInv' /\ CreditInv' /\ AckedIsInstalled'
    BY DEF TypeOK, PendingInv, CreditInv, AckedIsInstalled, Installed, PendingOps, OwnRecord, Revision
  <2>3. ~ LateSaveErrors => AbsentInv' /\ AtMostOnce'
    BY DEF AbsentInv, AtMostOnce, Absent, Revision
  <2>4. QED
    BY <2>1, <2>2, <2>3
<1>5. CASE Accept(w)
  <2> USE <1>5 DEF Accept
  <2>1. TypeOK' /\ LockInv' /\ ReqInv' /\ BaseInv' /\ TailInv'
    BY DEF Conflict, TypeOK, Places, LockInv, ReqInv, BaseInv, TailInv, Inside, Revision
  <2>2. latest[req[w].op].status \in {"none", "aborted"}
    <3>1. latest[req[w].op] \in Record /\ latest[req[w].op].status # "pending"
      BY DEF TypeOK, PendingInv, PendingOps, ReqInv, Request, RequestAt
    <3>2. QED
      BY <3>1 DEF Record, Status, AlreadyApplied, Existing
  <2>3. PendingInv'
    BY <2>2 DEF TypeOK, PendingInv, PendingOps, OwnRecord
  <2>4. CreditInv' /\ AckedIsInstalled'
    BY DEF CreditInv, AckedIsInstalled, Installed, Revision
  <2>5. ~ LateSaveErrors => AbsentInv' /\ AtMostOnce'
    BY DEF AbsentInv, AtMostOnce, Absent, Revision
  <2>6. QED
    BY <2>1, <2>3, <2>4, <2>5
<1>6. CASE SaveFails(w)
  <2> USE <1>6 DEF SaveFails
  <2>1. TypeOK' /\ LockInv' /\ ReqInv' /\ BaseInv' /\ TailInv'
    BY DEF TypeOK, Places, LockInv, ReqInv, BaseInv, TailInv, Inside, Revision
  <2>2. PendingInv' /\ CreditInv' /\ AckedIsInstalled'
    BY DEF TypeOK, PendingInv, CreditInv, AckedIsInstalled, Installed, PendingOps, OwnRecord, Revision
  <2>3. ~ LateSaveErrors => AbsentInv' /\ AtMostOnce'
    BY DEF AbsentInv, AtMostOnce, Absent, Revision
  <2>4. QED
    BY <2>1, <2>2, <2>3
<1>7. QED
  BY <1>1, <1>2, <1>3, <1>4, <1>5, <1>6

-------------------------------------------------------------------------------
(* What the log may be told without starting to lie about the document.        *)
Truthful(r) ==
  /\ r \in Record
  /\ r.fp \in Payload
  /\ r.status # "none"
  /\ r.status = "applied" => Installed(r)
  /\ r.status = "pending" => Installed(r) \/ r.rev = Revision + 1
  /\ ~ LateSaveErrors /\ (r.status = "aborted" \/ (r.status = "pending" /\ r.rev = Revision + 1))
       => Absent(r.op)

(* Every record a call is about to append is of that kind.                     *)
LEMMA AppendsAreTruthful ==
  ASSUME IInv, NEW w \in Worker, NEW r \in BeingAppended(w)
  PROVE  Truthful(r) /\ pc[w] \in {"settle", "append", "applied", "aborted"}
<1> USE DEF IInv, TypeOK
<1>0. edits \in Seq(Edit) /\ Revision \in Nat /\ DOMAIN edits = 1..Revision
  BY DEF Revision
<1>1. pc[w] \in {"settle", "append", "applied", "aborted"}
  BY DEF BeingAppended
<1>2. CASE pc[w] = "settle"
  <2>1. PICK o \in PendingOps : r = Settled(latest[o], base[w])
    BY <1>2 DEF BeingAppended
  <2>2. base[w] = Revision /\ latest[o] \in Record /\ latest[o].op = o
    BY <1>2 DEF BaseInv, PendingOps
  <2>3. latest[o].fp \in Payload /\ (Installed(latest[o]) \/ latest[o].rev = Revision + 1)
    BY DEF CreditInv, PendingOps
  <2>4. /\ r \in Record /\ r.op = o /\ r.fp = latest[o].fp /\ r.rev = latest[o].rev
        /\ r.status = IF Revision >= latest[o].rev THEN "applied" ELSE "aborted"
    BY <2>1, <2>2 DEF Settled, Record, Status
  <2>5. r.status = "applied" => Installed(r)
    BY <1>0, <2>2, <2>3, <2>4 DEF Installed, Record
  <2>6. r.status = "aborted" => latest[o].rev = Revision + 1
    BY <1>0, <2>2, <2>3, <2>4 DEF Installed, Record
  <2>7. ~ LateSaveErrors /\ r.status = "aborted" => Absent(r.op)
    BY <2>4, <2>6 DEF AbsentInv, PendingOps
  <2>8. QED
    BY <1>1, <2>3, <2>4, <2>5, <2>7 DEF Truthful
<1>3. CASE pc[w] # "settle"
  <2>1. req[w] \in Request /\ req[w].kind = "mutate"
    BY <1>1, <1>3 DEF ReqInv
  <2>2. req[w].op \in Op /\ req[w].fp \in Payload /\ base[w] \in Nat
    BY <2>1 DEF Request, RequestAt
  <2>3. \A st \in Status : OwnRecord(w, st) \in Record
    BY <2>2 DEF OwnRecord, Record
  <2>4. CASE pc[w] = "append"
    <3>1. r = OwnRecord(w, "pending") /\ base[w] = Revision
      BY <2>4 DEF BeingAppended, BaseInv
    <3>2. ~ LateSaveErrors => Absent(req[w].op)
      BY <2>2, <2>4 DEF AbsentInv, PendingInv
    <3>3. r.op = req[w].op /\ r.fp = req[w].fp /\ r.status = "pending" /\ r.rev = Revision + 1
      BY <3>1 DEF OwnRecord
    <3>4. QED
      BY <1>1, <2>2, <2>3, <3>1, <3>2, <3>3 DEF Truthful, Status
  <2>5. CASE pc[w] = "applied"
    <3>1. r = OwnRecord(w, "applied") /\ base[w] + 1 = Revision
      BY <2>5 DEF BeingAppended, BaseInv
    <3>2. latest[req[w].op] = OwnRecord(w, "pending")
      BY <2>5 DEF PendingInv
    <3>3. Installed(latest[req[w].op])
      BY <1>0, <2>2, <3>1, <3>2 DEF CreditInv, OwnRecord
    <3>4. r.op = req[w].op /\ r.fp = req[w].fp /\ r.status = "applied" /\ r.rev = base[w] + 1
      BY <3>1 DEF OwnRecord
    <3>5. Installed(r)
      BY <3>2, <3>3, <3>4 DEF Installed, OwnRecord
    <3>6. QED
      BY <1>1, <2>2, <2>3, <3>1, <3>4, <3>5 DEF Truthful, Status
  <2>6. CASE pc[w] = "aborted"
    <3>1. r = OwnRecord(w, "aborted") /\ (LateSaveErrors \/ base[w] = Revision)
      BY <2>6 DEF BeingAppended, BaseInv
    <3>2. latest[req[w].op] = OwnRecord(w, "pending")
      BY <2>6 DEF PendingInv
    <3>3. ~ LateSaveErrors => Absent(req[w].op)
      BY <2>2, <3>1, <3>2 DEF AbsentInv, OwnRecord
    <3>4. r.op = req[w].op /\ r.fp = req[w].fp /\ r.status = "aborted"
      BY <3>1 DEF OwnRecord
    <3>5. QED
      BY <1>1, <2>2, <2>3, <3>1, <3>3, <3>4 DEF Truthful, Status
  <2>7. QED
    BY <1>1, <1>3, <2>4, <2>5, <2>6
<1>4. QED
  BY <1>2, <1>3

(* Recording it leaves the log truthful.                                       *)
LEMMA RecordingKeepsTruth ==
  ASSUME TypeOK, CreditInv, ~ LateSaveErrors => AbsentInv,
         NEW r, Truthful(r), Recorded(r), UNCHANGED edits
  PROVE  /\ latest' \in [Op -> Record] /\ \A o \in Op : latest'[o].op = o
         /\ CreditInv'
         /\ ~ LateSaveErrors => AbsentInv'
<1> USE DEF TypeOK, Recorded
<1>1. r.op \in Op /\ latest' = [latest EXCEPT ![r.op] = r]
  BY DEF Truthful, Record
<1>2. latest' \in [Op -> Record] /\ \A o \in Op : latest'[o].op = o
  BY <1>1 DEF Truthful
<1>3. CreditInv'
  BY <1>1 DEF CreditInv, Truthful, Installed, Revision
<1>4. ~ LateSaveErrors => AbsentInv'
  BY <1>1 DEF AbsentInv, Truthful, Absent, Revision
<1>5. QED
  BY <1>2, <1>3, <1>4

(* An answer that names an installed edit joins the others.                    *)
LEMMA AckingKeepsAcks ==
  ASSUME AckedIsInstalled, NEW r, Installed(r), UNCHANGED edits,
         acked' = acked \cup {[op |-> r.op, fp |-> r.fp, rev |-> r.rev]}
  PROVE  AckedIsInstalled'
<1> SUFFICES ASSUME NEW a \in acked'
    PROVE  a.rev \in DOMAIN edits /\ edits[a.rev] = [op |-> a.op, fp |-> a.fp]
  BY DEF AckedIsInstalled
<1>1. CASE a \in acked
  BY <1>1 DEF AckedIsInstalled
<1>2. CASE a = [op |-> r.op, fp |-> r.fp, rev |-> r.rev]
  <2>1. a.op = r.op /\ a.fp = r.fp /\ a.rev = r.rev
    BY <1>2
  <2>2. QED
    BY <2>1 DEF Installed
<1>3. QED
  BY <1>1, <1>2

(* A call that records and ends: AppendApplied, AppendAborted, AppendTorn.     *)
LEMMA RecordAndLeaveKeepsIInv ==
  ASSUME IInv, NEW w \in Worker, NEW r \in BeingAppended(w),
         Recorded(r) \/ UNCHANGED <<latest, order>>,
         tail' \in {"clean", "torn"}, Leave(w), UNCHANGED edits,
         \/ UNCHANGED acked
         \/ /\ Installed(r)
            /\ acked' = acked \cup {[op |-> r.op, fp |-> r.fp, rev |-> r.rev]}
  PROVE  IInv'
<1> USE DEF IInv, Leave, Goto
<1>1. Truthful(r) /\ pc[w] \in Inside /\ lock = w
  BY AppendsAreTruthful DEF LockInv, Inside
<1>2. /\ latest' \in [Op -> Record] /\ \A o \in Op : latest'[o].op = o
      /\ CreditInv' /\ (~ LateSaveErrors => AbsentInv')
  <2>1. CASE Recorded(r)
    BY <1>1, <2>1, RecordingKeepsTruth
  <2>2. CASE UNCHANGED <<latest, order>>
    BY <2>2 DEF TypeOK, CreditInv, AbsentInv, Installed, Absent, Revision
  <2>3. QED
    BY <2>1, <2>2
<1>3. acked' \in SUBSET [op : Op, fp : Payload, rev : Nat]
  BY <1>1 DEF TypeOK, Truthful, Record
<1>4. TypeOK'
  BY <1>2, <1>3 DEF TypeOK, Places
<1>5. AckedIsInstalled'
  <2>1. CASE UNCHANGED acked
    BY <2>1 DEF AckedIsInstalled
  <2>2. CASE /\ Installed(r)
             /\ acked' = acked \cup {[op |-> r.op, fp |-> r.fp, rev |-> r.rev]}
    BY <2>2, AckingKeepsAcks
  <2>3. QED
    BY <2>1, <2>2
<1>6. LockInv' /\ ReqInv' /\ BaseInv'
  BY <1>1, WorkerAssumption DEF TypeOK, LockInv, ReqInv, BaseInv, Inside, Revision
<1>7. \A v \in Worker : pc'[v] \notin Inside
  BY <1>1 DEF LockInv, TypeOK, Inside
<1>8. TailInv' /\ PendingInv'
  BY <1>7 DEF TailInv, PendingInv, Inside
<1>9. ~ LateSaveErrors => AtMostOnce'
  BY DEF AtMostOnce
<1>10. QED
  BY <1>2, <1>4, <1>5, <1>6, <1>8, <1>9

LEMMA AppendsKeepIInv ==
  ASSUME IInv, NEW w \in Worker,
         \/ Settle(w) \/ AppendPending(w) \/ AppendApplied(w)
         \/ AppendAborted(w) \/ AppendTorn(w)
  PROVE  IInv'
<1> USE DEF IInv
<1>1. CASE Settle(w)
  <2> USE <1>1 DEF Settle, AppendRecord
  <2>1. PICK o \in PendingOps : AppendRecord(Settled(latest[o], base[w]))
    OBVIOUS
  <2> DEFINE r == Settled(latest[o], base[w])
  <2>2. r \in BeingAppended(w) /\ Recorded(r)
    BY <2>1 DEF BeingAppended
  <2>3. Truthful(r)
    BY <2>2, AppendsAreTruthful
  <2>4. /\ latest' \in [Op -> Record] /\ \A u \in Op : latest'[u].op = u
        /\ CreditInv' /\ (~ LateSaveErrors => AbsentInv')
    <3> HIDE DEF r
    <3>1. QED
      BY <2>2, <2>3, RecordingKeepsTruth
  <2>5. lock = w /\ \A v \in Worker : pc[v] \in Inside => v = w
    BY DEF LockInv, Inside
  <2>6. tail' = "clean"
    BY <2>1 DEF TailInv, Inside
  <2>7. TypeOK' /\ LockInv' /\ ReqInv' /\ BaseInv' /\ TailInv'
    BY <2>4, <2>6 DEF TypeOK, LockInv, ReqInv, BaseInv, TailInv, Revision
  <2>8. PendingInv'
    BY <2>5 DEF PendingInv, Inside
  <2>9. AckedIsInstalled' /\ (~ LateSaveErrors => AtMostOnce')
    BY DEF AckedIsInstalled, AtMostOnce
  <2>10. QED
    BY <2>4, <2>7, <2>8, <2>9
<1>2. CASE AppendPending(w)
  <2> USE <1>2 DEF AppendPending, AppendRecord, Goto
  <2> DEFINE r == OwnRecord(w, "pending")
  <2>1. r \in BeingAppended(w) /\ Recorded(r)
    BY DEF BeingAppended
  <2>2. Truthful(r)
    BY <2>1, AppendsAreTruthful
  <2>3. /\ latest' \in [Op -> Record] /\ \A u \in Op : latest'[u].op = u
        /\ CreditInv' /\ (~ LateSaveErrors => AbsentInv')
    <3> HIDE DEF r
    <3>1. QED
      BY <2>1, <2>2, RecordingKeepsTruth
  <2>4. lock = w /\ \A v \in Worker : pc[v] \in Inside => v = w
    BY DEF LockInv, Inside
  <2>5. tail' = "clean"
    BY DEF TailInv, Inside
  <2>6. TypeOK' /\ LockInv' /\ ReqInv' /\ BaseInv' /\ TailInv'
    BY <2>3, <2>4, <2>5 DEF TypeOK, Places, LockInv, ReqInv, BaseInv, TailInv, Inside, Revision
  <2>7. PendingOps = {} /\ req[w].op \in Op
    BY DEF PendingInv, ReqInv, Request, RequestAt
  <2>8. latest'[req[w].op] = r /\ \A o \in Op \ {req[w].op} : latest'[o] = latest[o]
    BY <2>1, <2>7 DEF Recorded, OwnRecord, TypeOK
  <2>9. PendingOps' = {req[w].op}
    BY <2>7, <2>8 DEF PendingOps, OwnRecord
  <2>10. PendingInv'
    BY <2>4, <2>8, <2>9 DEF PendingInv, Inside, OwnRecord, TypeOK
  <2>11. AckedIsInstalled' /\ (~ LateSaveErrors => AtMostOnce')
    BY DEF AckedIsInstalled, AtMostOnce
  <2>12. QED
    BY <2>3, <2>6, <2>10, <2>11
<1>3. CASE AppendApplied(w)
  <2> USE <1>3 DEF AppendApplied, AppendRecord
  <2> DEFINE r == OwnRecord(w, "applied")
  <2>1. r \in BeingAppended(w) /\ Recorded(r) /\ r.status = "applied"
    BY DEF BeingAppended, OwnRecord
  <2>2. tail' = "clean"
    BY DEF TailInv, Inside
  <2>3. Installed(r)
    BY <2>1, AppendsAreTruthful DEF Truthful
  <2>4. acked' = acked \cup {[op |-> r.op, fp |-> r.fp, rev |-> r.rev]}
    BY DEF OwnRecord
  <2> HIDE DEF r
  <2>5. QED
    BY <2>1, <2>2, <2>3, <2>4, RecordAndLeaveKeepsIInv
<1>4. CASE AppendAborted(w)
  <2> USE <1>4 DEF AppendAborted, AppendRecord
  <2> DEFINE r == OwnRecord(w, "aborted")
  <2>1. r \in BeingAppended(w) /\ Recorded(r)
    BY DEF BeingAppended
  <2>2. tail' = "clean"
    BY DEF TailInv, Inside
  <2> HIDE DEF r
  <2>3. QED
    BY <2>1, <2>2, RecordAndLeaveKeepsIInv
<1>5. CASE AppendTorn(w)
  <2> USE <1>5 DEF AppendTorn, TearRecord
  <2>1. PICK r \in BeingAppended(w) : TearRecord(r)
    OBVIOUS
  <2>2. tail' = "torn"
    BY <2>1, AppendsAreTruthful DEF TailInv, Inside
  <2>3. QED
    BY <2>1, <2>2, RecordAndLeaveKeepsIInv
<1>6. QED
  BY <1>1, <1>2, <1>3, <1>4, <1>5

(* The two saves that replace the document: the last edit is the own one.      *)
LEMMA SavesKeepIInv ==
  ASSUME IInv, NEW w \in Worker, SaveDone(w) \/ SaveFailsLate(w)
  PROVE  IInv'
<1> USE DEF IInv
<1> DEFINE e == [op |-> req[w].op, fp |-> req[w].fp]
<1>1. /\ pc[w] = "save" /\ edits' = Replaced(w) /\ UNCHANGED <<latest, order, tail, lock, req, base, acked>>
      /\ \/ pc' = [pc EXCEPT ![w] = "applied"]
         \/ LateSaveErrors /\ pc' = [pc EXCEPT ![w] = "aborted"]
  BY DEF SaveDone, SaveFailsLate, Goto, logVars
<1>2. lock = w /\ \A v \in Worker : pc[v] \in Inside => v = w
  BY <1>1 DEF LockInv, Inside
<1>3. req[w].op \in Op /\ e \in Edit /\ base[w] = Revision
  BY <1>1 DEF ReqInv, BaseInv, Request, RequestAt, Edit
<1>4. edits \in Seq(Edit) /\ Revision = Len(edits)
  BY DEF TypeOK, Revision
<1>5. edits' = Append(edits, e)
  BY <1>1, <1>3, <1>4, Appending DEF Replaced
<1>6. /\ edits' \in Seq(Edit) /\ Revision' = Revision + 1 /\ Revision \in Nat
      /\ DOMAIN edits = 1..Revision /\ DOMAIN edits' = 1..(Revision + 1)
      /\ \A i \in 1..Revision : edits'[i] = edits[i]
      /\ edits'[Revision + 1] = e
  <2> HIDE DEF e
  <2>1. QED
    BY <1>3, <1>4, <1>5, Appending DEF Revision
<1>7. TypeOK' /\ LockInv' /\ ReqInv' /\ BaseInv' /\ TailInv'
  <2>1. TypeOK'
    BY <1>1, <1>6 DEF TypeOK, Places, Inside
  <2>2. \A v \in Worker \ {w} : pc'[v] = pc[v]
    BY <1>1 DEF TypeOK
  <2>3. pc'[w] = "applied" \/ (LateSaveErrors /\ pc'[w] = "aborted")
    BY <1>1 DEF TypeOK
  <2>4. LockInv' /\ ReqInv' /\ TailInv'
    BY <1>1, <1>2, <2>2, <2>3 DEF LockInv, ReqInv, TailInv, Inside
  <2>5. BaseInv'
    BY <1>1, <1>2, <1>3, <1>6, <2>2, <2>3 DEF BaseInv, Inside
  <2>6. QED
    BY <2>1, <2>4, <2>5
<1>8. latest[req[w].op] = OwnRecord(w, "pending") /\ PendingOps = {req[w].op}
  BY <1>1 DEF PendingInv
<1>9. PendingInv'
  BY <1>1, <1>2, <1>8 DEF PendingInv, Inside, OwnRecord, PendingOps, TypeOK
<1>10. \A r : r.rev \in 1..Revision /\ Installed(r) => Installed(r)'
  BY <1>6 DEF Installed
<1>11. \A o \in Op : latest[o].status = "applied" => Installed(latest[o])'
  BY <1>1, <1>6, <1>10 DEF CreditInv, Installed
<1>12. Installed(latest[req[w].op])'
  BY <1>1, <1>3, <1>6, <1>8 DEF Installed, OwnRecord
<1>13. CreditInv'
  BY <1>1, <1>8, <1>11, <1>12 DEF CreditInv, PendingOps
<1>14. AckedIsInstalled'
  <2>1. \A a \in acked : a.rev \in 1..Revision /\ edits'[a.rev] = [op |-> a.op, fp |-> a.fp]
    BY <1>6 DEF AckedIsInstalled
  <2>2. 1..Revision \subseteq 1..(Revision + 1)
    BY <1>6
  <2>3. \A a \in acked : a.rev \in DOMAIN (edits')
    BY <1>6, <2>1, <2>2
  <2>4. QED
    BY <1>1, <2>1, <2>3 DEF AckedIsInstalled
<1>15. ASSUME ~ LateSaveErrors PROVE AbsentInv' /\ AtMostOnce'
  <2>1. Absent(req[w].op)
    BY <1>3, <1>8, <1>15 DEF AbsentInv, OwnRecord
  <2>2. AtMostOnce'
    BY <1>6, <1>15, <2>1 DEF AtMostOnce, Absent
  <2>3. \A o \in Op \ {req[w].op} : Absent(o) => Absent(o)'
    BY <1>6 DEF Absent
  <2>4. \A o \in Op : latest[o].status = "pending" => o = req[w].op
    BY <1>8 DEF PendingOps
  <2>5. latest[req[w].op].status = "pending" /\ latest[req[w].op].rev = Revision + 1
    BY <1>3, <1>8 DEF OwnRecord
  <2>6. AbsentInv'
    BY <1>1, <1>6, <1>15, <2>3, <2>4, <2>5 DEF AbsentInv
  <2>7. QED
    BY <2>2, <2>6
<1>16. QED
  BY <1>7, <1>9, <1>13, <1>14, <1>15

(* A repeated mutation is answered from a record that is in the document.      *)
LEMMA AnswersKeepIInv ==
  ASSUME IInv, NEW w \in Worker, AnswerApplied(w)
  PROVE  IInv'
<1> USE DEF IInv, AnswerApplied, Leave, Goto, diskVars
<1> DEFINE r == Existing(w)
<1>1. req[w].op \in Op
  BY DEF ReqInv, Request, RequestAt
<1>2. r \in Record /\ Installed(r) /\ r.fp \in Payload /\ r.op \in Op
  BY <1>1 DEF CreditInv, AlreadyApplied, Existing, TypeOK, Record
<1>3. acked' = acked \cup {[op |-> r.op, fp |-> r.fp, rev |-> r.rev]}
  BY <1>1 DEF AskedFor, AlreadyApplied, Reused, Existing, TypeOK
<1> HIDE DEF r
<1>4. TypeOK'
  BY <1>2, <1>3 DEF TypeOK, Places, Record
<1>5. AckedIsInstalled'
  BY <1>2, <1>3, AckingKeepsAcks
<1>6. LockInv' /\ ReqInv' /\ BaseInv' /\ TailInv'
  BY WorkerAssumption DEF TypeOK, LockInv, ReqInv, BaseInv, TailInv, Inside, Revision
<1>7. \A v \in Worker : pc'[v] \notin Inside
  BY DEF LockInv, TypeOK, Inside
<1>8. PendingInv' /\ CreditInv'
  BY <1>7 DEF PendingInv, Inside, CreditInv, Installed, Revision
<1>9. ~ LateSaveErrors => AbsentInv' /\ AtMostOnce'
  BY DEF AbsentInv, AtMostOnce, Absent, Revision
<1>10. QED
  BY <1>4, <1>5, <1>6, <1>8, <1>9

LEMMA NextKeepsIInv == IInv /\ [Next]_vars => IInv'
<1> SUFFICES ASSUME IInv, [Next]_vars PROVE IInv'
  OBVIOUS
<1>1. CASE UNCHANGED vars
  BY <1>1 DEF vars, IInv, TypeOK, LockInv, ReqInv, BaseInv, TailInv, PendingInv, CreditInv,
     AckedIsInstalled, AbsentInv, AtMostOnce, PendingOps, OwnRecord, Installed, Absent, Revision
<1>2. CASE Next
  <2>1. PICK w \in Worker : Step(w)
    BY <1>2 DEF Next
  <2>2. CASE GiveUp(w) \/ AnswerOther(w) \/ Crash(w)
    BY <2>2, LeaveKeepsIInv DEF GiveUp, AnswerOther, Crash
  <2>3. QED
    BY <2>1, <2>2, MovesKeepIInv, AppendsKeepIInv, SavesKeepIInv, AnswersKeepIInv DEF Step
<1>3. QED
  BY <1>1, <1>2

THEOREM IInvHolds == Spec => []IInv
BY InitIInv, NextKeepsIInv, PTL DEF Spec

-------------------------------------------------------------------------------
(* Type correctness, for any number of concurrent calls, crashes and retries.  *)
THEOREM TypeCorrect == Spec => []TypeOK
BY IInvHolds, PTL DEF IInv

(* Whatever crashes, the operation log can still be parsed.                    *)
THEOREM LogReadable == Spec => []LogStaysReadable
<1>1. IInv => LogStaysReadable
  BY DEF IInv, TailInv, LogStaysReadable
<1>2. QED
  BY <1>1, IInvHolds, PTL

(* Every answer "applied" names an edit of the document, even when save can    *)
(* fail after the fact.                                                        *)
THEOREM AnswersAreTrue == Spec => []AckedIsInstalled
BY IInvHolds, PTL DEF IInv

(* When a failed save means that nothing was saved, the log never lies about   *)
(* the document and no operation is applied twice.                             *)
THEOREM ExactlyOnce ==
  ASSUME LateSaveErrors = FALSE
  PROVE  Spec => [](AtMostOnce /\ LogIsTruthful)
<1>1. ASSUME IInv PROVE LogIsTruthful
  <2> USE DEF IInv
  <2>1. edits \in Seq(Edit) /\ Revision \in Nat /\ DOMAIN edits = 1..Revision
    BY <1>1 DEF TypeOK, Revision
  <2>2. SUFFICES ASSUME NEW o \in Op
        PROVE  CASE latest[o].status = "none"    -> Absent(o)
                 [] latest[o].status = "aborted" -> Absent(o)
                 [] latest[o].status = "applied" -> Installed(latest[o])
                 [] latest[o].status = "pending" ->
                      IF latest[o].rev <= Revision
                        THEN Installed(latest[o])
                        ELSE Absent(o) /\ latest[o].rev = Revision + 1
    BY DEF LogIsTruthful
  <2>3. latest[o].status \in Status /\ latest[o].rev \in Nat
    BY <1>1 DEF TypeOK, Record
  <2>4. CASE latest[o].status \in {"none", "aborted"}
    BY <1>1, <2>4 DEF AbsentInv
  <2>5. CASE latest[o].status = "applied"
    BY <1>1, <2>5 DEF CreditInv
  <2>6. CASE latest[o].status = "pending"
    <3>1. latest[o].rev <= Revision => Installed(latest[o])
      BY <1>1, <2>1, <2>3, <2>6 DEF CreditInv
    <3>2. ~ (latest[o].rev <= Revision) => latest[o].rev = Revision + 1
      <4>1. Installed(latest[o]) => latest[o].rev <= Revision
        BY <2>1 DEF Installed
      <4>2. QED
        BY <1>1, <2>6, <4>1 DEF CreditInv
    <3>3. latest[o].rev = Revision + 1 => Absent(o)
      BY <1>1, <2>6 DEF AbsentInv
    <3>4. QED
      BY <2>6, <3>1, <3>2, <3>3
  <2>7. QED
    BY <2>3, <2>4, <2>5, <2>6 DEF Status
<1>2. IInv => AtMostOnce /\ LogIsTruthful
  BY <1>1 DEF IInv
<1>3. QED
  BY <1>2, IInvHolds, PTL

(* Only a save changes the document, and it changes it by the next edit.       *)
LEMMA OnlySavesEdit ==
  ASSUME IInv, Next, edits' # edits
  PROVE  \E w \in Worker : SaveDone(w) \/ SaveFailsLate(w)
BY DEF Next, Step, Call, Enter, GiveUp, ReadLog, Settle, SettleDone, AnswerApplied, AnswerOther,
   Accept, AppendPending, SaveFails, AppendApplied, AppendAborted, AppendTorn, Crash, diskVars

LEMMA SaveExtends ==
  ASSUME IInv, NEW w \in Worker, SaveDone(w) \/ SaveFailsLate(w)
  PROVE  /\ [op |-> req[w].op, fp |-> req[w].fp] \in Edit
         /\ edits \in Seq(Edit)
         /\ edits' = Append(edits, [op |-> req[w].op, fp |-> req[w].fp])
         /\ UNCHANGED acked
<1>1. [op |-> req[w].op, fp |-> req[w].fp] \in Edit /\ base[w] = Revision
  BY DEF IInv, SaveDone, SaveFailsLate, ReqInv, BaseInv, Request, RequestAt, Edit
<1>2. edits \in Seq(Edit)
  BY DEF IInv, TypeOK
<1>3. QED
  BY <1>1, <1>2, Appending DEF SaveDone, SaveFailsLate, Replaced, Revision

(* No writer, however slow, retried or crashed, drops another writer's edit.   *)
THEOREM NoLostUpdates == Spec => NoLostUpdate
<1> DEFINE Grows ==
      /\ Len(edits') = Len(edits) + 1
      /\ SubSeq(edits', 1, Len(edits)) = edits
      /\ \E w \in Worker :
           pc[w] = "save" /\ req[w].exp = Revision /\ req[w].op = edits'[Len(edits')].op
<1>1. IInv /\ [Next]_vars => [Grows]_edits
  <2> SUFFICES ASSUME IInv, Next, edits' # edits PROVE Grows
    BY DEF vars
  <2>1. PICK w \in Worker : SaveDone(w) \/ SaveFailsLate(w)
    BY OnlySavesEdit
  <2> DEFINE e == [op |-> req[w].op, fp |-> req[w].fp]
  <2>2. e \in Edit /\ edits \in Seq(Edit) /\ edits' = Append(edits, e)
    BY <2>1, SaveExtends
  <2>3. pc[w] = "save" /\ req[w].exp = Revision /\ e.op = req[w].op
    BY <2>1 DEF SaveDone, SaveFailsLate, IInv, ReqInv, BaseInv
  <2> HIDE DEF e
  <2>4. Len(edits') = Len(edits) + 1 /\ SubSeq(edits', 1, Len(edits)) = edits /\ edits'[Len(edits')] = e
    BY <2>2
  <2>5. QED
    BY <2>3, <2>4
<1>2. QED
  BY <1>1, IInvHolds, PTL DEF Spec, NoLostUpdate

(* The steps that answer "applied" acknowledge an edit of the document.        *)
LEMMA AnswersAcknowledge ==
  ASSUME IInv, NEW w \in Worker, AnswerApplied(w) \/ AppendApplied(w)
  PROVE  \E i \in DOMAIN edits : Register!Acknowledge(i)
<1> USE DEF IInv
<1>1. CASE AnswerApplied(w)
  <2>1. req[w].op \in Op
    BY <1>1 DEF AnswerApplied, ReqInv, Request, RequestAt
  <2>2. Installed(Existing(w))
    BY <1>1, <2>1 DEF AnswerApplied, CreditInv, AlreadyApplied, Existing
  <2> DEFINE i == Existing(w).rev
  <2>3. i \in DOMAIN edits /\ edits[i].op = Existing(w).op /\ edits[i].fp = Existing(w).fp
    BY <2>2 DEF Installed
  <2>4. Existing(w).op = req[w].op /\ AskedFor(w) = Existing(w).fp
    BY <1>1, <2>1 DEF AnswerApplied, AskedFor, AlreadyApplied, Reused, Existing, TypeOK
  <2>5. Register!Acknowledge(i)
    BY <1>1, <2>3, <2>4 DEF AnswerApplied, Register!Acknowledge, diskVars
  <2>6. QED
    BY <2>3, <2>5
<1>2. CASE AppendApplied(w)
  <2> DEFINE r == OwnRecord(w, "applied")
  <2>1. r \in BeingAppended(w) /\ r.status = "applied"
    BY <1>2 DEF AppendApplied, BeingAppended, OwnRecord
  <2>2. Installed(r)
    BY <2>1, AppendsAreTruthful DEF Truthful
  <2> DEFINE i == base[w] + 1
  <2>3. i \in DOMAIN edits /\ edits[i].op = req[w].op /\ edits[i].fp = req[w].fp
    BY <2>2 DEF Installed, OwnRecord
  <2>4. Register!Acknowledge(i)
    BY <1>2, <2>3 DEF AppendApplied, Register!Acknowledge
  <2>5. QED
    BY <2>3, <2>4
<1>3. QED
  BY <1>1, <1>2

(* The coordinator, with its lock, log and crashes, is an implementation of    *)
(* the idempotent register its callers rely on.                                *)
THEOREM Refinement ==
  ASSUME LateSaveErrors = FALSE
  PROVE  Spec => ImplementsRegister
<1>1. Init => Register!RegisterInit
  BY DEF Init, Register!RegisterInit
<1>2. IInv /\ [Next]_vars => [Register!RegisterNext]_(Register!absVars)
  <2> SUFFICES ASSUME IInv, Next, ~ UNCHANGED <<edits, acked>>
               PROVE  Register!RegisterNext
    BY DEF vars, Register!absVars
  <2>1. PICK w \in Worker : Step(w)
    BY DEF Next
  <2>2. CASE SaveDone(w)
    <3> DEFINE e == [op |-> req[w].op, fp |-> req[w].fp]
    <3>1. e \in Edit /\ edits' = Append(edits, e) /\ UNCHANGED acked
      BY <2>2, SaveExtends
    <3>2. req[w].op \in Op /\ base[w] = Revision /\ latest[req[w].op] = OwnRecord(w, "pending")
      BY <2>2 DEF SaveDone, IInv, ReqInv, BaseInv, PendingInv, Request, RequestAt
    <3>3. Absent(e.op)
      BY <3>2 DEF IInv, AbsentInv, OwnRecord
    <3>4. Register!Install(e)
      <4> HIDE DEF e
      <4>1. QED
        BY <3>1, <3>3 DEF Register!Install, Register!Holds, Absent
    <3>5. e \in Register!Edit
      BY <3>1 DEF Edit, Register!Edit
    <3> HIDE DEF e
    <3>6. QED
      BY <3>4, <3>5 DEF Register!RegisterNext
  <2>3. CASE SaveFailsLate(w)
    BY <2>3 DEF SaveFailsLate
  <2>4. CASE AnswerApplied(w) \/ AppendApplied(w)
    BY <2>4, AnswersAcknowledge DEF Register!RegisterNext
  <2>5. QED
    BY <2>1, <2>2, <2>3, <2>4 DEF Step, Call, Enter, GiveUp, ReadLog, Settle, SettleDone,
       AnswerOther, Accept, AppendPending, SaveFails, AppendAborted, AppendTorn, Crash, diskVars
<1>3. QED
  BY <1>1, <1>2, IInvHolds, PTL DEF Spec, ImplementsRegister, Register!RegisterSpec

-------------------------------------------------------------------------------
(* The order of the log.                                                       *)
Distinct(s) == \A i, j \in DOMAIN s : s[i] = s[j] => i = j

(* Taking an operation out leaves the others, in their order.                  *)
LEMMA WithoutIs ==
  ASSUME NEW o \in Op, order \in Seq(Op), Distinct(order)
  PROVE  /\ Without(o) \in Seq(Op)
         /\ \A i, j \in DOMAIN Without(o) : i < j =>
              \E k, l \in DOMAIN order : k < l /\ order[k] = Without(o)[i] /\ order[l] = Without(o)[j]
         /\ \A i \in DOMAIN Without(o) : Without(o)[i] # o /\ \E k \in DOMAIN order : order[k] = Without(o)[i]
         /\ \A k \in DOMAIN order : order[k] # o => \E i \in DOMAIN Without(o) : Without(o)[i] = order[k]
<1> DEFINE above == {i \in DOMAIN order : \E j \in 1 .. i : order[j] = o}
           moved == [i \in 1 .. Len(order) - 1 |-> IF i \in above THEN order[i + 1] ELSE order[i]]
<1>1. DOMAIN order = 1 .. Len(order) /\ Len(order) \in Nat /\ \A i \in DOMAIN order : order[i] \in Op
  OBVIOUS
<1>2. Without(o) = IF above = {} THEN order ELSE moved
  BY DEF Without
<1>3. CASE above = {}
  <2>1. \A i \in DOMAIN order : order[i] # o
    BY <1>1, <1>3
  <2>2. Without(o) = order
    BY <1>2, <1>3
  <2>3. QED
    BY <2>1, <2>2
<1>4. CASE above # {}
  <2>1. PICK n \in DOMAIN order : order[n] = o
    BY <1>1, <1>4
  <2>2. Len(order) - 1 \in Nat /\ n \in 1 .. Len(order)
    BY <1>1, <2>1
  <2>3. \A i \in DOMAIN order : i \in above <=> i >= n
    BY <1>1, <2>1 DEF Distinct
  <2> HIDE DEF above
  <2>4. Without(o) = [i \in 1 .. Len(order) - 1 |-> IF i >= n THEN order[i + 1] ELSE order[i]]
    BY <1>1, <1>2, <1>4, <2>2, <2>3
  <2>5. DOMAIN Without(o) = 1 .. Len(order) - 1
    BY <2>4
  <2>6. \A i \in 1 .. Len(order) - 1 :
          Without(o)[i] = (IF i >= n THEN order[i + 1] ELSE order[i]) /\ Without(o)[i] \in Op
    BY <1>1, <2>2, <2>4
  <2>7. Without(o) \in Seq(Op)
    BY <2>2, <2>4, <2>6
  <2>8. \A i, j \in 1 .. Len(order) - 1 : i < j =>
          \E k, l \in DOMAIN order : k < l /\ order[k] = Without(o)[i] /\ order[l] = Without(o)[j]
    <3>1. TAKE i, j \in 1 .. Len(order) - 1
    <3>2. HAVE i < j
    <3>3. \A h \in 1 .. Len(order) - 1 : \E m \in DOMAIN order :
            m = (IF h >= n THEN h + 1 ELSE h) /\ order[m] = Without(o)[h]
      BY <1>1, <2>2, <2>6
    <3>4. PICK k \in DOMAIN order : k = (IF i >= n THEN i + 1 ELSE i) /\ order[k] = Without(o)[i]
      BY <3>3
    <3>5. PICK l \in DOMAIN order : l = (IF j >= n THEN j + 1 ELSE j) /\ order[l] = Without(o)[j]
      BY <3>3
    <3>6. k < l
      BY <1>1, <2>2, <3>2, <3>4, <3>5
    <3>7. QED
      BY <3>4, <3>5, <3>6
  <2>9. \A i \in 1 .. Len(order) - 1 : Without(o)[i] # o /\ \E k \in DOMAIN order : order[k] = Without(o)[i]
    BY <1>1, <2>1, <2>2, <2>6 DEF Distinct
  <2>10. ASSUME NEW k \in DOMAIN order, order[k] # o
         PROVE  \E i \in 1 .. Len(order) - 1 : Without(o)[i] = order[k]
    <3>1. CASE k < n
      <4>1. k \in 1 .. Len(order) - 1 /\ Without(o)[k] = order[k]
        BY <1>1, <2>2, <2>6, <2>10, <3>1
      <4>2. QED
        BY <4>1
    <3>2. CASE k > n
      <4>1. k - 1 \in 1 .. Len(order) - 1 /\ Without(o)[k - 1] = order[k]
        BY <1>1, <2>2, <2>6, <2>10, <3>2
      <4>2. QED
        BY <4>1
    <3>3. QED
      BY <1>1, <2>1, <2>2, <2>10, <3>1, <3>2
  <2>11. \A k \in DOMAIN order : order[k] # o => \E i \in DOMAIN Without(o) : Without(o)[i] = order[k]
    BY <2>5, <2>10
  <2>12. ASSUME NEW i \in DOMAIN Without(o), NEW j \in DOMAIN Without(o), i < j
         PROVE  \E k, l \in DOMAIN order : k < l /\ order[k] = Without(o)[i] /\ order[l] = Without(o)[j]
    <3>1. i \in 1 .. Len(order) - 1 /\ j \in 1 .. Len(order) - 1
      BY <2>5
    <3>2. QED
      BY <2>8, <2>12, <3>1
  <2>13. \A i \in DOMAIN Without(o) : Without(o)[i] # o /\ \E k \in DOMAIN order : order[k] = Without(o)[i]
    BY <2>5, <2>9
  <2>14. QED
    BY <2>7, <2>11, <2>12, <2>13
<1>5. QED
  BY <1>3, <1>4

(* A record moves its operation to the end of the order.                       *)
LEMMA RecordedIs ==
  ASSUME NEW r, r.op \in Op, order \in Seq(Op), Distinct(order), Recorded(r)
  PROVE  /\ order' \in Seq(Op) /\ Distinct(order') /\ order' # << >> /\ order'[Len(order')] = r.op
         /\ \A i, j \in DOMAIN order' : i < j =>
              /\ order'[i] # r.op
              /\ \/ order'[j] = r.op
                 \/ \E k, l \in DOMAIN order : k < l /\ order[k] = order'[i] /\ order[l] = order'[j]
         /\ \A i \in DOMAIN order' : order'[i] # r.op => \E k \in DOMAIN order : order[k] = order'[i]
         /\ \E i \in DOMAIN order' : order'[i] = r.op
         /\ \A k \in DOMAIN order : \E i \in DOMAIN order' : order'[i] = order[k]
<1> DEFINE s == Without(r.op)
<1>1. /\ s \in Seq(Op)
      /\ \A i, j \in DOMAIN s : i < j => \E k, l \in DOMAIN order : k < l /\ order[k] = s[i] /\ order[l] = s[j]
      /\ \A i \in DOMAIN s : s[i] # r.op /\ \E k \in DOMAIN order : order[k] = s[i]
      /\ \A k \in DOMAIN order : order[k] # r.op => \E i \in DOMAIN s : s[i] = order[k]
  BY WithoutIs
<1>2. order' = Append(s, r.op)
  BY DEF Recorded
<1> HIDE DEF s
<1>3. /\ order' \in Seq(Op) /\ Len(order') = Len(s) + 1 /\ Len(s) \in Nat
      /\ DOMAIN order' = 1 .. Len(s) + 1 /\ DOMAIN s = 1 .. Len(s)
      /\ \A i \in 1 .. Len(s) : order'[i] = s[i]
      /\ order'[Len(s) + 1] = r.op
  BY <1>1, <1>2
<1>4. Distinct(s)
  <2>1. SUFFICES ASSUME NEW i \in DOMAIN s, NEW j \in DOMAIN s, s[i] = s[j] PROVE i = j
    BY DEF Distinct
  <2>3. i \in Int /\ j \in Int
    BY <1>3
  <2>4. ~(i < j) /\ ~(j < i)
    BY <1>1, <1>3, <2>1 DEF Distinct
  <2>5. QED
    BY <2>3, <2>4
<1>5. Distinct(order')
  BY <1>1, <1>3, <1>4 DEF Distinct
<1>6. ASSUME NEW i \in DOMAIN order', NEW j \in DOMAIN order', i < j
      PROVE  /\ order'[i] # r.op
             /\ \/ order'[j] = r.op
                \/ \E k, l \in DOMAIN order : k < l /\ order[k] = order'[i] /\ order[l] = order'[j]
  <2>1. i \in DOMAIN s /\ order'[i] = s[i]
    BY <1>3, <1>6
  <2>2. CASE j = Len(s) + 1
    BY <1>1, <1>3, <2>1, <2>2
  <2>3. CASE j # Len(s) + 1
    <3>1. j \in DOMAIN s /\ order'[j] = s[j]
      BY <1>3, <2>3
    <3>2. QED
      BY <1>1, <1>6, <2>1, <3>1
  <2>4. QED
    BY <2>2, <2>3
<1>7. \A i \in DOMAIN order' : order'[i] # r.op => \E k \in DOMAIN order : order[k] = order'[i]
  BY <1>1, <1>3
<1>8. \E i \in DOMAIN order' : order'[i] = r.op
  BY <1>3
<1>9. ASSUME NEW k \in DOMAIN order
      PROVE  \E i \in DOMAIN order' : order'[i] = order[k]
  <2>1. CASE order[k] = r.op
    BY <1>8, <2>1
  <2>2. CASE order[k] # r.op
    <3>1. PICK i \in DOMAIN s : s[i] = order[k]
      BY <1>1, <2>2
    <3>2. i \in DOMAIN order' /\ order'[i] = order[k]
      BY <1>3, <3>1
    <3>3. QED
      BY <3>2
  <2>3. QED
    BY <2>1, <2>2
<1>10. order' # << >> /\ order'[Len(order')] = r.op
  BY <1>3
<1>11. QED
  BY <1>3, <1>5, <1>6, <1>7, <1>8, <1>9, <1>10

(* Nobody else's record is pending when a record is written, and none that reads *)
(* applied is of the revision the document has now.                            *)
LEMMA RecordingStands ==
  ASSUME IInv, OrderInv, NEW w \in Worker, NEW r \in BeingAppended(w)
  PROVE  /\ \A o \in Op : latest[o].status = "pending" => o = r.op
         /\ r.status = "applied" => r.rev = Revision
         /\ r.status = "pending" => r.rev = Revision + 1
<1> USE DEF IInv
<1>1. pc[w] \in {"settle", "append", "applied", "aborted"} /\ Revision \in Nat
  BY AppendsAreTruthful DEF TypeOK, Revision
<1>2. CASE pc[w] = "settle"
  <2>1. PICK o \in PendingOps : r = Settled(latest[o], base[w])
    BY <1>2 DEF BeingAppended
  <2>2. base[w] = Revision /\ latest[o] \in Record /\ latest[o].op = o /\ latest[o].status = "pending" /\ o \in Op
    BY <1>2, <2>1 DEF BaseInv, PendingOps, TypeOK
  <2>3. r.op = o /\ r.rev = latest[o].rev /\ r.status = IF Revision >= latest[o].rev THEN "applied" ELSE "aborted"
    BY <2>1, <2>2 DEF Settled, Record
  <2>4. latest[o].rev \in {Revision, Revision + 1}
    BY <2>2 DEF OrderInv
  <2>5. \A u \in Op : latest[u].status = "pending" => u = o
    BY <2>2 DEF OrderInv
  <2>6. QED
    BY <1>1, <2>3, <2>4, <2>5
<1>3. CASE pc[w] = "append"
  BY <1>1, <1>3 DEF BeingAppended, PendingInv, BaseInv, OwnRecord, PendingOps
<1>4. CASE pc[w] \in {"applied", "aborted"}
  <2>1. r = OwnRecord(w, pc[w])
    BY <1>4 DEF BeingAppended
  <2>2. r.op = req[w].op /\ r.status = pc[w] /\ r.rev = base[w] + 1 /\ PendingOps = {req[w].op}
    BY <1>4, <2>1 DEF OwnRecord, PendingInv
  <2>3. pc[w] = "applied" => base[w] + 1 = Revision
    BY DEF BaseInv
  <2>4. QED
    BY <1>4, <2>2, <2>3 DEF PendingOps
<1>5. QED
  BY <1>1, <1>2, <1>3, <1>4

LEMMA RecordingKeepsOrder ==
  ASSUME IInv, OrderInv, NEW w \in Worker, NEW r \in BeingAppended(w), Recorded(r), UNCHANGED edits
  PROVE  OrderInv'
<1>1. /\ r \in Record /\ r.op \in Op /\ (r.status = "applied" => Installed(r))
      /\ Revision \in Nat /\ Revision' = Revision /\ latest \in [Op -> Record] /\ \A o \in Op : latest[o].op = o
      /\ \A o \in Op : latest[o].status = "applied" => Installed(latest[o])
      /\ DOMAIN edits = 1 .. Revision
  BY AppendsAreTruthful DEF Truthful, Record, IInv, TypeOK, CreditInv, Revision
<1>2. /\ \A o \in Op : latest[o].status = "pending" => o = r.op
      /\ r.status = "applied" => r.rev = Revision
      /\ r.status = "pending" => r.rev = Revision + 1
  BY RecordingStands
<1>3. latest'[r.op] = r /\ \A o \in Op \ {r.op} : latest'[o] = latest[o]
  BY <1>1 DEF Recorded
<1>4. /\ order \in Seq(Op) /\ Distinct(order)
      /\ \A o \in Op : latest[o].status # "none" => \E i \in DOMAIN order : order[i] = o
      /\ \A i, j \in Applied : i < j => latest[order[i]].rev < latest[order[j]].rev
      /\ \A i \in DOMAIN order : order[i] \in Op
  BY DEF OrderInv, Distinct
<1>5. /\ order' \in Seq(Op) /\ Distinct(order') /\ order' # << >> /\ order'[Len(order')] = r.op
      /\ \A i, j \in DOMAIN order' : i < j =>
           /\ order'[i] # r.op
           /\ \/ order'[j] = r.op
              \/ \E k, l \in DOMAIN order : k < l /\ order[k] = order'[i] /\ order[l] = order'[j]
      /\ \A i \in DOMAIN order' : order'[i] # r.op => \E k \in DOMAIN order : order[k] = order'[i]
      /\ \E i \in DOMAIN order' : order'[i] = r.op
      /\ \A k \in DOMAIN order : \E i \in DOMAIN order' : order'[i] = order[k]
  BY <1>1, <1>4, RecordedIs
<1>6. \A i \in DOMAIN order' : order'[i] \in Op /\ i \in 1 .. Len(order') /\ Len(order') \in DOMAIN order'
  BY <1>5
<1>7. \A o \in Op : latest'[o].status # "none" => \E i \in DOMAIN order' : order'[i] = o
  <2>1. TAKE o \in Op
  <2>2. HAVE latest'[o].status # "none"
  <2>3. CASE o = r.op
    BY <1>5, <2>3
  <2>4. CASE o # r.op
    BY <1>3, <1>4, <1>5, <2>2, <2>4
  <2>5. QED
    BY <2>3, <2>4
<1>8. ASSUME NEW i \in Applied', NEW j \in Applied', i < j
      PROVE  latest'[order'[i]].rev < latest'[order'[j]].rev
  <2>1. /\ i \in DOMAIN order' /\ j \in DOMAIN order' /\ order'[i] \in Op /\ order'[j] \in Op
        /\ latest'[order'[i]].status = "applied" /\ latest'[order'[j]].status = "applied"
    BY <1>6 DEF Applied
  <2>2. order'[i] # r.op /\ latest'[order'[i]] = latest[order'[i]]
    BY <1>3, <1>5, <1>8, <2>1
  <2>3. CASE order'[j] = r.op
    <3>1. r.status = "applied" /\ r.rev = Revision /\ Installed(r) /\ latest'[order'[j]] = r
      BY <1>1, <1>2, <1>3, <2>1, <2>3
    <3>2. edits[Revision].op = r.op
      BY <3>1 DEF Installed
    <3>3. Installed(latest[order'[i]]) /\ latest[order'[i]].op = order'[i]
      BY <1>1, <2>1, <2>2
    <3>4. latest[order'[i]].rev \in 1 .. Revision /\ edits[latest[order'[i]].rev].op = order'[i]
      BY <1>1, <3>3 DEF Installed
    <3>5. QED
      BY <1>1, <2>2, <3>1, <3>2, <3>4
  <2>4. CASE order'[j] # r.op
    <3>1. PICK k \in DOMAIN order, l \in DOMAIN order : k < l /\ order[k] = order'[i] /\ order[l] = order'[j]
      BY <1>5, <1>8, <2>1, <2>4
    <3>2. latest'[order'[j]] = latest[order'[j]]
      BY <1>3, <2>1, <2>4
    <3>3. k \in Applied /\ l \in Applied
      BY <2>1, <2>2, <3>1, <3>2 DEF Applied
    <3>4. QED
      BY <1>4, <2>2, <3>1, <3>2, <3>3
  <2>5. QED
    BY <2>3, <2>4
<1>9. ASSUME NEW i \in DOMAIN order', latest'[order'[i]].status = "pending"
      PROVE  i = Len(order') /\ latest'[order'[i]].rev \in {Revision, Revision + 1}
  <2>1. order'[i] = r.op
    BY <1>2, <1>3, <1>6, <1>9
  <2>2. i = Len(order')
    BY <1>5, <1>6, <2>1 DEF Distinct
  <2>3. QED
    BY <1>2, <1>3, <1>9, <2>1, <2>2
<1>10. QED
  BY <1>1, <1>5, <1>7, <1>8, <1>9 DEF OrderInv, Distinct

LEMMA NextKeepsOrder == IInv /\ OrderInv /\ [Next]_vars => OrderInv'
<1>1. SUFFICES ASSUME IInv, OrderInv, [Next]_vars PROVE OrderInv'
  OBVIOUS
<1>2. CASE UNCHANGED <<edits, latest, order>>
  BY <1>1, <1>2 DEF OrderInv, Applied, Revision
<1>3. CASE \E w \in Worker : SaveDone(w) \/ SaveFailsLate(w)
  <2>1. PICK w \in Worker : SaveDone(w) \/ SaveFailsLate(w)
    BY <1>3
  <2>2. pc[w] = "save" /\ UNCHANGED <<latest, order>>
    BY <2>1 DEF SaveDone, SaveFailsLate, logVars
  <2>3. Revision' = Revision + 1 /\ Revision \in Nat
    <3> DEFINE e == [op |-> req[w].op, fp |-> req[w].fp]
    <3>1. e \in Edit /\ edits \in Seq(Edit) /\ edits' = Append(edits, e)
      BY <1>1, <2>1, SaveExtends
    <3> HIDE DEF e
    <3>2. QED
      BY <3>1, Appending DEF Revision
  <2>4. latest[req[w].op].rev = Revision + 1 /\ PendingOps = {req[w].op}
    <3>1. latest[req[w].op] = OwnRecord(w, "pending") /\ PendingOps = {req[w].op} /\ base[w] = Revision
      BY <1>1, <2>2 DEF IInv, PendingInv, BaseInv
    <3>2. QED
      BY <3>1 DEF OwnRecord
  <2>5. ASSUME NEW i \in DOMAIN order, latest[order[i]].status = "pending"
        PROVE  i = Len(order) /\ latest[order[i]].rev \in {Revision', Revision' + 1}
    <3>1. order[i] \in Op /\ i = Len(order)
      BY <1>1, <2>5 DEF OrderInv
    <3>2. order[i] = req[w].op
      BY <2>4, <2>5, <3>1 DEF PendingOps
    <3>3. QED
      BY <2>3, <2>4, <3>1, <3>2
  <2>6. Applied' = Applied
    BY <2>2 DEF Applied
  <2>7. QED
    BY <1>1, <2>2, <2>5, <2>6 DEF OrderInv
<1>4. CASE \E w \in Worker : /\ UNCHANGED edits
                             /\ \E r \in BeingAppended(w) : Recorded(r) \/ UNCHANGED <<latest, order>>
  BY <1>1, <1>2, <1>4, RecordingKeepsOrder
<1>5. CASE \E w \in Worker : Settle(w) \/ AppendPending(w) \/ AppendApplied(w) \/ AppendAborted(w) \/ AppendTorn(w)
  <2>1. PICK w \in Worker : Settle(w) \/ AppendPending(w) \/ AppendApplied(w) \/ AppendAborted(w) \/ AppendTorn(w)
    BY <1>5
  <2>2. UNCHANGED edits
    BY <2>1 DEF Settle, AppendPending, AppendApplied, AppendAborted, AppendTorn
  <2>3. \E r \in BeingAppended(w) : Recorded(r) \/ UNCHANGED <<latest, order>>
    BY <2>1 DEF Settle, AppendPending, AppendApplied, AppendAborted, AppendTorn, AppendRecord, TearRecord, BeingAppended
  <2>4. QED
    BY <1>4, <2>2, <2>3
<1>6. CASE \E w \in Worker : \/ Call(w) \/ Enter(w) \/ GiveUp(w) \/ ReadLog(w) \/ SettleDone(w)
                             \/ AnswerApplied(w) \/ AnswerOther(w) \/ Accept(w) \/ SaveFails(w) \/ Crash(w)
  BY <1>2, <1>6 DEF Call, Enter, GiveUp, ReadLog, SettleDone, AnswerApplied, AnswerOther, Accept, SaveFails,
     Crash, diskVars
<1>7. CASE UNCHANGED vars
  BY <1>2, <1>7 DEF vars
<1>8. QED
  BY <1>1, <1>3, <1>5, <1>6, <1>7 DEF Next, Step

LEMMA OrderInvHolds == Spec => []OrderInv
<1>1. Init => OrderInv
  BY DEF Init, OrderInv, NoRecord, Applied
<1>2. QED
  BY <1>1, IInvHolds, NextKeepsOrder, PTL DEF Spec

(* A set of places that is told by a numbering which grows with the place, from *)
(* one on: the nth of them is the one that is numbered n.                      *)
LEMMA NumberedInOrder ==
  ASSUME NEW places \in SUBSET Nat, NEW N \in Nat, NEW number \in [places -> 1 .. N],
         \A i, j \in places : i < j => number[i] < number[j],
         \A n \in 1 .. N : \E i \in places : number[i] = n
  PROVE  /\ Cardinality(places) = N
         /\ \A i \in places : Cardinality({j \in places : j <= i}) = number[i]
<1>1. \A i, j \in places : number[i] = number[j] => i = j
  BY SMT
<1>2. ASSUME NEW T \in SUBSET places, NEW m \in Nat, \A j \in places : j \in T <=> number[j] <= m, m <= N
      PROVE  Cardinality(T) = m
  <2> DEFINE at == [n \in 1 .. m |-> CHOOSE i \in places : number[i] = n]
  <2>1. \A n \in 1 .. m : at[n] \in places /\ number[at[n]] = n
    BY <1>2
  <2>2. ASSUME NEW n \in 1 .. m PROVE at[n] \in T
    <3>1. at[n] \in places /\ number[at[n]] = n
      BY <2>1
    <3>2. number[at[n]] <= m
      BY <1>2, <3>1
    <3>3. QED
      BY <1>2, <3>1, <3>2
  <2> HIDE DEF at
  <2>3. at \in [1 .. m -> T]
    BY <2>2 DEF at
  <2>4. \A a, b \in 1 .. m : at[a] = at[b] => a = b
    BY <2>1
  <2>5. ASSUME NEW t \in T PROVE \E n \in 1 .. m : at[n] = t
    <3>1. number[t] \in 1 .. m
      BY <1>2
    <3>2. at[number[t]] = t
      BY <1>1, <2>1, <3>1
    <3>3. QED
      BY <3>1, <3>2
  <2>6. at \in Bijection(1 .. m, T)
    BY <2>3, <2>4, <2>5 DEF Bijection, Injection, Surjection, IsInjective
  <2>7. ExistsBijection(1 .. m, T)
    BY <2>6 DEF ExistsBijection
  <2>8. QED
    BY <2>7, FS_CountingElements
<1>3. Cardinality(places) = N
  BY <1>2
<1>4. ASSUME NEW i \in places PROVE Cardinality({j \in places : j <= i}) = number[i]
  <2> DEFINE T == {j \in places : j <= i}
  <2>1. \A j \in places : j \in T <=> number[j] <= number[i]
    BY SMT
  <2>2. T \in SUBSET places /\ number[i] \in Nat /\ number[i] <= N
    OBVIOUS
  <2> HIDE DEF T
  <2>3. Cardinality(T) = number[i]
    BY <1>2, <2>1, <2>2
  <2>4. QED
    BY <2>3 DEF T
<1>5. QED
  BY <1>3, <1>4

(* When a failed save means that nothing was saved, listHistory is the document's *)
(* own history whenever nothing is pending, whatever died in between.          *)
THEOREM HistoryIsTrue == ASSUME LateSaveErrors = FALSE PROVE Spec => []HistoryIsTheDocument
<1>1. ASSUME IInv, OrderInv PROVE HistoryIsTheDocument
  <2>1. SUFFICES ASSUME PendingOps = {} PROVE ListHistory = [i \in DOMAIN edits |-> edits[i].op]
    BY DEF HistoryIsTheDocument
  <2>2. /\ edits \in Seq(Edit) /\ Revision \in Nat /\ DOMAIN edits = 1 .. Revision
        /\ latest \in [Op -> Record] /\ \A o \in Op : latest[o].op = o
        /\ AbsentInv /\ AtMostOnce
    BY <1>1 DEF IInv, TypeOK, Revision
  <2>3. /\ order \in Seq(Op) /\ Distinct(order) /\ DOMAIN order \subseteq Nat
        /\ \A i \in DOMAIN order : order[i] \in Op
    BY <1>1 DEF OrderInv, Distinct
  <2> DEFINE number == [i \in Applied |-> latest[order[i]].rev]
  <2>4. \A i \in Applied : /\ number[i] \in 1 .. Revision
                           /\ edits[number[i]].op = order[i]
    <3>1. TAKE i \in Applied
    <3>2. order[i] \in Op /\ latest[order[i]].status = "applied"
      BY <2>3 DEF Applied
    <3>3. Installed(latest[order[i]]) /\ latest[order[i]].op = order[i]
      BY <1>1, <2>2, <3>2 DEF IInv, CreditInv
    <3>4. QED
      BY <2>2, <3>3 DEF Installed
  <2>5. \A i, j \in Applied : i < j => number[i] < number[j]
    BY <1>1 DEF OrderInv
  <2>6. \A n \in 1 .. Revision : \E i \in Applied : number[i] = n
    <3>1. TAKE n \in 1 .. Revision
    <3>2. edits[n].op \in Op
      <4>1. edits[n] \in Edit
        BY <2>2
      <4>2. QED
        BY <4>1 DEF Edit
    <3>3. ~Absent(edits[n].op)
      BY <2>2 DEF Absent
    <3>4. latest[edits[n].op].status \in Status /\ latest[edits[n].op].status \notin {"none", "aborted", "pending"}
      BY <2>1, <2>2, <3>2, <3>3 DEF AbsentInv, PendingOps, Record
    <3>5. latest[edits[n].op].status = "applied"
      BY <3>4 DEF Status
    <3>6. PICK i \in DOMAIN order : order[i] = edits[n].op
      BY <1>1, <3>2, <3>5 DEF OrderInv
    <3>7. i \in Applied
      BY <3>5, <3>6 DEF Applied
    <3>8. number[i] \in DOMAIN edits /\ edits[number[i]].op = edits[n].op
      BY <2>2, <2>4, <3>6, <3>7
    <3>9. number[i] = n
      BY <2>2, <3>8 DEF AtMostOnce
    <3>10. QED
      BY <3>7, <3>9
  <2> HIDE DEF number
  <2>7. Applied \in SUBSET Nat /\ number \in [Applied -> 1 .. Revision]
    BY <2>3, <2>4 DEF Applied, number
  <2>8. /\ Cardinality(Applied) = Revision
        /\ \A i \in Applied : Cardinality({j \in Applied : j <= i}) = number[i]
    <3>1. Revision \in Nat
      BY <2>2
    <3> HIDE DEF Applied
    <3>2. QED
      BY <2>5, <2>6, <2>7, <3>1, NumberedInOrder
  <2>9. ASSUME NEW n \in 1 .. Revision
        PROVE  order[CHOOSE i \in Applied : Cardinality({j \in Applied : j <= i}) = n] = edits[n].op
    <3>1. \E i \in Applied : Cardinality({j \in Applied : j <= i}) = n
      BY <2>6, <2>8
    <3>2. PICK c : c = CHOOSE i \in Applied : Cardinality({j \in Applied : j <= i}) = n
      OBVIOUS
    <3>3. c \in Applied /\ Cardinality({j \in Applied : j <= c}) = n
      BY <3>1, <3>2
    <3>4. number[c] = n
      BY <2>8, <3>3
    <3>5. QED
      BY <2>4, <3>2, <3>3, <3>4
  <2>10. ListHistory = [n \in 1 .. Revision |->
            order[CHOOSE i \in Applied : Cardinality({j \in Applied : j <= i}) = n]]
    BY <2>8 DEF ListHistory
  <2>11. QED
    BY <2>2, <2>9, <2>10
<1>2. QED
  BY <1>1, IInvHolds, OrderInvHolds, PTL

-------------------------------------------------------------------------------
(* The files of a Project (module ProjectFiles).                                *)

CallPlaces == {"idle", "uploading", "waiting", "placing", "encoding", "encoded", "probing",
           "mutating", "saving", "failed", "purging", "leaving"}
Kept == {"absent", "part", "whole"}
PathNames == {"original", "working"}
CallRecord == [at : CallPlaces, op : Import \cup {Nobody}, exp : 0 .. MaxSaves, tried : SUBSET PathNames,
               safe : SUBSET Import]
SaveRecord == [by : Caller \cup {"editor", Nobody}, at : {"none", "replace", "cache"}, next : SUBSET Import,
               op : Import \cup {Nobody}]
SweepRecord == [at : {"none", "listing", "checking", "removing"}, exp : 0 .. MaxSaves,
                found : SUBSET Import, safe : SUBSET Import]

(* A call that may have put files under the paths of its operation.              *)
Holding == {"placing", "encoding", "encoded", "probing", "mutating", "saving", "failed", "purging"}

(* What a call in r with the staged file s can rely on, by its place.            *)
CallIsSound(r, s, kept, assets) ==
  /\ r.at # "idle" => r.op \in Import
  /\ r.at = "idle" => s = "absent"
  /\ r.at \in {"uploading", "waiting"} => r.tried = {}
  /\ r.at \in {"waiting", "placing"} => s = "whole"
  /\ r.at \in {"placing", "encoding", "encoded", "probing", "mutating"} => r.op \notin assets
  /\ r.at \in {"encoding", "encoded"} => kept[r.op]["original"] = "whole"
  /\ r.at = "encoded" => "working" \in r.tried
  /\ r.at \in {"probing", "mutating", "saving"} => \A p \in Paths(r.op) : kept[r.op][p] = "whole"
  /\ r.at = "purging" => r.safe \subseteq assets /\ (r.op \in assets => r.op \in r.safe)

CallsAreSound == \A c \in Caller : CallIsSound(call[c], staged[c], files, content.assets)

OneImportEach ==
  \A c, d \in Caller : (c # d /\ call[c].at \in Holding /\ call[d].at \in Holding) => call[c].op # call[d].op

(* The save in progress: whose it is, and what the Project becomes by it.        *)
SaveIsSound ==
  /\ saving.at = "none" => saving = NoSave
  /\ saving.at # "none" => /\ summary = NoSummary
                           /\ \/ saving.by = "editor" /\ saving.op = Nobody
                              \/ saving.by \in Caller /\ call[saving.by].at = "saving"
                                 /\ saving.op = call[saving.by].op
  /\ saving.at = "replace" => content.rev < MaxSaves /\ saving.next = content.assets \cup ({saving.op} \ {Nobody})
  /\ saving.at = "cache" => saving.op \in content.assets \cup {Nobody}
  /\ \A c \in Caller : call[c].at = "saving" => saving.at # "none" /\ saving.by = c

(* A removal of orphans has the files for itself, and has found no asset.        *)
SweepIsAlone ==
  /\ sweep.at # "none" => \A c \in Caller : call[c].at = "idle"
  /\ sweep.at = "listing" => content.assets \subseteq sweep.safe
  /\ sweep.at \in {"checking", "removing"} => sweep.found \intersect content.assets = {}

(* Who lists the projects writes no summary but the one of the Project.          *)
ListersAreCurrent ==
  \A l \in Lister : seen[l] # NoSummary => seen[l] = Naming(content.rev) /\ saving.at = "none"

(* Every file has an asset, or an import that will remove it or has given up.    *)
FilesAreOwned ==
  \A op \in Import \ (content.assets \cup spilled) : \A p \in PathNames :
    files[op][p] # "absent" =>
      \E c \in Caller : call[c].at \in Holding /\ call[c].op = op /\ p \in call[c].tried

FilesInv ==
  /\ FilesTypeOK
  /\ CallsAreSound /\ OneImportEach
  /\ known = content.assets /\ SaveIsSound
  /\ SweepIsAlone
  /\ ListersAreCurrent /\ SummaryIsCurrent
  /\ AssetsAreWhole /\ FilesAreOwned

(* Nobody removes orphans while an import runs, and nobody saves while a project *)
(* is listed: what the code leaves to its users.                                 *)
Careful == Careless = {}

-------------------------------------------------------------------------------
(* One call, of c, moves to r.                                                   *)
Moves(c, r) == r \in CallRecord /\ call' = [call EXCEPT ![c] = r]

LEMMA CallsTyped == FilesTypeOK => call \in [Caller -> CallRecord]
BY DEF FilesTypeOK, CallRecord, CallPlaces, PathNames

LEMMA MovesIs ==
  ASSUME FilesTypeOK, NEW c \in Caller, NEW r, Moves(c, r)
  PROVE  /\ call' \in [Caller -> CallRecord] /\ call'[c] = r
         /\ \A d \in Caller : d # c => call'[d] = call[d]
BY CallsTyped DEF Moves

(* A call that goes on to another place keeps what it asks.                      *)
LEMMA GoesIs ==
  ASSUME FilesTypeOK, NEW c \in Caller, NEW place \in CallPlaces, Goes(c, place)
  PROVE  \E r \in CallRecord : /\ Moves(c, r) /\ r.at = place /\ r.op = call[c].op
                               /\ r.tried = call[c].tried /\ r.safe = call[c].safe
<1> DEFINE r == [call[c] EXCEPT !.at = place]
<1>1. call[c] \in CallRecord
  BY CallsTyped
<1>2. r \in CallRecord /\ r.at = place /\ r.op = call[c].op /\ r.tried = call[c].tried /\ r.safe = call[c].safe
  BY <1>1 DEF CallRecord
<1>3. call' = [call EXCEPT ![c] = r]
  BY CallsTyped DEF Goes
<1> HIDE DEF r
<1>4. QED
  BY <1>2, <1>3 DEF Moves

(* A step of an import: only what is its own changes, it comes to hold an        *)
(* operation only if no other does, and it forgets no file it may have put.      *)
ImportSteps(c, r) ==
  /\ Moves(c, r)
  /\ UNCHANGED <<content, known, summary, saving, seen, sweep, deaths>>
  /\ staged' \in [Caller -> Kept] /\ \A d \in Caller : d # c => staged'[d] = staged[d]
  /\ files' \in [Import -> [PathNames -> Kept]]
  /\ \A o \in Import : (call[c].at \notin Holding \/ o # call[c].op \/ o \in content.assets) => files'[o] = files[o]
  /\ spilled \subseteq spilled' /\ spilled' \subseteq Import
  /\ call[c].at # "saving" /\ r.at # "saving"
  /\ r.at # "idle" => sweep.at = "none"
  /\ r.at \in Holding => \/ call[c].at \in Holding /\ r.op = call[c].op
                         \/ \A d \in Caller \ {c} : call[d].at \in Holding => call[d].op # r.op
  /\ \A p \in PathNames :
       (call[c].at \in Holding /\ call[c].op \notin content.assets \cup spilled'
        /\ files'[call[c].op][p] # "absent")
       => r.at \in Holding /\ r.op = call[c].op /\ p \in r.tried

LEMMA ImportKeeps ==
  ASSUME FilesInv, NEW c \in Caller, NEW r, ImportSteps(c, r),
         CallIsSound(r, staged'[c], files', content.assets)
  PROVE  FilesInv'
<1>1. /\ call' \in [Caller -> CallRecord] /\ call'[c] = r
      /\ \A d \in Caller : d # c => call'[d] = call[d]
  BY MovesIs DEF FilesInv, ImportSteps
<1>2. FilesTypeOK'
  BY <1>1 DEF FilesInv, FilesTypeOK, ImportSteps, CallRecord, CallPlaces, PathNames, Kept
<1>3. CallsAreSound'
  <2> SUFFICES ASSUME NEW d \in Caller
               PROVE  CallIsSound(call'[d], staged'[d], files', content.assets)
    BY DEF CallsAreSound, ImportSteps
  <2>1. CASE d = c
    BY <2>1, <1>1
  <2>2. CASE d # c
    <3>1. call'[d] = call[d] /\ staged'[d] = staged[d]
      BY <2>2, <1>1 DEF ImportSteps
    <3>2. CallIsSound(call[d], staged[d], files, content.assets)
      BY DEF FilesInv, CallsAreSound
    <3>3. call[d].at \in {"encoding", "encoded", "probing", "mutating", "saving"} => files'[call[d].op] = files[call[d].op]
      <4> SUFFICES ASSUME call[d].at \in {"encoding", "encoded", "probing", "mutating", "saving"}
                   PROVE  files'[call[d].op] = files[call[d].op]
        OBVIOUS
      <4>1. call[d].op \in Import /\ call[d].at \in Holding
        BY <3>2 DEF CallIsSound, Holding
      <4>2. call[c].at \in Holding => call[c].op # call[d].op
        BY <4>1, <2>2 DEF FilesInv, OneImportEach
      <4>3. QED
        BY <4>1, <4>2 DEF ImportSteps
    <3>4. QED
      BY <3>1, <3>2, <3>3 DEF CallIsSound
  <2>3. QED
    BY <2>1, <2>2
<1>4. OneImportEach'
  BY <1>1 DEF FilesInv, OneImportEach, ImportSteps
<1>5. known' = content'.assets /\ SaveIsSound'
  BY <1>1 DEF FilesInv, SaveIsSound, ImportSteps
<1>6. SweepIsAlone'
  BY <1>1 DEF FilesInv, SweepIsAlone, ImportSteps
<1>7. ListersAreCurrent' /\ SummaryIsCurrent'
  BY DEF FilesInv, ListersAreCurrent, SummaryIsCurrent, ImportSteps
<1>8. AssetsAreWhole'
  <2>1. \A o \in content.assets : files'[o] = files[o]
    BY DEF ImportSteps, FilesInv, FilesTypeOK
  <2>2. QED
    BY <2>1 DEF FilesInv, AssetsAreWhole, ImportSteps
<1>9. FilesAreOwned'
  <2> SUFFICES ASSUME NEW o \in Import, o \notin content.assets, o \notin spilled', NEW p \in PathNames,
                      files'[o][p] # "absent"
               PROVE  \E d \in Caller : call'[d].at \in Holding /\ call'[d].op = o /\ p \in call'[d].tried
    BY DEF FilesAreOwned, ImportSteps
  <2>1. CASE call[c].at \in Holding /\ o = call[c].op
    BY <2>1, <1>1 DEF ImportSteps
  <2>2. CASE ~(call[c].at \in Holding /\ o = call[c].op)
    <3>1. files'[o] = files[o] /\ o \notin spilled
      BY <2>2 DEF ImportSteps
    <3>2. PICK d \in Caller : call[d].at \in Holding /\ call[d].op = o /\ p \in call[d].tried
      BY <3>1 DEF FilesInv, FilesAreOwned
    <3>3. QED
      BY <3>2, <2>2, <1>1
  <2>3. QED
    BY <2>1, <2>2
<1>10. QED
  BY <1>2, <1>3, <1>4, <1>5, <1>6, <1>7, <1>8, <1>9 DEF FilesInv

(* What is known of a call and of what it holds.                                 *)
LEMMA CallIs ==
  ASSUME FilesInv, NEW c \in Caller
  PROVE  /\ call[c] \in CallRecord /\ staged[c] \in Kept
         /\ CallIsSound(call[c], staged[c], files, content.assets)
         /\ call[c].at # "idle" => sweep.at = "none"
         /\ call[c].at \in Holding => call[c].op \in Import
         /\ call[c].op \in Import => files[call[c].op] \in [PathNames -> Kept]
         /\ content.assets \subseteq Import /\ spilled \subseteq Import /\ content.rev \in 0 .. MaxSaves
<1>1. call[c] \in CallRecord
  BY CallsTyped DEF FilesInv
<1>2. staged[c] \in Kept /\ call[c].op \in Import => files[call[c].op] \in [PathNames -> Kept]
  BY DEF FilesInv, FilesTypeOK, PathNames, Kept
<1>3. content.assets \subseteq Import /\ spilled \subseteq Import /\ content.rev \in 0 .. MaxSaves /\ staged[c] \in Kept
  BY DEF FilesInv, FilesTypeOK, Kept
<1>4. CallIsSound(call[c], staged[c], files, content.assets)
  BY DEF FilesInv, CallsAreSound
<1>5. call[c].at # "idle" => sweep.at = "none"
  BY DEF FilesInv, SweepIsAlone
<1>6. call[c].at \in Holding => call[c].op \in Import
  BY <1>4 DEF CallIsSound, Holding
<1>7. QED
  BY <1>1, <1>2, <1>3, <1>4, <1>5, <1>6

(* A call that puts nothing anywhere, and keeps what it may have put.            *)
LEMMA PassKeeps ==
  ASSUME FilesInv, NEW c \in Caller, NEW place \in CallPlaces, Goes(c, place),
         call[c].at \notin {"idle", "saving"}, place \notin {"idle", "saving"},
         UNCHANGED <<projectVars, seen, sweep, deaths, spilled>>,
         staged' \in [Caller -> Kept], \A d \in Caller : d # c => staged'[d] = staged[d],
         place \in Holding => call[c].at \in Holding,
         (call[c].at \in Holding /\ place \notin Holding) => call[c].op \in content.assets \cup spilled,
         \A r \in CallRecord : (r.at = place /\ r.op = call[c].op /\ r.tried = call[c].tried)
                               => CallIsSound(r, staged'[c], files, content.assets)
  PROVE  FilesInv'
<1>1. PICK r \in CallRecord : /\ Moves(c, r) /\ r.at = place /\ r.op = call[c].op
                              /\ r.tried = call[c].tried /\ r.safe = call[c].safe
  BY GoesIs DEF FilesInv
<1>2. files' = files /\ files \in [Import -> [PathNames -> Kept]] /\ spilled \subseteq Import
  BY DEF FilesInv, FilesTypeOK, PathNames, Kept, projectVars
<1>3. ASSUME NEW p \in PathNames, call[c].at \in Holding, call[c].op \notin content.assets \cup spilled,
             files[call[c].op][p] # "absent"
      PROVE  p \in call[c].tried
  <2>1. call[c].op \in Import
    BY <1>3, CallIs
  <2>2. PICK d \in Caller : call[d].at \in Holding /\ call[d].op = call[c].op /\ p \in call[d].tried
    BY <2>1, <1>3 DEF FilesInv, FilesAreOwned
  <2>3. QED
    BY <2>2, <1>3 DEF FilesInv, OneImportEach
<1>4. ImportSteps(c, r)
  BY <1>1, <1>2, <1>3, CallIs DEF ImportSteps, projectVars
<1>5. CallIsSound(r, staged'[c], files', content.assets)
  BY <1>1, <1>2
<1>6. QED
  BY <1>4, <1>5, ImportKeeps

LEMMA NoCallIs ==
  NoCall \in CallRecord /\ NoCall.at = "idle" /\ NoCall.op = Nobody /\ NoCall.tried = {}
<1> DEFINE none == {}
<1>1. NoCall = [at |-> "idle", op |-> Nobody, exp |-> 0, tried |-> none, safe |-> none]
  BY DEF NoCall
<1>2. none = {} /\ none \in SUBSET PathNames /\ none \in SUBSET Import
  OBVIOUS
<1> HIDE DEF none
<1>3. QED
  BY <1>1, <1>2, FilesBounds DEF CallRecord, CallPlaces

LEMMA UploadKeeps ==
  ASSUME Careful, FilesInv, NEW c \in Caller, Upload(c)
  PROVE  FilesInv'
<1>1. call[c].at = "idle" /\ sweep.at = "none"
  BY DEF Upload, Careful
<1>2. PICK o \in Import : call' = [call EXCEPT ![c] = [NoCall EXCEPT !.at = "uploading", !.op = o]]
  BY DEF Upload
<1> DEFINE r == [NoCall EXCEPT !.at = "uploading", !.op = o]
<1>4. r \in CallRecord /\ r.at = "uploading" /\ r.op = o /\ r.tried = {}
  BY NoCallIs DEF CallRecord, CallPlaces
<1> HIDE DEF r
<1>6. Moves(c, r)
  BY <1>2, <1>4 DEF Moves, r
<1>7. staged' \in [Caller -> Kept] /\ \A d \in Caller : d # c => staged'[d] = staged[d]
  BY DEF Upload, FilesInv, FilesTypeOK, Kept
<1>8. UNCHANGED <<content, known, files, summary, saving, seen, sweep, deaths, spilled>>
  BY DEF Upload, projectVars
<1>9. files \in [Import -> [PathNames -> Kept]] /\ spilled \subseteq Import
  BY DEF FilesInv, FilesTypeOK, PathNames, Kept
<1>10. ImportSteps(c, r)
  BY <1>1, <1>4, <1>6, <1>7, <1>8, <1>9 DEF ImportSteps, Holding
<1>11. CallIsSound(r, staged'[c], files', content.assets)
  BY <1>4 DEF CallIsSound
<1>12. QED
  BY <1>10, <1>11, ImportKeeps

LEMMA UploadEndsKeeps ==
  ASSUME FilesInv, NEW c \in Caller, UploadEnds(c)
  PROVE  FilesInv'
<1>1. /\ call[c].at = "uploading" /\ call[c].op \in Import /\ call[c].tried = {}
  BY CallIs DEF UploadEnds, CallIsSound
<1>2. PICK place \in {"waiting", "leaving"} :
        Goes(c, place) /\ staged' = [staged EXCEPT ![c] = IF place = "waiting" THEN "whole" ELSE "absent"]
  BY DEF UploadEnds
<1>3. /\ staged' \in [Caller -> Kept] /\ \A d \in Caller : d # c => staged'[d] = staged[d]
      /\ place = "waiting" => staged'[c] = "whole"
  BY <1>2 DEF FilesInv, FilesTypeOK, Kept
<1>4. UNCHANGED <<projectVars, seen, sweep, deaths, spilled>>
  BY DEF UploadEnds
<1>5. place \in CallPlaces
  BY DEF CallPlaces
<1>6. QED
  BY <1>1, <1>2, <1>3, <1>4, <1>5, PassKeeps DEF CallIsSound, Holding

LEMMA EnterImportKeeps ==
  ASSUME FilesInv, NEW c \in Caller, EnterImport(c)
  PROVE  FilesInv'
<1>1. /\ call[c].at = "waiting" /\ call[c].op \in Import /\ call[c].tried = {} /\ staged[c] = "whole"
      /\ call[c] \in CallRecord /\ sweep.at = "none"
  BY CallIs DEF EnterImport, CallIsSound
<1>2. staged' = staged /\ staged \in [Caller -> Kept]
  BY DEF EnterImport, FilesInv, FilesTypeOK, Kept
<1>3. UNCHANGED <<projectVars, seen, sweep, deaths, spilled>>
  BY DEF EnterImport
<1>4. CASE Goes(c, "leaving")
  <2>1. "leaving" \in CallPlaces
    BY DEF CallPlaces
  <2>2. QED
    BY <1>1, <1>2, <1>3, <1>4, <2>1, PassKeeps DEF CallIsSound, Holding
<1>5. CASE call[c].op \notin known /\ call' = [call EXCEPT ![c].at = "placing", ![c].exp = content.rev]
  <2> DEFINE r == [call[c] EXCEPT !.at = "placing", !.exp = content.rev]
  <2>1. r \in CallRecord /\ r.at = "placing" /\ r.op = call[c].op /\ r.tried = call[c].tried
    BY <1>1, CallIs DEF CallRecord, CallPlaces
  <2>2. call' = [call EXCEPT ![c] = r]
    BY <1>5, CallsTyped DEF FilesInv
  <2> HIDE DEF r
  <2>3. \A d \in Caller \ {c} : call[d].at \in Holding => call[d].op # r.op
    BY <2>1 DEF EnterImport, MayImport, HasEntered, Holding
  <2>4. files \in [Import -> [PathNames -> Kept]] /\ spilled \subseteq Import
    BY DEF FilesInv, FilesTypeOK, PathNames, Kept
  <2>5. ImportSteps(c, r)
    BY <1>1, <1>2, <1>3, <2>1, <2>2, <2>3, <2>4 DEF ImportSteps, Moves, Holding, projectVars
  <2>6. call[c].op \notin content.assets
    BY <1>5 DEF FilesInv
  <2>7. CallIsSound(r, staged'[c], files', content.assets)
    BY <1>1, <1>2, <2>1, <2>6 DEF CallIsSound
  <2>8. QED
    BY <2>5, <2>7, ImportKeeps
<1>6. QED
  BY <1>4, <1>5 DEF EnterImport

(* A file put under a path of an operation.                                      *)
LEMMA PutIs ==
  ASSUME FilesTypeOK, NEW o \in Import, NEW path \in PathNames, NEW state \in Kept, Put(o, path, state)
  PROVE  /\ files' \in [Import -> [PathNames -> Kept]]
         /\ files'[o][path] = state
         /\ \A p \in PathNames : p # path => files'[o][p] = files[o][p]
         /\ \A a \in Import : a # o => files'[a] = files[a]
BY DEF FilesTypeOK, PathNames, Kept, Put

LEMMA TriesIs ==
  ASSUME FilesTypeOK, NEW c \in Caller, NEW path \in PathNames, NEW place \in CallPlaces, Tries(c, path, place)
  PROVE  \E r \in CallRecord : /\ Moves(c, r) /\ r.at = place /\ r.op = call[c].op
                               /\ r.tried = call[c].tried \cup {path}
<1> DEFINE t == call[c].tried \cup {path}
           r == [call[c] EXCEPT !.at = place, !.tried = t]
<1>1. call[c] \in CallRecord
  BY CallsTyped
<1>2. t \in SUBSET PathNames
  BY <1>1 DEF CallRecord
<1>3. call' = [call EXCEPT ![c] = r]
  BY CallsTyped DEF Tries
<1> HIDE DEF t
<1>4. r \in CallRecord /\ r.at = place /\ r.op = call[c].op /\ r.tried = t
  BY <1>1, <1>2 DEF CallRecord
<1> HIDE DEF r
<1>5. QED
  BY <1>3, <1>4 DEF Moves, t

(* What a call that holds its operation has put there, it has tried to.          *)
LEMMA HolderTried ==
  ASSUME FilesInv, NEW c \in Caller, NEW p \in PathNames, call[c].at \in Holding,
         call[c].op \notin content.assets \cup spilled, files[call[c].op][p] # "absent"
  PROVE  p \in call[c].tried
<1>1. call[c].op \in Import
  BY CallIs
<1>2. PICK d \in Caller : call[d].at \in Holding /\ call[d].op = call[c].op /\ p \in call[d].tried
  BY <1>1 DEF FilesInv, FilesAreOwned
<1>3. QED
  BY <1>2 DEF FilesInv, OneImportEach

(* A call puts a file of its own operation, or fails to, and remembers it.       *)
LEMMA PutsKeep ==
  ASSUME FilesInv, NEW c \in Caller, NEW path \in PathNames, NEW state \in Kept, NEW place \in CallPlaces,
         call[c].at \in {"placing", "encoding", "encoded"}, place \in Holding, place # "saving",
         Put(call[c].op, path, state), Tries(c, path, place),
         staged' \in [Caller -> Kept], \A d \in Caller : d # c => staged'[d] = staged[d],
         UNCHANGED <<content, known, summary, saving, seen, sweep, deaths, spilled>>,
         \A r \in CallRecord : (r.at = place /\ r.op = call[c].op /\ path \in r.tried)
                               => CallIsSound(r, staged'[c], files', content.assets)
  PROVE  FilesInv'
<1>1. PICK r \in CallRecord : /\ Moves(c, r) /\ r.at = place /\ r.op = call[c].op
                              /\ r.tried = call[c].tried \cup {path}
  BY TriesIs DEF FilesInv
<1>2. call[c].op \in Import /\ call[c].op \notin content.assets /\ call[c].at \in Holding
  BY CallIs DEF CallIsSound, Holding
<1>3. /\ files' \in [Import -> [PathNames -> Kept]]
      /\ \A p \in PathNames : p # path => files'[call[c].op][p] = files[call[c].op][p]
      /\ \A a \in Import : a # call[c].op => files'[a] = files[a]
  BY <1>2, PutIs DEF FilesInv
<1>4. \A p \in PathNames :
        (call[c].op \notin content.assets \cup spilled /\ files'[call[c].op][p] # "absent") => p \in r.tried
  BY <1>1, <1>2, <1>3, HolderTried
<1>5. spilled \subseteq Import /\ sweep.at = "none"
  BY <1>2, CallIs DEF Holding
<1>6. ImportSteps(c, r)
  BY <1>1, <1>2, <1>3, <1>4, <1>5 DEF ImportSteps, Holding
<1>7. QED
  BY <1>1, <1>6, ImportKeeps

LEMMA PlaceKeeps ==
  ASSUME FilesInv, NEW c \in Caller, Place(c)
  PROVE  FilesInv'
<1> PICK o : o = call[c].op
  OBVIOUS
<1> PICK s : s = staged[c]
  OBVIOUS
<1>1. /\ call[c].at = "placing" /\ o \in Import /\ o \notin content.assets /\ s = "whole"
  BY CallIs DEF Place, CallIsSound
<1>2. Target(o) \in PathNames /\ Target(o) \in Paths(o)
  BY DEF Target, PathNames, Paths
<1>3. UNCHANGED <<content, known, summary, saving, seen, sweep, deaths, spilled>>
  BY DEF Place
<1>4. CASE /\ Put(o, Target(o), s)
           /\ staged' = [staged EXCEPT ![c] = "absent"]
           /\ Tries(c, Target(o), IF Plan[o] = "normalised" THEN "encoding" ELSE "probing")
  <2>1. files'[o][Target(o)] = "whole"
    BY <1>1, <1>2, <1>4, PutIs DEF FilesInv, Kept
  <2>2. staged' \in [Caller -> Kept] /\ \A d \in Caller : d # c => staged'[d] = staged[d]
    BY <1>4 DEF FilesInv, FilesTypeOK, Kept
  <2>3. CASE Plan[o] = "normalised"
    <3>1. \A r \in CallRecord : (r.at = "encoding" /\ r.op = o) => CallIsSound(r, staged'[c], files', content.assets)
      BY <1>1, <2>1, <2>3 DEF CallIsSound, Target
    <3>2. "encoding" \in CallPlaces /\ "encoding" \in Holding /\ s \in Kept
      BY <1>1 DEF CallPlaces, Holding, Kept
    <3>3. QED
      BY <1>1, <1>2, <1>3, <1>4, <2>2, <2>3, <3>1, <3>2, PutsKeep
  <2>4. CASE Plan[o] # "normalised"
    <3>1. \A r \in CallRecord : (r.at = "probing" /\ r.op = o) => CallIsSound(r, staged'[c], files', content.assets)
      BY <1>1, <2>1, <2>4 DEF CallIsSound, Target, Paths
    <3>2. "probing" \in CallPlaces /\ "probing" \in Holding /\ s \in Kept
      BY <1>1 DEF CallPlaces, Holding, Kept
    <3>3. QED
      BY <1>1, <1>2, <1>3, <1>4, <2>2, <2>4, <3>1, <3>2, PutsKeep
  <2>5. QED
    BY <2>3, <2>4
<1>5. CASE Put(o, Target(o), "absent") /\ Tries(c, Target(o), "failed") /\ UNCHANGED staged
  <2>1. \A r \in CallRecord : (r.at = "failed" /\ r.op = o) => CallIsSound(r, staged'[c], files', content.assets)
    BY <1>1 DEF CallIsSound
  <2>2. "failed" \in CallPlaces /\ "failed" \in Holding /\ "absent" \in Kept
    BY DEF CallPlaces, Holding, Kept
  <2>3. staged' \in [Caller -> Kept] /\ \A d \in Caller : d # c => staged'[d] = staged[d]
    BY <1>5 DEF FilesInv, FilesTypeOK, Kept
  <2>4. QED
    BY <1>1, <1>2, <1>3, <1>5, <2>1, <2>2, <2>3, PutsKeep
<1>6. QED
  BY <1>4, <1>5 DEF Place

LEMMA EncodeKeeps ==
  ASSUME FilesInv, NEW c \in Caller, Encode(c)
  PROVE  FilesInv'
<1> PICK o : o = call[c].op
  OBVIOUS
<1>1. call[c].at = "encoding" /\ o \in Import /\ o \notin content.assets /\ files[o]["original"] = "whole"
  BY CallIs DEF Encode, CallIsSound
<1>2. UNCHANGED <<content, known, summary, saving, staged, seen, sweep, deaths, spilled>>
  BY DEF Encode
<1>3. Put(o, "working", "part") /\ Tries(c, "working", "encoded")
  BY DEF Encode
<1>4. "working" \in PathNames /\ "original" \in PathNames /\ "part" \in Kept /\ "encoded" \in CallPlaces /\ "encoded" \in Holding
  BY DEF PathNames, Kept, CallPlaces, Holding
<1>5. files'[o]["original"] = "whole"
  BY <1>1, <1>3, <1>4, PutIs DEF FilesInv
<1>6. \A r \in CallRecord : (r.at = "encoded" /\ r.op = o /\ "working" \in r.tried) => CallIsSound(r, staged'[c], files', content.assets)
  BY <1>1, <1>5 DEF CallIsSound
<1>7. staged' \in [Caller -> Kept] /\ \A d \in Caller : d # c => staged'[d] = staged[d]
  BY <1>2 DEF FilesInv, FilesTypeOK, Kept
<1>8. QED
  BY <1>1, <1>2, <1>3, <1>4, <1>6, <1>7, PutsKeep

LEMMA EncodedKeeps ==
  ASSUME FilesInv, NEW c \in Caller, Encoded(c)
  PROVE  FilesInv'
<1> PICK o : o = call[c].op
  OBVIOUS
<1>1. call[c].at = "encoded" /\ o \in Import /\ o \notin content.assets /\ files[o]["original"] = "whole"
  BY CallIs DEF Encoded, CallIsSound
<1>2. UNCHANGED <<content, known, summary, saving, staged, seen, sweep, deaths, spilled>>
  BY DEF Encoded
<1>3. staged' \in [Caller -> Kept] /\ \A d \in Caller : d # c => staged'[d] = staged[d]
  BY <1>2 DEF FilesInv, FilesTypeOK, Kept
<1>4. CASE UNCHANGED files /\ Goes(c, "failed")
  <2>1. "failed" \in CallPlaces /\ "failed" \in Holding /\ "encoded" \in Holding
    BY DEF CallPlaces, Holding
  <2>2. \A r \in CallRecord : (r.at = "failed" /\ r.op = o) => CallIsSound(r, staged'[c], files', content.assets)
    BY <1>1 DEF CallIsSound
  <2>3. QED
    BY <1>1, <1>2, <1>3, <1>4, <2>1, <2>2, PassKeeps DEF projectVars
<1>5. CASE Put(o, "working", "whole") /\ Goes(c, "probing")
  <2>1. "working" \in PathNames /\ "original" \in PathNames /\ "whole" \in Kept /\ "probing" \in CallPlaces
    BY DEF PathNames, Kept, CallPlaces
  <2>2. PICK r \in CallRecord : Moves(c, r) /\ r.at = "probing" /\ r.op = o /\ r.tried = call[c].tried
    BY <2>1, <1>5, GoesIs DEF FilesInv
  <2>3. /\ files' \in [Import -> [PathNames -> Kept]]
        /\ files'[o]["original"] = "whole" /\ files'[o]["working"] = "whole"
        /\ \A a \in Import : a # o => files'[a] = files[a]
    BY <1>1, <1>5, <2>1, PutIs DEF FilesInv
  <2>4. \A p \in PathNames : (o \notin content.assets \cup spilled /\ files'[o][p] # "absent") => p \in r.tried
    <3>1. "working" \in call[c].tried /\ call[c].at \in Holding
      BY <1>1, CallIs DEF CallIsSound, Holding
    <3>2. files[o]["original"] # "absent"
      BY <1>1
    <3>3. o \notin content.assets \cup spilled => "original" \in call[c].tried
      BY <2>1, <3>1, <3>2, HolderTried
    <3>4. QED
      BY <2>2, <3>1, <3>3 DEF PathNames
  <2>5. spilled \subseteq Import /\ sweep.at = "none"
    BY <1>1, CallIs
  <2>6. ImportSteps(c, r)
    BY <1>1, <1>2, <1>3, <2>2, <2>3, <2>4, <2>5 DEF ImportSteps, Holding
  <2>7. CallIsSound(r, staged'[c], files', content.assets)
    BY <1>1, <2>2, <2>3 DEF CallIsSound, Paths
  <2>8. QED
    BY <2>6, <2>7, ImportKeeps
<1>6. QED
  BY <1>4, <1>5 DEF Encoded

LEMMA ProbeKeeps ==
  ASSUME FilesInv, NEW c \in Caller, Probe(c)
  PROVE  FilesInv'
<1>1. /\ call[c].at = "probing" /\ call[c].op \notin content.assets
      /\ \A p \in Paths(call[c].op) : files[call[c].op][p] = "whole"
  BY CallIs DEF Probe, CallIsSound
<1>2. PICK place \in {"mutating", "failed"} : Goes(c, place)
  BY DEF Probe
<1>3. /\ UNCHANGED <<projectVars, seen, sweep, deaths, spilled>>
      /\ staged' = staged /\ staged \in [Caller -> Kept]
  BY DEF Probe, FilesInv, FilesTypeOK, Kept
<1>4. place \in CallPlaces /\ place \in Holding /\ "probing" \in Holding
  BY DEF CallPlaces, Holding
<1>5. \A r \in CallRecord : (r.at = place /\ r.op = call[c].op /\ r.tried = call[c].tried)
                            => CallIsSound(r, staged'[c], files, content.assets)
  BY <1>1, <1>2, <1>3, CallIs DEF CallIsSound, Holding
<1>6. QED
  BY <1>1, <1>2, <1>3, <1>4, <1>5, PassKeeps

(* What a purge of o leaves: outside o's tried paths, or when o is safe, nothing has changed.  *)
OnlyPurged(before, after, o, t, s) ==
  /\ after \in [Import -> [PathNames -> Kept]]
  /\ \A a \in Import : (a # o \/ a \in s) => after[a] = before[a]
  /\ o \notin s => \A p \in PathNames : /\ p \in t => after[o][p] = "absent"
                                        /\ p \notin t => after[o][p] = before[o][p]

(* The files that go are those of an import that the Project does not refer to.  *)
LEMMA PurgedIs ==
  ASSUME FilesTypeOK, NEW o \in Import, NEW t \in SUBSET PathNames, NEW s \in SUBSET Import,
         files' = Purged(o, t, s)
  PROVE  OnlyPurged(files, files', o, t, s)
<1> DEFINE g == [p \in PathNames |-> IF p \in t THEN "absent" ELSE files[o][p]]
<1>1. files \in [Import -> [PathNames -> Kept]]
  BY DEF FilesTypeOK, PathNames, Kept
<1>2. g \in [PathNames -> Kept] /\ \A p \in PathNames : g[p] = IF p \in t THEN "absent" ELSE files[o][p]
  BY <1>1 DEF Kept
<1>3. CASE o \in s
  BY <1>1, <1>3 DEF Purged, OnlyPurged
<1>4. CASE o \notin s
  <2>1. files' = [files EXCEPT ![o] = g]
    BY <1>1, <1>4 DEF Purged, PathNames
  <2> HIDE DEF g
  <2>2. QED
    BY <1>1, <1>2, <1>4, <2>1 DEF OnlyPurged
<1>5. QED
  BY <1>3, <1>4

LEMMA RecallKeeps ==
  ASSUME FilesInv, NEW c \in Caller, Recall(c)
  PROVE  FilesInv'
<1>1. call[c].at = "failed" /\ call[c].op \in Import /\ call[c] \in CallRecord /\ sweep.at = "none" /\ "failed" \in Holding
  BY CallIs DEF Recall, CallIsSound, Holding
<1>2. /\ UNCHANGED <<content, known, files, summary, saving, staged, seen, sweep, deaths>>
      /\ staged \in [Caller -> Kept] /\ files \in [Import -> [PathNames -> Kept]] /\ spilled \subseteq Import
      /\ content.assets \subseteq Import
  BY DEF Recall, projectVars, FilesInv, FilesTypeOK, Kept, PathNames
<1>3. CASE call' = [call EXCEPT ![c].at = "purging", ![c].safe = content.assets] /\ UNCHANGED spilled
  <2> DEFINE a == content.assets
             r == [call[c] EXCEPT !.at = "purging", !.safe = a]
  <2>1. a \in SUBSET Import /\ a = content.assets
    BY <1>2
  <2>2. call' = [call EXCEPT ![c] = r]
    BY <1>3, CallsTyped DEF FilesInv
  <2> HIDE DEF a
  <2>3. r \in CallRecord /\ r.at = "purging" /\ r.op = call[c].op /\ r.tried = call[c].tried /\ r.safe = a
    BY <1>1, <2>1 DEF CallRecord, CallPlaces
  <2> HIDE DEF r
  <2>4. \A p \in PathNames :
          (call[c].op \notin content.assets \cup spilled /\ files[call[c].op][p] # "absent") => p \in r.tried
    BY <1>1, <2>3, HolderTried
  <2>5. ImportSteps(c, r)
    BY <1>1, <1>2, <1>3, <2>2, <2>3, <2>4 DEF ImportSteps, Moves, Holding
  <2>6. CallIsSound(r, staged'[c], files', content.assets)
    BY <1>1, <2>1, <2>3 DEF CallIsSound
  <2>7. QED
    BY <2>5, <2>6, ImportKeeps
<1>4. CASE Goes(c, "leaving") /\ spilled' = spilled \cup {call[c].op}
  <2>1. PICK r \in CallRecord : Moves(c, r) /\ r.at = "leaving" /\ r.op = call[c].op
    BY <1>4, GoesIs DEF FilesInv, CallPlaces
  <2>2. ImportSteps(c, r)
    BY <1>1, <1>2, <1>4, <2>1 DEF ImportSteps, Holding
  <2>3. CallIsSound(r, staged'[c], files', content.assets)
    BY <1>1, <2>1 DEF CallIsSound
  <2>4. QED
    BY <2>2, <2>3, ImportKeeps
<1>5. QED
  BY <1>3, <1>4 DEF Recall

LEMMA PurgeKeeps ==
  ASSUME FilesInv, NEW c \in Caller, Purge(c)
  PROVE  FilesInv'
<1> PICK o : o = call[c].op
  OBVIOUS
<1> PICK t : t = call[c].tried
  OBVIOUS
<1> PICK s : s = call[c].safe
  OBVIOUS
<1>1. /\ call[c].at = "purging" /\ o \in Import /\ call[c] \in CallRecord /\ sweep.at = "none" /\ "purging" \in Holding
      /\ s \subseteq content.assets /\ (o \in content.assets => o \in s)
  BY CallIs DEF Purge, CallIsSound, Holding
<1>2. /\ UNCHANGED <<content, known, summary, saving, staged, seen, sweep, deaths>>
      /\ staged \in [Caller -> Kept] /\ files \in [Import -> [PathNames -> Kept]] /\ spilled \subseteq Import
  BY DEF Purge, FilesInv, FilesTypeOK, Kept, PathNames
<1>3. PICK r \in CallRecord : Moves(c, r) /\ r.at = "leaving" /\ r.op = o
  BY GoesIs DEF FilesInv, CallPlaces, Purge
<1>4. CallIsSound(r, staged'[c], files', content.assets)
  BY <1>1, <1>3 DEF CallIsSound
<1>5. CASE files' = Purged(o, t, s) /\ UNCHANGED spilled
  <2>1. t \in SUBSET PathNames /\ s \in SUBSET Import
    BY <1>1 DEF CallRecord
  <2>2. /\ files' \in [Import -> [PathNames -> Kept]]
        /\ \A a \in Import : (a # o \/ a \in s) => files'[a] = files[a]
        /\ o \notin s => \A p \in PathNames : /\ p \in t => files'[o][p] = "absent"
                                              /\ p \notin t => files'[o][p] = files[o][p]
    <3>1. FilesTypeOK
      BY DEF FilesInv
    <3>2. o \in Import /\ files' = Purged(o, t, s)
      BY <1>1, <1>5
    <3>3. OnlyPurged(files, files', o, t, s)
      BY <2>1, <3>1, <3>2, PurgedIs
    <3>4. QED
      BY <3>3 DEF OnlyPurged
  <2>3. \A p \in PathNames : o \notin content.assets \cup spilled => files'[o][p] = "absent"
    BY <1>1, <2>2, HolderTried
  <2>4. ImportSteps(c, r)
    BY <1>1, <1>2, <1>3, <1>5, <2>2, <2>3 DEF ImportSteps, Holding
  <2>5. QED
    BY <1>4, <2>4, ImportKeeps
<1>6. CASE UNCHANGED files /\ spilled' = spilled \cup {o}
  <2>1. ImportSteps(c, r)
    BY <1>1, <1>2, <1>3, <1>6 DEF ImportSteps, Holding
  <2>2. QED
    BY <1>4, <2>1, ImportKeeps
<1>7. QED
  BY <1>5, <1>6 DEF Purge

LEMMA LeaveImportKeeps ==
  ASSUME FilesInv, NEW c \in Caller, LeaveImport(c)
  PROVE  FilesInv'
<1>1. call[c].at = "leaving" /\ staged' = [staged EXCEPT ![c] = "absent"]
  BY DEF LeaveImport, Unstaged
<1>2. staged' \in [Caller -> Kept] /\ staged'[c] = "absent" /\ \A d \in Caller : d # c => staged'[d] = staged[d]
  BY <1>1 DEF FilesInv, FilesTypeOK, Kept
<1>3. Moves(c, NoCall) /\ NoCall.at = "idle"
  BY NoCallIs DEF LeaveImport, Moves
<1>4. UNCHANGED <<content, known, files, summary, saving, seen, sweep, deaths, spilled>>
  BY DEF LeaveImport, projectVars
<1>5. files \in [Import -> [PathNames -> Kept]] /\ spilled \subseteq Import
  BY DEF FilesInv, FilesTypeOK, Kept, PathNames
<1>6. ImportSteps(c, NoCall)
  BY <1>1, <1>2, <1>3, <1>4, <1>5 DEF ImportSteps, Holding
<1>7. CallIsSound(NoCall, staged'[c], files', content.assets)
  BY <1>2, <1>3 DEF CallIsSound
<1>8. QED
  BY <1>6, <1>7, ImportKeeps

(* A save begins: nobody lists the projects, and the summary goes first.         *)
LEMMA BeginIs ==
  ASSUME Careful, FilesInv, NEW by, NEW assets, NEW o, BeginSave(by, assets, o)
  PROVE  /\ saving.at = "none" /\ content.rev < MaxSaves
         /\ \A l \in Lister : seen[l] = NoSummary
         /\ saving' = [by |-> by, at |-> "replace", next |-> assets, op |-> o]
         /\ summary' = NoSummary
         /\ \A c \in Caller : call[c].at # "saving"
BY DEF Careful, BeginSave, ProjectIsFree, FilesInv, SaveIsSound

LEMMA NoSummaryIs == NoSummary \in [state : {"absent", "present"}, rev : 0 .. MaxSaves] /\ NoSummary.state = "absent"
BY FilesBounds DEF NoSummary

LEMMA NoSaveIs == NoSave \in SaveRecord /\ NoSave.at = "none" /\ NoSave.by = Nobody
<1> DEFINE none == {}
<1>1. NoSave = [by |-> Nobody, at |-> "none", next |-> none, op |-> Nobody]
  BY DEF NoSave
<1>2. none \in SUBSET Import
  OBVIOUS
<1> HIDE DEF none
<1>3. QED
  BY <1>1, <1>2 DEF SaveRecord

LEMMA SaveTyped == FilesTypeOK => saving \in SaveRecord /\ sweep \in SweepRecord
BY DEF FilesTypeOK, SaveRecord, SweepRecord

(* A state that is sound but for the save, and one call that goes on in it.      *)
LEMMA MutateKeeps ==
  ASSUME Careful, FilesInv, NEW c \in Caller, Mutate(c)
  PROVE  FilesInv'
<1> PICK o : o = call[c].op
  OBVIOUS
<1>1. /\ call[c].at = "mutating" /\ o \in Import /\ o \notin content.assets
      /\ \A p \in Paths(o) : files[o][p] = "whole"
      /\ sweep.at = "none" /\ call[c] \in CallRecord
  BY CallIs DEF Mutate, CallIsSound
<1>2. UNCHANGED <<content, known, files, staged, seen, sweep, deaths, spilled>>
  BY DEF Mutate
<1>3. o \notin known
  BY <1>1 DEF FilesInv
<1>4. CASE Goes(c, "failed") /\ UNCHANGED <<summary, saving>>
  <2>1. "failed" \in CallPlaces /\ "failed" \in Holding /\ "mutating" \in Holding
    BY DEF CallPlaces, Holding
  <2>2. staged' \in [Caller -> Kept] /\ \A d \in Caller : d # c => staged'[d] = staged[d]
    BY <1>2 DEF FilesInv, FilesTypeOK, Kept
  <2>3. \A r \in CallRecord : (r.at = "failed" /\ r.op = call[c].op /\ r.tried = call[c].tried)
                              => CallIsSound(r, staged'[c], files, content.assets)
    BY <1>1 DEF CallIsSound
  <2>4. QED
    BY <1>1, <1>2, <1>4, <2>1, <2>2, <2>3, PassKeeps DEF projectVars
<1>5. CASE BeginSave(c, content.assets \cup {o}, o) /\ Goes(c, "saving")
  <2> DEFINE next == content.assets \cup {o}
  <2>1. PICK r \in CallRecord : Moves(c, r) /\ r.at = "saving" /\ r.op = o /\ r.tried = call[c].tried
    BY <1>5, GoesIs DEF FilesInv, CallPlaces
  <2>2. /\ call' \in [Caller -> CallRecord] /\ call'[c] = r
        /\ \A d \in Caller : d # c => call'[d] = call[d]
    BY <2>1, MovesIs DEF FilesInv
  <2>3. next \in SUBSET Import /\ next = content.assets \cup ({o} \ {Nobody})
    BY <1>1, CallIs, EditorAssumption
  <2> HIDE DEF next
  <2>4. /\ saving.at = "none" /\ content.rev < MaxSaves
        /\ \A l \in Lister : seen[l] = NoSummary
        /\ saving' = [by |-> c, at |-> "replace", next |-> next, op |-> o]
        /\ summary' = NoSummary
        /\ \A d \in Caller : call[d].at # "saving"
    BY <1>5, BeginIs DEF next
  <2>5. FilesTypeOK'
    <3>1. saving' \in SaveRecord
      BY <1>1, <2>3, <2>4 DEF SaveRecord
    <3>2. QED
      BY <1>2, <2>2, <2>4, <3>1, NoSummaryIs DEF FilesInv, FilesTypeOK, CallRecord, CallPlaces, PathNames, SaveRecord
  <2>6. CallsAreSound'
    <3>1. CallIsSound(r, staged[c], files, content.assets)
      BY <1>1, <2>1 DEF CallIsSound
    <3>2. QED
      BY <1>2, <2>2, <3>1 DEF FilesInv, CallsAreSound
  <2>7. OneImportEach'
    BY <1>1, <2>1, <2>2 DEF FilesInv, OneImportEach, Holding
  <2>8. known' = content'.assets
    BY <1>2 DEF FilesInv
  <2>9. SaveIsSound'
    BY <1>2, <2>1, <2>2, <2>3, <2>4 DEF SaveIsSound
  <2>10. SweepIsAlone'
    BY <1>1, <1>2 DEF SweepIsAlone
  <2>11. ListersAreCurrent' /\ SummaryIsCurrent'
    BY <1>2, <2>4 DEF ListersAreCurrent, SummaryIsCurrent
  <2>12. AssetsAreWhole'
    BY <1>2 DEF FilesInv, AssetsAreWhole
  <2>13. FilesAreOwned'
    <3> SUFFICES ASSUME NEW a \in Import, a \notin content.assets, a \notin spilled, NEW p \in PathNames,
                        files[a][p] # "absent"
                 PROVE  \E d \in Caller : call'[d].at \in Holding /\ call'[d].op = a /\ p \in call'[d].tried
      BY <1>2 DEF FilesAreOwned
    <3>1. PICK d \in Caller : call[d].at \in Holding /\ call[d].op = a /\ p \in call[d].tried
      BY DEF FilesInv, FilesAreOwned
    <3>2. call'[d].at \in Holding /\ call'[d].op = a /\ p \in call'[d].tried
      BY <2>1, <2>2, <3>1 DEF Holding
    <3>3. QED
      BY <3>2
  <2>14. QED
    BY <2>5, <2>6, <2>7, <2>8, <2>9, <2>10, <2>11, <2>12, <2>13 DEF FilesInv
<1>6. QED
  BY <1>3, <1>4, <1>5 DEF Mutate

LEMMA EditProjectKeeps ==
  ASSUME Careful, FilesInv, EditProject
  PROVE  FilesInv'
<1> DEFINE next == content.assets
<1>1. UNCHANGED <<content, known, files, staged, call, seen, sweep, deaths, spilled>>
  BY DEF EditProject
<1>2. next \in SUBSET Import /\ next = content.assets \cup ({Nobody} \ {Nobody})
  BY DEF FilesInv, FilesTypeOK
<1> HIDE DEF next
<1>3. /\ saving.at = "none" /\ content.rev < MaxSaves
      /\ \A l \in Lister : seen[l] = NoSummary
      /\ saving' = [by |-> "editor", at |-> "replace", next |-> next, op |-> Nobody]
      /\ summary' = NoSummary
      /\ \A d \in Caller : call[d].at # "saving"
  BY BeginIs DEF EditProject, next
<1>4. FilesTypeOK'
  <2>1. saving' \in SaveRecord
    BY <1>2, <1>3 DEF SaveRecord
  <2>2. QED
    BY <1>1, <1>3, <2>1, NoSummaryIs DEF FilesInv, FilesTypeOK, SaveRecord
<1>5. SaveIsSound'
  BY <1>1, <1>2, <1>3 DEF SaveIsSound
<1>6. CallsAreSound' /\ OneImportEach' /\ known' = content'.assets /\ SweepIsAlone' /\ AssetsAreWhole' /\ FilesAreOwned'
  BY <1>1 DEF FilesInv, CallsAreSound, OneImportEach, SweepIsAlone, AssetsAreWhole, FilesAreOwned
<1>7. ListersAreCurrent' /\ SummaryIsCurrent'
  BY <1>1, <1>3 DEF ListersAreCurrent, SummaryIsCurrent
<1>8. QED
  BY <1>4, <1>5, <1>6, <1>7 DEF FilesInv

(* Whose save it is holds its operation alone.                                   *)
LEMMA SaverIs ==
  ASSUME FilesInv, saving.at # "none"
  PROVE  /\ \/ saving.by \notin Caller /\ saving.op = Nobody
            \/ saving.by \in Caller /\ call[saving.by].at = "saving" /\ saving.op = call[saving.by].op
               /\ saving.op \in Import /\ \A p \in Paths(saving.op) : files[saving.op][p] = "whole"
         /\ \A d \in Caller : (call[d].at \in Holding /\ d # saving.by) => call[d].op # saving.op
         /\ \A d \in Caller : call[d].at = "saving" => d = saving.by
         /\ summary = NoSummary /\ \A l \in Lister : seen[l] = NoSummary
<1>1. summary = NoSummary /\ (\A l \in Lister : seen[l] = NoSummary) /\ \A d \in Caller : call[d].at = "saving" => d = saving.by
  BY DEF FilesInv, SaveIsSound, ListersAreCurrent
<1>2. CASE saving.by = "editor" /\ saving.op = Nobody
  BY <1>1, <1>2, CallIs, EditorAssumption
<1>3. CASE saving.by \in Caller /\ call[saving.by].at = "saving" /\ saving.op = call[saving.by].op
  <2>1. saving.op \in Import /\ \A p \in Paths(saving.op) : files[saving.op][p] = "whole"
    BY <1>3 DEF FilesInv, CallsAreSound, CallIsSound
  <2>2. \A d \in Caller : (call[d].at \in Holding /\ d # saving.by) => call[d].op # saving.op
    BY <1>3 DEF FilesInv, OneImportEach, Holding
  <2>3. QED
    BY <1>1, <1>3, <2>1, <2>2
<1>4. QED
  BY <1>2, <1>3 DEF FilesInv, SaveIsSound

LEMMA ReplaceKeeps ==
  ASSUME FilesInv, Replace
  PROVE  FilesInv'
<1> DEFINE more == {saving.op} \ {Nobody}
           rev == content.rev + 1
           next == saving.next
<1>1. /\ saving.at = "replace" /\ known' = known \cup more /\ content' = [rev |-> rev, assets |-> next]
      /\ UNCHANGED <<files, staged, summary, call, seen, sweep, deaths, spilled>>
  BY DEF Replace
<1>2. content.rev < MaxSaves /\ next = content.assets \cup more
  BY <1>1 DEF FilesInv, SaveIsSound
<1>3. saving \in SaveRecord /\ content \in [rev : 0 .. MaxSaves, assets : SUBSET Import]
  BY SaveTyped DEF FilesInv, FilesTypeOK
<1>4. rev \in 0 .. MaxSaves /\ next \in SUBSET Import
  BY <1>2, <1>3, FilesBounds DEF SaveRecord
<1> HIDE DEF rev, next
<1>5. content'.assets = next /\ content' \in [rev : 0 .. MaxSaves, assets : SUBSET Import]
  BY <1>1, <1>4
<1>6. /\ saving' \in SaveRecord /\ saving'.at = "cache" /\ saving'.by = saving.by /\ saving'.op = saving.op
  BY <1>3 DEF SaveRecord, Replace
<1>7. FilesTypeOK'
  <2>1. known' \subseteq Import
    BY <1>1, <1>2, <1>4 DEF FilesInv
  <2>2. QED
    BY <1>1, <1>5, <1>6, <2>1 DEF FilesInv, FilesTypeOK, SaveRecord
<1>8. CallsAreSound'
  <2> SUFFICES ASSUME NEW d \in Caller
               PROVE  CallIsSound(call[d], staged[d], files, next)
    BY <1>1, <1>5 DEF CallsAreSound
  <2>1. CallIsSound(call[d], staged[d], files, content.assets)
    BY CallIs
  <2>2. (call[d].at \in Holding /\ call[d].at # "saving") => call[d].op # saving.op
    BY <1>1, SaverIs
  <2>3. QED
    BY <1>2, <2>1, <2>2 DEF CallIsSound, Holding
<1>9. OneImportEach'
  BY <1>1 DEF FilesInv, OneImportEach
<1>10. known' = content'.assets
  BY <1>1, <1>2, <1>5 DEF FilesInv
<1>11. SaveIsSound'
  <2>1. saving'.op \in content'.assets \cup {Nobody}
    BY <1>2, <1>5, <1>6
  <2>2. QED
    BY <1>1, <1>6, <2>1 DEF FilesInv, SaveIsSound
<1>12. SweepIsAlone'
  <2>1. CASE sweep.at = "none"
    BY <1>1, <2>1 DEF SweepIsAlone
  <2>2. CASE sweep.at # "none"
    <3>1. \A d \in Caller : call[d].at = "idle"
      BY <2>2 DEF FilesInv, SweepIsAlone
    <3>2. next = content.assets
      BY <1>1, <1>2, <3>1, SaverIs
    <3>3. QED
      BY <1>1, <1>5, <3>1, <3>2 DEF FilesInv, SweepIsAlone
  <2>3. QED
    BY <2>1, <2>2
<1>13. ListersAreCurrent' /\ SummaryIsCurrent'
  BY <1>1, SaverIs DEF ListersAreCurrent, SummaryIsCurrent
<1>14. AssetsAreWhole'
  <2> SUFFICES ASSUME NEW a \in next, NEW p \in Paths(a) PROVE files[a][p] = "whole"
    BY <1>1, <1>5 DEF AssetsAreWhole
  <2>1. CASE a \in content.assets
    BY <2>1 DEF FilesInv, AssetsAreWhole
  <2>2. CASE a \notin content.assets
    BY <1>1, <1>2, <2>2, SaverIs
  <2>3. QED
    BY <2>1, <2>2
<1>15. FilesAreOwned'
  BY <1>1, <1>2, <1>5 DEF FilesInv, FilesAreOwned
<1>16. QED
  BY <1>7, <1>8, <1>9, <1>10, <1>11, <1>12, <1>13, <1>14, <1>15 DEF FilesInv

(* A save is over, and whose it was goes on: with its asset, or to clean up.     *)
SaveIsOver(place) ==
  /\ saving.at # "none" /\ saving' = NoSave
  /\ UNCHANGED <<content, known, files, staged, seen, sweep, deaths, spilled>>
  /\ summary' \in {Naming(content.rev), NoSummary}
  /\ IF saving.by \in Caller THEN Goes(saving.by, place) ELSE UNCHANGED call
  /\ place = "leaving" => saving.op \in content.assets \cup {Nobody}

LEMMA SaveIsOverKeeps ==
  ASSUME FilesInv, NEW place \in {"leaving", "failed"}, SaveIsOver(place)
  PROVE  FilesInv'
<1> PICK b : b = saving.by
  OBVIOUS
<1>1. /\ saving.at # "none" /\ saving' = NoSave
      /\ UNCHANGED <<content, known, files, staged, seen, sweep, deaths, spilled>>
      /\ summary' \in {Naming(content.rev), NoSummary}
  BY DEF SaveIsOver
<1>2. /\ call' \in [Caller -> CallRecord] /\ \A d \in Caller : d # b => call'[d] = call[d]
      /\ b \in Caller => call'[b].at = place /\ call'[b].op = call[b].op /\ call'[b].tried = call[b].tried
  <2>1. CASE b \in Caller
    <3>1. Goes(b, place) /\ place \in CallPlaces
      BY <2>1 DEF SaveIsOver, CallPlaces
    <3>2. PICK r \in CallRecord : Moves(b, r) /\ r.at = place /\ r.op = call[b].op /\ r.tried = call[b].tried
      BY <2>1, <3>1, GoesIs DEF FilesInv
    <3>3. QED
      BY <2>1, <3>2, MovesIs DEF FilesInv
  <2>2. CASE b \notin Caller
    BY <2>2, CallsTyped DEF SaveIsOver, FilesInv
  <2>3. QED
    BY <2>1, <2>2
<1>3. \A d \in Caller : (d # b => call[d].at # "saving") /\ (d = b => call[d].at = "saving" /\ saving.op = call[b].op /\ call[b].op \in Import)
  BY <1>1, SaverIs
<1>4. FilesTypeOK'
  <2>1. Naming(content.rev) \in [state : {"absent", "present"}, rev : 0 .. MaxSaves]
    BY DEF FilesInv, FilesTypeOK, Naming
  <2>2. saving' \in SaveRecord /\ summary' \in [state : {"absent", "present"}, rev : 0 .. MaxSaves]
    BY <1>1, <2>1, NoSaveIs, NoSummaryIs
  <2>3. QED
    BY <1>1, <1>2, <2>2 DEF FilesInv, FilesTypeOK, CallRecord, CallPlaces, PathNames, SaveRecord
<1>5. CallsAreSound'
  <2> SUFFICES ASSUME NEW d \in Caller
               PROVE  CallIsSound(call'[d], staged[d], files, content.assets)
    BY <1>1 DEF CallsAreSound
  <2>1. CASE d = b
    BY <1>2, <1>3, <2>1 DEF CallIsSound
  <2>2. CASE d # b
    BY <1>2, <2>2, CallIs
  <2>3. QED
    BY <2>1, <2>2
<1>6. OneImportEach'
  <2> SUFFICES ASSUME NEW c \in Caller, NEW d \in Caller, c # d, call'[c].at \in Holding, call'[d].at \in Holding
               PROVE  call'[c].op # call'[d].op
    BY DEF OneImportEach
  <2>1. \A e \in Caller : call'[e].at \in Holding => call[e].at \in Holding /\ call'[e].op = call[e].op
    BY <1>2, <1>3 DEF Holding
  <2>2. QED
    BY <2>1 DEF FilesInv, OneImportEach
<1>7. known' = content'.assets /\ AssetsAreWhole'
  BY <1>1 DEF FilesInv, AssetsAreWhole
<1>8. SaveIsSound'
  BY <1>1, <1>2, <1>3, NoSaveIs DEF SaveIsSound
<1>9. SweepIsAlone'
  BY <1>1, <1>2, <1>3 DEF FilesInv, SweepIsAlone
<1>10. ListersAreCurrent' /\ SummaryIsCurrent'
  <2>1. \A l \in Lister : seen[l] = NoSummary
    BY <1>1, SaverIs
  <2>2. Naming(content.rev).rev = content.rev
    BY DEF Naming
  <2>3. QED
    BY <1>1, <2>1, <2>2 DEF ListersAreCurrent, SummaryIsCurrent
<1>11. FilesAreOwned'
  <2> SUFFICES ASSUME NEW a \in Import, a \notin content.assets, a \notin spilled, NEW p \in PathNames,
                      files[a][p] # "absent"
               PROVE  \E d \in Caller : call'[d].at \in Holding /\ call'[d].op = a /\ p \in call'[d].tried
    BY <1>1 DEF FilesAreOwned
  <2>1. PICK d \in Caller : call[d].at \in Holding /\ call[d].op = a /\ p \in call[d].tried
    BY DEF FilesInv, FilesAreOwned
  <2>2. CASE d # b
    BY <1>2, <2>1, <2>2
  <2>3. CASE d = b
    <3>1. saving.op = a /\ place # "leaving"
      BY <1>3, <2>1, <2>3, EditorAssumption DEF SaveIsOver
    <3>2. QED
      BY <1>2, <2>1, <2>3, <3>1 DEF Holding
  <2>4. QED
    BY <2>2, <2>3
<1>12. QED
  BY <1>4, <1>5, <1>6, <1>7, <1>8, <1>9, <1>10, <1>11 DEF FilesInv

LEMMA SavesKeep ==
  ASSUME FilesInv, SaveRefused \/ EndSave
  PROVE  FilesInv'
<1>1. CASE SaveRefused
  <2>1. SaveIsOver("failed")
    BY <1>1, SaverIs DEF SaveRefused, SaveIsOver
  <2>2. QED
    BY <2>1, SaveIsOverKeeps
<1>2. CASE EndSave
  <2>1. saving.op \in content.assets \cup {Nobody} /\ saving.at # "none"
    BY <1>2 DEF EndSave, FilesInv, SaveIsSound
  <2>2. \E place \in {"leaving", "failed"} : IF saving.by \in Caller THEN Goes(saving.by, place) ELSE UNCHANGED call
    BY <1>2 DEF EndSave
  <2>3. \E place \in {"leaving", "failed"} : SaveIsOver(place)
    BY <1>2, <2>1, <2>2 DEF EndSave, SaveIsOver
  <2>4. QED
    BY <2>3, SaveIsOverKeeps
<1>3. QED
  BY <1>1, <1>2

LEMMA NamingIs ==
  FilesTypeOK => /\ Naming(content.rev) \in [state : {"absent", "present"}, rev : 0 .. MaxSaves]
                 /\ Naming(content.rev).rev = content.rev
BY DEF FilesTypeOK, Naming

LEMMA ListsKeep ==
  ASSUME FilesInv, NEW l \in Lister, ListProjects(l) \/ Cache(l)
  PROVE  FilesInv'
<1>1. UNCHANGED <<content, known, files, saving, staged, call, sweep, deaths, spilled>>
  BY DEF ListProjects, Cache, projectVars
<1>2. CASE ListProjects(l)
  <2> PICK n : n = Naming(content.rev)
    OBVIOUS
  <2>1. saving.at = "none" /\ summary' = summary /\ seen' = [seen EXCEPT ![l] = n]
    BY <1>2 DEF ListProjects, ProjectIsFree, projectVars
  <2>2. FilesTypeOK'
    BY <1>1, <2>1, NamingIs DEF FilesInv, FilesTypeOK
  <2>3. ListersAreCurrent'
    BY <1>1, <2>1 DEF FilesInv, FilesTypeOK, ListersAreCurrent
  <2>4. SummaryIsCurrent' /\ SaveIsSound'
    BY <1>1, <2>1 DEF FilesInv, SummaryIsCurrent, SaveIsSound
  <2>5. QED
    BY <1>1, <2>2, <2>3, <2>4
       DEF FilesInv, CallsAreSound, OneImportEach, SweepIsAlone, AssetsAreWhole, FilesAreOwned
<1>3. CASE Cache(l)
  <2>1. seen[l] # NoSummary /\ summary' \in {summary, seen[l]} /\ seen' = [seen EXCEPT ![l] = NoSummary]
    BY <1>3 DEF Cache
  <2>2. seen[l] = Naming(content.rev) /\ saving.at = "none"
    BY <2>1 DEF FilesInv, ListersAreCurrent
  <2>3. FilesTypeOK'
    BY <1>1, <2>1, NoSummaryIs DEF FilesInv, FilesTypeOK
  <2>4. ListersAreCurrent'
    BY <1>1, <2>1 DEF FilesInv, FilesTypeOK, ListersAreCurrent
  <2>5. SummaryIsCurrent'
    BY <1>1, <2>1, <2>2, NamingIs DEF FilesInv, SummaryIsCurrent
  <2>6. SaveIsSound'
    BY <1>1, <2>2 DEF FilesInv, SaveIsSound
  <2>7. QED
    BY <1>1, <2>3, <2>4, <2>5, <2>6
       DEF FilesInv, CallsAreSound, OneImportEach, SweepIsAlone, AssetsAreWhole, FilesAreOwned
<1>4. QED
  BY <1>2, <1>3

(* A removal of orphans goes on, and no file of an asset goes.                   *)
LEMMA SweepMoves ==
  ASSUME FilesInv, sweep' \in SweepRecord, SweepIsAlone',
         UNCHANGED <<content, known, summary, saving, staged, call, seen, deaths, spilled>>,
         files' \in [Import -> [PathNames -> Kept]],
         files' = files \/ \A c \in Caller : call[c].at = "idle",
         \A o \in Import : files'[o] = files[o] \/ (o \notin content.assets /\ \A p \in PathNames : files'[o][p] = "absent")
  PROVE  FilesInv'
<1>1. FilesTypeOK'
  BY DEF FilesInv, FilesTypeOK, SweepRecord, PathNames, Kept
<1>2. CallsAreSound'
  <2> SUFFICES ASSUME NEW c \in Caller PROVE CallIsSound(call[c], staged[c], files', content.assets)
    BY DEF CallsAreSound
  <2>1. CASE files' = files
    BY <2>1, CallIs
  <2>2. CASE call[c].at = "idle"
    BY <2>2, CallIs DEF CallIsSound
  <2>3. QED
    BY <2>1, <2>2
<1>3. AssetsAreWhole'
  <2>1. \A o \in content.assets : files'[o] = files[o]
    BY DEF FilesInv, FilesTypeOK
  <2>2. QED
    BY <2>1 DEF FilesInv, AssetsAreWhole
<1>4. FilesAreOwned'
  BY DEF FilesInv, FilesAreOwned
<1>5. OneImportEach' /\ known' = content'.assets /\ SaveIsSound' /\ ListersAreCurrent' /\ SummaryIsCurrent'
  BY DEF FilesInv, OneImportEach, SaveIsSound, ListersAreCurrent, SummaryIsCurrent
<1>6. QED
  BY <1>1, <1>2, <1>3, <1>4, <1>5 DEF FilesInv

LEMMA NoSweepIs == NoSweep \in SweepRecord /\ NoSweep.at = "none"
<1> DEFINE none == {}
<1>1. NoSweep = [at |-> "none", exp |-> 0, found |-> none, safe |-> none]
  BY DEF NoSweep
<1>2. none \in SUBSET Import
  OBVIOUS
<1> HIDE DEF none
<1>3. QED
  BY <1>1, <1>2, FilesBounds DEF SweepRecord

LEMMA SweepBeginsKeeps ==
  ASSUME Careful, FilesInv, SweepBegins
  PROVE  FilesInv'
<1> DEFINE v == content.rev
           a == content.assets
           s == [NoSweep EXCEPT !.at = "listing", !.exp = v, !.safe = a]
<1>1. v \in 0 .. MaxSaves /\ a \in SUBSET Import /\ a = content.assets
  BY DEF FilesInv, FilesTypeOK
<1>2. sweep' = s /\ \A c \in Caller : call[c].at = "idle"
  BY DEF SweepBegins, Careful
<1>3. /\ UNCHANGED <<content, known, summary, saving, staged, call, seen, deaths, spilled>>
      /\ files' = files /\ files \in [Import -> [PathNames -> Kept]]
  BY DEF SweepBegins, projectVars, FilesInv, FilesTypeOK, PathNames, Kept
<1> HIDE DEF v, a
<1>4. s \in SweepRecord /\ s.at = "listing" /\ s.safe = a
  BY <1>1, NoSweepIs DEF SweepRecord
<1> HIDE DEF s
<1>5. SweepIsAlone'
  BY <1>1, <1>2, <1>3, <1>4 DEF SweepIsAlone
<1>6. QED
  BY <1>2, <1>3, <1>4, <1>5, SweepMoves

LEMMA SweepListsKeeps ==
  ASSUME FilesInv, SweepLists
  PROVE  FilesInv'
<1>1. /\ UNCHANGED <<content, known, summary, saving, staged, call, seen, deaths, spilled>>
      /\ files' = files /\ files \in [Import -> [PathNames -> Kept]]
  BY DEF SweepLists, projectVars, FilesInv, FilesTypeOK, PathNames, Kept
<1>2. /\ sweep \in SweepRecord /\ sweep.at = "listing" /\ content.assets \subseteq sweep.safe
      /\ \A c \in Caller : call[c].at = "idle"
  BY SaveTyped DEF SweepLists, FilesInv, SweepIsAlone
<1>3. CASE sweep' = NoSweep
  BY <1>1, <1>3, NoSweepIs, SweepMoves DEF SweepIsAlone
<1>4. CASE sweep' # NoSweep
  <2> DEFINE f == {o \in Import \ sweep.safe : \E p \in Paths(o) : files[o][p] # "absent"}
             s == [sweep EXCEPT !.at = "checking", !.found = f]
  <2>1. sweep' = s
    BY <1>4 DEF SweepLists
  <2>2. f \in SUBSET Import /\ f \intersect content.assets = {}
    BY <1>2
  <2> HIDE DEF f
  <2>3. s \in SweepRecord /\ s.at = "checking" /\ s.found = f
    BY <1>2, <2>2 DEF SweepRecord
  <2> HIDE DEF s
  <2>4. SweepIsAlone'
    BY <1>1, <1>2, <2>1, <2>2, <2>3 DEF SweepIsAlone
  <2>5. QED
    BY <1>1, <2>1, <2>3, <2>4, SweepMoves
<1>5. QED
  BY <1>3, <1>4

LEMMA SweepChecksKeeps ==
  ASSUME FilesInv, SweepChecks
  PROVE  FilesInv'
<1>1. /\ UNCHANGED <<content, known, summary, saving, staged, call, seen, deaths, spilled>>
      /\ files' = files /\ files \in [Import -> [PathNames -> Kept]]
  BY DEF SweepChecks, projectVars, FilesInv, FilesTypeOK, PathNames, Kept
<1>2. /\ sweep \in SweepRecord /\ sweep.at = "checking" /\ sweep.found \intersect content.assets = {}
      /\ \A c \in Caller : call[c].at = "idle"
  BY SaveTyped DEF SweepChecks, FilesInv, SweepIsAlone
<1>3. CASE sweep' = NoSweep
  BY <1>1, <1>3, NoSweepIs, SweepMoves DEF SweepIsAlone
<1>4. CASE sweep' # NoSweep
  <2> DEFINE a == content.assets
             s == [sweep EXCEPT !.at = "removing", !.safe = a]
  <2>1. sweep' = s
    BY <1>4 DEF SweepChecks
  <2>2. a \in SUBSET Import
    BY DEF FilesInv, FilesTypeOK
  <2> HIDE DEF a
  <2>3. s \in SweepRecord /\ s.at = "removing" /\ s.found = sweep.found
    BY <1>2, <2>2 DEF SweepRecord
  <2> HIDE DEF s
  <2>4. SweepIsAlone'
    BY <1>1, <1>2, <2>1, <2>3 DEF SweepIsAlone
  <2>5. QED
    BY <1>1, <2>1, <2>3, <2>4, SweepMoves
<1>5. QED
  BY <1>3, <1>4

LEMMA SweepRemovesKeeps ==
  ASSUME FilesInv, SweepRemoves
  PROVE  FilesInv'
<1> DEFINE gone == [p \in PathNames |-> "absent"]
<1>1. /\ UNCHANGED <<content, known, summary, saving, staged, call, seen, deaths, spilled>>
      /\ sweep' = NoSweep /\ files \in [Import -> [PathNames -> Kept]]
  BY DEF SweepRemoves, FilesInv, FilesTypeOK, PathNames, Kept
<1>2. gone \in [PathNames -> Kept] /\ \A p \in PathNames : gone[p] = "absent"
  BY DEF Kept
<1>3. files' = [o \in Import |-> IF o \in sweep.found \ sweep.safe THEN gone ELSE files[o]]
  BY DEF SweepRemoves, PathNames
<1> HIDE DEF gone
<1>4. sweep.found \intersect content.assets = {} /\ \A c \in Caller : call[c].at = "idle"
  BY DEF SweepRemoves, FilesInv, SweepIsAlone
<1>5. files' \in [Import -> [PathNames -> Kept]]
  BY <1>1, <1>2, <1>3
<1>6. \A o \in Import : files'[o] = files[o] \/ (o \notin content.assets /\ \A p \in PathNames : files'[o][p] = "absent")
  BY <1>2, <1>3, <1>4
<1>7. SweepIsAlone'
  BY <1>1, NoSweepIs DEF SweepIsAlone
<1>8. QED
  BY <1>1, <1>4, <1>5, <1>6, <1>7, NoSweepIs, SweepMoves

LEMMA ServerDiesKeeps ==
  ASSUME FilesInv, ServerDies
  PROVE  FilesInv'
<1>1. /\ saving' = NoSave /\ sweep' = NoSweep
      /\ call' = [c \in Caller |-> NoCall] /\ staged' = [c \in Caller |-> "absent"]
      /\ seen' = [l \in Lister |-> NoSummary]
      /\ UNCHANGED <<content, known, files, summary>>
  BY DEF ServerDies
<1>2. /\ call' \in [Caller -> CallRecord] /\ staged' \in [Caller -> Kept]
      /\ \A c \in Caller : call'[c].at = "idle" /\ staged'[c] = "absent"
  BY <1>1, NoCallIs DEF Kept
<1>3. spilled' \subseteq Import /\ spilled \subseteq spilled' /\ \A c \in Caller : call[c].at \in Holding => call[c].op \in spilled'
  <2>1. \A c \in Caller : HasEntered(c) => call[c].op \in Import
    BY CallIs DEF HasEntered, CallIsSound
  <2>2. \A c \in Caller : call[c].at \in Holding => HasEntered(c)
    BY DEF Holding, HasEntered
  <2>3. spilled \subseteq Import
    BY DEF FilesInv, FilesTypeOK
  <2>4. QED
    BY <2>1, <2>2, <2>3 DEF ServerDies
<1>4. FilesTypeOK'
  <2>1. deaths' \in 0 .. MaxDeaths
    BY FilesBounds DEF ServerDies, FilesInv, FilesTypeOK
  <2>2. seen' \in [Lister -> [state : {"absent", "present"}, rev : 0 .. MaxSaves]]
    BY <1>1, NoSummaryIs
  <2>3. saving' \in SaveRecord /\ sweep' \in SweepRecord
    BY <1>1, NoSaveIs, NoSweepIs
  <2>4. QED
    BY <1>1, <1>2, <1>3, <2>1, <2>2, <2>3
       DEF FilesInv, FilesTypeOK, CallRecord, CallPlaces, PathNames, Kept, SaveRecord, SweepRecord
<1>5. CallsAreSound' /\ OneImportEach'
  BY <1>2 DEF CallsAreSound, CallIsSound, OneImportEach, Holding
<1>6. known' = content'.assets /\ AssetsAreWhole' /\ SummaryIsCurrent'
  BY <1>1 DEF FilesInv, AssetsAreWhole, SummaryIsCurrent
<1>7. SaveIsSound' /\ SweepIsAlone' /\ ListersAreCurrent'
  BY <1>1, <1>2, NoSaveIs, NoSweepIs DEF SaveIsSound, SweepIsAlone, ListersAreCurrent
<1>8. FilesAreOwned'
  BY <1>1, <1>3 DEF FilesInv, FilesAreOwned
<1>9. QED
  BY <1>4, <1>5, <1>6, <1>7, <1>8 DEF FilesInv

LEMMA FilesInitSound == FilesInit => FilesInv
<1> SUFFICES ASSUME FilesInit PROVE FilesInv
  OBVIOUS
<1> DEFINE none == {}
           gone == [p \in PathNames |-> "absent"]
<1>1. /\ content.rev = 0 /\ content = [rev |-> 0, assets |-> none] /\ known = none /\ none = {} /\ none \in SUBSET Import
      /\ content.assets = none /\ spilled = none
      /\ deaths = 0 /\ saving = NoSave /\ sweep = NoSweep /\ summary = Naming(0)
  BY DEF FilesInit
<1>2. /\ call \in [Caller -> CallRecord] /\ staged \in [Caller -> Kept] /\ seen = [l \in Lister |-> NoSummary]
      /\ \A c \in Caller : call[c].at = "idle" /\ staged[c] = "absent"
  BY NoCallIs DEF FilesInit, Kept
<1>3. gone \in [PathNames -> Kept] /\ \A p \in PathNames : gone[p] = "absent"
  BY DEF Kept
<1>4. files = [o \in Import |-> gone]
  BY DEF FilesInit, PathNames
<1> HIDE DEF gone, none
<1>5. FilesTypeOK
  <2>1. Naming(0) \in [state : {"absent", "present"}, rev : 0 .. MaxSaves] /\ 0 \in 0 .. MaxSaves /\ 0 \in 0 .. MaxDeaths
    BY FilesBounds DEF Naming
  <2>2. saving \in SaveRecord /\ sweep \in SweepRecord
    BY <1>1, NoSaveIs, NoSweepIs
  <2>3. files \in [Import -> [PathNames -> Kept]]
    BY <1>3, <1>4
  <2>4. content \in [rev : 0 .. MaxSaves, assets : SUBSET Import]
    BY <1>1, <2>1
  <2>5. QED
    BY <1>1, <1>2, <2>1, <2>2, <2>3, <2>4, NoSummaryIs
       DEF FilesTypeOK, CallRecord, CallPlaces, PathNames, Kept, SaveRecord, SweepRecord
<1>6. CallsAreSound /\ OneImportEach
  BY <1>2 DEF CallsAreSound, CallIsSound, OneImportEach, Holding
<1>7. known = content.assets /\ AssetsAreWhole
  BY <1>1 DEF AssetsAreWhole
<1>8. SaveIsSound /\ SweepIsAlone /\ ListersAreCurrent
  BY <1>1, <1>2, NoSaveIs, NoSweepIs DEF SaveIsSound, SweepIsAlone, ListersAreCurrent
<1>9. SummaryIsCurrent
  BY <1>1 DEF SummaryIsCurrent, Naming
<1>10. FilesAreOwned
  BY <1>3, <1>4 DEF FilesAreOwned
<1>11. QED
  BY <1>5, <1>6, <1>7, <1>8, <1>9, <1>10 DEF FilesInv

LEMMA FilesStutter == FilesInv /\ UNCHANGED filesVars => FilesInv'
<1> SUFFICES ASSUME FilesInv, UNCHANGED filesVars PROVE FilesInv'
  OBVIOUS
<1>1. UNCHANGED <<content, known, files, summary, saving, staged, call, seen, sweep, deaths, spilled>>
  BY DEF filesVars, projectVars
<1>2. FilesTypeOK' /\ CallsAreSound' /\ OneImportEach' /\ known' = content'.assets /\ SaveIsSound'
  BY <1>1 DEF FilesInv, FilesTypeOK, CallsAreSound, OneImportEach, SaveIsSound
<1>3. SweepIsAlone' /\ ListersAreCurrent' /\ SummaryIsCurrent' /\ AssetsAreWhole' /\ FilesAreOwned'
  BY <1>1 DEF FilesInv, SweepIsAlone, ListersAreCurrent, SummaryIsCurrent, AssetsAreWhole, FilesAreOwned
<1>4. QED
  BY <1>2, <1>3 DEF FilesInv

LEMMA FilesNextKeeps ==
  ASSUME Careful
  PROVE  FilesInv /\ [FilesNext]_filesVars => FilesInv'
<1> SUFFICES ASSUME FilesInv, [FilesNext]_filesVars PROVE FilesInv'
  OBVIOUS
<1>1. CASE Replace \/ SaveRefused \/ EndSave \/ EditProject
  BY <1>1, ReplaceKeeps, SavesKeep, EditProjectKeeps
<1>2. ASSUME NEW c \in Caller,
             \/ Upload(c) \/ UploadEnds(c) \/ EnterImport(c) \/ Place(c) \/ Encode(c) \/ Encoded(c)
             \/ Probe(c) \/ Mutate(c) \/ Recall(c) \/ Purge(c) \/ LeaveImport(c)
      PROVE  FilesInv'
  BY <1>2, UploadKeeps, UploadEndsKeeps, EnterImportKeeps, PlaceKeeps, EncodeKeeps, EncodedKeeps, ProbeKeeps,
     MutateKeeps, RecallKeeps, PurgeKeeps, LeaveImportKeeps
<1>3. ASSUME NEW l \in Lister, ListProjects(l) \/ Cache(l) PROVE FilesInv'
  BY <1>3, ListsKeep
<1>4. CASE SweepBegins \/ SweepLists \/ SweepChecks \/ SweepRemoves
  BY <1>4, SweepBeginsKeeps, SweepListsKeeps, SweepChecksKeeps, SweepRemovesKeeps
<1>5. CASE ServerDies
  BY <1>5, ServerDiesKeeps
<1>6. CASE UNCHANGED filesVars
  BY <1>6, FilesStutter
<1>7. QED
  BY <1>1, <1>2, <1>3, <1>4, <1>5, <1>6 DEF FilesNext

(* Where users and servers take the care the code leaves to them, the files of a *)
(* Project are those its assets and its summary say: every asset has its files    *)
(* whole, no failed, repeated or late import leaves one behind, and the summary   *)
(* names the Project's revision, through the deaths of the server, any number of  *)
(* imports, uploads and lists at a time, and the removal of orphans.              *)
THEOREM FilesStayTrue == ASSUME Careful PROVE FilesSpec => []FilesAreTrue
<1>1. FilesInv => FilesAreTrue
  <2> SUFFICES ASSUME FilesInv PROVE FilesAreTrue
    OBVIOUS
  <2>1. \A c \in Caller : call[c].at = "idle" => staged[c] = "absent"
    BY DEF FilesInv, CallsAreSound, CallIsSound
  <2>2. (\A c \in Caller : call[c].at = "idle") =>
          \A op \in Import \ (content.assets \cup spilled) : \A p \in PathNames : files[op][p] = "absent"
    BY DEF FilesInv, FilesAreOwned, Holding
  <2>3. QED
    BY <2>1, <2>2 DEF FilesInv, FilesAreTrue, NothingLeftBehind, PathNames
<1>2. FilesSpec => []FilesInv
  BY FilesInitSound, FilesNextKeeps, PTL DEF FilesSpec
<1>3. QED
  BY <1>1, <1>2, PTL

(* The types of the files' state.                                                *)
THEOREM FilesTypeCorrect == ASSUME Careful PROVE FilesSpec => []FilesTypeOK
<1>1. FilesSpec => []FilesInv
  BY FilesInitSound, FilesNextKeeps, PTL DEF FilesSpec
<1>2. FilesInv => FilesTypeOK
  BY DEF FilesInv
<1>3. QED
  BY <1>1, <1>2, PTL

-------------------------------------------------------------------------------
(* The windows of the editor (module EditorSession).                              *)
IsDocument(d) ==
  /\ d = [revision |-> d.revision, base |-> d.base, cut |-> d.cut, length |-> d.length, clips |-> d.clips]
  /\ d.revision \in Nat

OtherWay(k) == IF k = "undo" THEN "redo" ELSE "undo"
StackOf(k, w) == IF k = "undo" THEN undo[w] ELSE redo[w]
Side(k, entry) == IF k = "undo" THEN entry.after ELSE entry.before

(* A revision that an accepted edit has made and that no window has recorded yet.  *)
Claimed(n) == \E d \in calls : d.kind \in Records /\ d.state = "answered" /\ \E x \in d.got : x.revision = n

EntryKnown(entry) ==
  /\ entry = [before |-> entry.before, after |-> entry.after, expected |-> entry.expected]
  /\ IsDocument(entry.before) /\ IsDocument(entry.after) /\ entry.expected \in Nat
  /\ entry.after.revision = entry.before.revision + 1
  /\ entry.after.revision <= project.revision
  /\ ~Claimed(entry.after.revision)

(* While the project has the revision n, it has what is to be taken back, or brought. *)
Timely(k, entry, n) ==
  /\ n <= project.revision
  /\ n = project.revision => Content(project) = Content(Side(k, entry))

Kinds == {"timeline", "script", "agent", "open"} \cup Restores
States == {"sent", "answered", "conflict", "reloaded", "failed"}

Got(x) ==
  /\ IsDocument(x) /\ x.revision <= project.revision
  /\ x.revision = project.revision => x = project

CallShaped(c) ==
  /\ c = [window |-> c.window, kind |-> c.kind, before |-> c.before, expects |-> c.expects,
          entry |-> c.entry, state |-> c.state, got |-> c.got]
  /\ c.window \in Window /\ c.kind \in Kinds /\ c.expects \in Nat /\ c.state \in States
  /\ \A x \in c.before : IsDocument(x) /\ (c.kind \in Records => x.revision = c.expects)
  /\ \A x, y \in c.entry : x = y /\ c.kind \in Restores

CallSound(c) ==
  /\ CallShaped(c)
  /\ \A x \in c.got : Got(x)
  /\ c.kind \in Records /\ c.state = "answered" => \A x \in c.got : x.revision = c.expects + 1
  /\ c.kind \in Restores => \A entry \in c.entry : EntryKnown(entry) /\ Timely(c.kind, entry, c.expects)

(* The entry a restore under way has moved, which expects the revision that the      *)
(* restore is to make: it is the last of its edit, which is how a rollback finds it. *)
Exempt(k, w, i) ==
  \E c \in calls :
    /\ c.window = w /\ c.kind = OtherWay(k) /\ c.state # "answered"
    /\ \E entry \in c.entry :
         /\ SameEdit(StackOf(k, w)[i], entry) /\ StackOf(k, w)[i].expected = c.expects + 1
         /\ \A j \in 1..Len(StackOf(k, w)) : i < j => ~SameEdit(StackOf(k, w)[j], entry)

EntrySound(k, w, i) ==
  /\ EntryKnown(StackOf(k, w)[i])
  /\ Timely(k, StackOf(k, w)[i], StackOf(k, w)[i].expected) \/ Exempt(k, w, i)

EditorTyped ==
  /\ IsDocument(project)
  /\ shown = [w \in Window |-> shown[w]] /\ \A w \in Window : IsDocument(shown[w])
  /\ undo = [w \in Window |-> undo[w]] /\ redo = [w \in Window |-> redo[w]]
  /\ \A w \in Window : \A k \in Restores : StackOf(k, w) \in Seq(ToSet(StackOf(k, w)))

RestoresAreOne == \A c, d \in calls : {c.kind, d.kind} \subseteq Restores /\ c.window = d.window => c = d

ClaimsApart ==
  \A c, d \in calls :
    /\ {c.kind, d.kind} \subseteq Records /\ c.state = "answered" /\ d.state = "answered"
    /\ \E x \in c.got : \E y \in d.got : x.revision = y.revision
    => c = d

StacksSound == \A w \in Window : \A k \in Restores : \A i \in 1..Len(StackOf(k, w)) : EntrySound(k, w, i)

EditorInv ==
  /\ EditorTyped /\ (\A c \in calls : CallSound(c)) /\ RestoresAreOne /\ ClaimsApart /\ StacksSound

(* The stacks of every window but one are as they were.                            *)
OthersStay(w) ==
  /\ undo' = [v \in Window |-> undo'[v]] /\ redo' = [v \in Window |-> redo'[v]]
  /\ \A v \in Window : \A k \in Restores : v # w => StackOf(k, v)' = StackOf(k, v)

LEMMA RestoresAre == "undo" \in Restores /\ "redo" \in Restores /\ \A k \in Restores : k = "undo" \/ k = "redo"
BY DEF Restores

LEMMA WaysAre ==
  ASSUME NEW k \in Restores
  PROVE  OtherWay(k) \in Restores /\ OtherWay(k) # k /\ OtherWay(OtherWay(k)) = k /\ \A j \in Restores : j = k \/ j = OtherWay(k)
BY DEF Restores, OtherWay

(* Sequences that are pruned, extended, and lose an element.                        *)
LEMMA ElementsAre ==
  ASSUME NEW S, NEW s \in Seq(S)
  PROVE  /\ s \in Seq(ToSet(s)) /\ Len(s) \in Nat /\ ToSet(s) = {s[i] : i \in 1..Len(s)} /\ ToSet(s) \subseteq S
<1>1. Len(s) \in Nat /\ DOMAIN s = 1..Len(s) /\ \A i \in 1..Len(s) : s[i] \in S
  OBVIOUS
<1>2. ToSet(s) = {s[i] : i \in 1..Len(s)}
  BY <1>1 DEF ToSet
<1>3. s = [i \in 1..Len(s) |-> s[i]]
  OBVIOUS
<1>4. s \in Seq(ToSet(s))
  BY <1>1, <1>2, <1>3
<1>5. QED
  BY <1>1, <1>2, <1>4

LEMMA PruneIs ==
  ASSUME NEW S, NEW s \in Seq(S)
  PROVE  \E off \in Nat : /\ Prune(s) \in Seq(S) /\ Len(Prune(s)) = Len(s) - off /\ off <= Len(s)
                          /\ s # << >> => off < Len(s)
                          /\ \A i \in 1..Len(Prune(s)) : Prune(s)[i] = s[i + off] /\ i + off \in 1..Len(s)
<1>1. MAX_HISTORY \in Nat /\ MAX_HISTORY # 0
  BY WindowAssumption
<1>2. PICK off : off = IF Len(s) > MAX_HISTORY THEN Len(s) - MAX_HISTORY ELSE 0
  OBVIOUS
<1>3. Len(s) \in Nat /\ off \in Nat /\ off <= Len(s) /\ (s # << >> => off < Len(s))
  BY <1>1, <1>2
<1>4. Prune(s) = SubSeq(s, off + 1, Len(s))
  BY <1>1, <1>2, <1>3 DEF Prune
<1>5. \A i \in off + 1 .. Len(s) : s[i] \in S
  BY <1>3
<1>6. SubSeq(s, off + 1, Len(s)) \in Seq(S) /\ Len(SubSeq(s, off + 1, Len(s))) = Len(s) - off
  BY <1>3, <1>5
<1>7. \A i \in 1..(Len(s) - off) : SubSeq(s, off + 1, Len(s))[i] = s[i + off] /\ i + off \in 1..Len(s)
  BY <1>3
<1>8. QED
  BY <1>3, <1>4, <1>6, <1>7

LEMMA FrontIs ==
  ASSUME NEW S, NEW s \in Seq(S), s # << >>
  PROVE  /\ Front(s) \in Seq(S) /\ Len(Front(s)) = Len(s) - 1 /\ Len(s) \in Nat \ {0}
         /\ \A i \in 1..Len(Front(s)) : Front(s)[i] = s[i] /\ i \in 1..Len(s)
         /\ Last(s) = s[Len(s)] /\ Last(s) \in S
<1>1. Len(s) \in Nat /\ Len(s) # 0 /\ \A i \in 1..Len(s) : s[i] \in S
  OBVIOUS
<1>2. PICK n : n = Len(s) - 1
  OBVIOUS
<1>3. n \in Int /\ 1 \in Int /\ n \in Nat /\ \A i \in 1..n : s[i] \in S /\ i \in 1..Len(s)
  BY <1>1, <1>2
<1>4. PICK t : t = SubSeq(s, 1, n)
  OBVIOUS
<1>5. t \in Seq(S) /\ Len(t) = (IF 1 <= n THEN n - 1 + 1 ELSE 0) /\ \A i \in 1..n - 1 + 1 : t[i] = s[1 + i - 1]
  BY <1>3, <1>4, SubSeqProperties
<1>6. Len(t) = n /\ \A i \in 1..n : t[i] = s[i]
  BY <1>3, <1>5
<1>7. Front(s) = t
  BY <1>2, <1>4 DEF Front
<1>8. QED
  BY <1>1, <1>2, <1>3, <1>5, <1>6, <1>7 DEF Last

LEMMA RemovalIs ==
  ASSUME NEW S, NEW s \in Seq(S), NEW n \in 1..Len(s), NEW r, r = RemoveAt(s, n)
  PROVE  r \in Seq(S) /\ Len(r) = Len(s) - 1 /\ \A i \in 1..Len(r) : \E j \in 1..Len(s) : j # n /\ r[i] = s[j]
<1>1. Len(s) \in Nat /\ n \in Nat /\ 1 <= n /\ n <= Len(s)
  OBVIOUS
<1>2. PICK a : a = SubSeq(s, 1, n - 1)
  OBVIOUS
<1>3. PICK b : b = SubSeq(s, n + 1, Len(s))
  OBVIOUS
<1>4. a \in Seq(S) /\ Len(a) = n - 1 /\ \A i \in 1..(n - 1) : a[i] = s[i]
  BY <1>1, <1>2
<1>5. b \in Seq(S) /\ Len(b) = Len(s) - n /\ \A i \in 1..(Len(s) - n) : b[i] = s[i + n]
  BY <1>1, <1>3
<1>6. RemoveAt(s, n) = a \o b
  BY <1>2, <1>3 DEF RemoveAt
<1>7. a \o b \in Seq(S) /\ Len(a \o b) = Len(s) - 1
  <2>1. a \o b \in Seq(S)
    BY <1>4, <1>5, ConcatProperties
  <2>2. Len(a \o b) = Len(a) + Len(b)
    BY <1>4, <1>5, ConcatProperties
  <2>3. QED
    BY <1>1, <1>4, <1>5, <2>1, <2>2
<1>8. ASSUME NEW i \in 1..(Len(s) - 1) PROVE \E j \in 1..Len(s) : j # n /\ (a \o b)[i] = s[j]
  <2>1. CASE i < n
    <3>1. (a \o b)[i] = a[i] /\ i \in 1..Len(s) /\ i # n
      BY <1>1, <1>4, <1>5, <2>1
    <3>2. QED
      BY <1>1, <1>4, <2>1, <3>1
  <2>2. CASE ~(i < n)
    <3>1. (a \o b)[i] = b[i - (n - 1)]
      BY <1>1, <1>4, <1>5, <2>2
    <3>2. i - (n - 1) \in 1..(Len(s) - n) /\ i - (n - 1) + n = i + 1
      BY <1>1, <2>2
    <3>3. b[i - (n - 1)] = s[i + 1] /\ i + 1 \in 1..Len(s) /\ i + 1 # n
      BY <1>1, <1>5, <2>2, <3>2
    <3>4. QED
      BY <3>1, <3>3
  <2>3. QED
    BY <2>1, <2>2
<1>9. QED
  BY <1>6, <1>7, <1>8

LEMMA AppendIs ==
  ASSUME NEW S, NEW s \in Seq(S), NEW e
  PROVE  /\ Append(s, e) \in Seq(S \cup {e}) /\ Len(Append(s, e)) = Len(s) + 1 /\ Len(s) \in Nat
         /\ Append(s, e)[Len(s) + 1] = e /\ \A i \in 1..Len(s) : Append(s, e)[i] = s[i]
<1>1. s \in Seq(S \cup {e}) /\ e \in S \cup {e}
  OBVIOUS
<1>2. QED
  BY <1>1

(* One that is put on top of a stack, which then is pruned.                         *)
LEMMA ToppedIs ==
  ASSUME NEW S, NEW s \in Seq(S), NEW e, NEW t, t = Prune(Append(s, e))
  PROVE  /\ t \in Seq(ToSet(t)) /\ Len(t) \in Nat \ {0} /\ t[Len(t)] = e
         /\ \E off \in Nat : /\ Len(t) = Len(s) + 1 - off
                             /\ \A i \in 1..Len(t) : i # Len(t) => i + off \in 1..Len(s) /\ t[i] = s[i + off]
<1>1. PICK a : a = Append(s, e)
  OBVIOUS
<1>2. /\ a \in Seq(S \cup {e}) /\ Len(a) = Len(s) + 1 /\ Len(s) \in Nat
      /\ a[Len(s) + 1] = e /\ \A i \in 1..Len(s) : a[i] = s[i]
  BY <1>1, AppendIs
<1>3. PICK off \in Nat : /\ t \in Seq(S \cup {e}) /\ Len(t) = Len(a) - off /\ off <= Len(a)
                         /\ a # << >> => off < Len(a)
                         /\ \A i \in 1..Len(t) : t[i] = a[i + off] /\ i + off \in 1..Len(a)
  BY <1>1, <1>2, PruneIs
<1>4. a # << >>
  BY <1>2
<1>5. Len(t) \in Nat \ {0}
  BY <1>2, <1>3, <1>4
<1>6. t[Len(t)] = e
  BY <1>2, <1>3, <1>5
<1>7. ASSUME NEW i \in 1..Len(t), i # Len(t) PROVE i + off \in 1..Len(s) /\ t[i] = s[i + off]
  BY <1>2, <1>3, <1>5, <1>7
<1>8. t \in Seq(ToSet(t))
  BY <1>3, ElementsAre
<1>9. Len(t) = Len(s) + 1 - off
  BY <1>2, <1>3
<1>10. QED
  BY <1>5, <1>6, <1>7, <1>8, <1>9

(* What the commands of the timeline and the script make of a document.             *)
LEMMA ExceptIsDocument ==
  ASSUME NEW d, IsDocument(d), NEW n \in Nat, NEW ranges, NEW cut, NEW length, NEW clips
  PROVE  /\ IsDocument([d EXCEPT !.clips = clips])
         /\ IsDocument([d EXCEPT !.base = ranges, !.cut = cut, !.clips = clips, !.length = length])
         /\ IsDocument([d EXCEPT !.revision = n]) /\ [d EXCEPT !.revision = n].revision = n
         /\ Content([d EXCEPT !.revision = n]) = Content(d)
<1>1. PICK r, b, c, l, k : d = [revision |-> r, base |-> b, cut |-> c, length |-> l, clips |-> k] /\ r \in Nat
  BY DEF IsDocument
<1>2. [d EXCEPT !.clips = clips] = [revision |-> r, base |-> b, cut |-> c, length |-> l, clips |-> clips]
  BY <1>1
<1>3. [d EXCEPT !.base = ranges, !.cut = cut, !.clips = clips, !.length = length]
        = [revision |-> r, base |-> ranges, cut |-> cut, length |-> length, clips |-> clips]
  <2>1. PICK q : q = [d EXCEPT !.base = ranges, !.cut = cut, !.clips = clips, !.length = length]
    OBVIOUS
  <2>2. DOMAIN q = DOMAIN d /\ DOMAIN d = {"revision", "base", "cut", "length", "clips"}
    BY <1>1, <2>1
  <2>3. q = [x \in {"revision", "base", "cut", "length", "clips"} |-> q[x]]
    BY <2>1, <2>2
  <2>4. q["revision"] = r /\ q["base"] = ranges /\ q["cut"] = cut /\ q["length"] = length /\ q["clips"] = clips
    BY <1>1, <2>1, <2>2
  <2>5. QED
    BY <2>1, <2>3, <2>4
<1>4. [d EXCEPT !.revision = n] = [revision |-> n, base |-> b, cut |-> c, length |-> l, clips |-> k]
  BY <1>1
<1>5. Content([d EXCEPT !.revision = n]) = Content(d)
  BY <1>1, <1>4 DEF Content
<1>6. QED
  BY <1>1, <1>2, <1>3, <1>4, <1>5 DEF IsDocument

LEMMA EditsAreDocuments == ASSUME NEW d, IsDocument(d), NEW x \in TimelineEdits(d) PROVE IsDocument(x)
<1>1. PICK c \in d.clips :
        \/ \E f \in c.start + 1 .. End(c) - 1 : x = Split(d, c, f)
        \/ x = WithoutClip(d, c)
        \/ \E start, len : x = Timed(d, c, start, len)
  BY DEF TimelineEdits
<1>2. PICK clips : x = [d EXCEPT !.clips = clips]
  BY <1>1 DEF Split, WithoutClip, Timed
<1>3. QED
  BY <1>2, ExceptIsDocument

LEMMA ChangesAreDocuments ==
  ASSUME NEW d, IsDocument(d), NEW c, c.kind \in Kinds, c.kind # "open",
         c.kind \in Restores => \A entry \in c.entry : IsDocument(entry.before) /\ IsDocument(entry.after),
         NEW x \in Changes(c, d)
  PROVE  /\ IsDocument(x)
         /\ c.kind \in Restores => \E entry \in c.entry : x = Side(OtherWay(c.kind), entry)
<1>1. CASE c.kind \in Records
  <2>1. Changes(c, d) = TimelineEdits(d)
    BY <1>1 DEF Changes, Records
  <2>2. c.kind \notin Restores
    BY <1>1 DEF Records, Restores
  <2>3. QED
    BY <2>1, <2>2, EditsAreDocuments
<1>2. CASE c.kind = "script"
  <2>1. Changes(c, d) = {WithStatus(d, s, s \notin d.cut) : s \in {t \in Segment : StatusAllowed(d, t, t \notin d.cut)}}
    BY <1>2 DEF Changes, Records
  <2>2. PICK s : x = WithStatus(d, s, s \notin d.cut)
    BY <2>1
  <2>3. PICK ranges, cut, clips, length : x = [d EXCEPT !.base = ranges, !.cut = cut, !.clips = clips, !.length = length]
    BY <2>2 DEF WithStatus
  <2>4. c.kind \notin Restores
    BY <1>2 DEF Restores
  <2>5. QED
    BY <2>3, <2>4, ExceptIsDocument
<1>3. CASE c.kind = "undo"
  <2>1. Changes(c, d) = {entry.before : entry \in c.entry}
    BY <1>3 DEF Changes, Records
  <2>2. OtherWay(c.kind) = "redo" /\ c.kind \in Restores
    BY <1>3 DEF OtherWay, Restores
  <2>3. QED
    BY <2>1, <2>2 DEF Side
<1>4. CASE c.kind = "redo"
  <2>1. Changes(c, d) = {entry.after : entry \in c.entry}
    BY <1>4 DEF Changes, Records
  <2>2. OtherWay(c.kind) = "undo" /\ c.kind \in Restores
    BY <1>4 DEF OtherWay, Restores
  <2>3. QED
    BY <2>1, <2>2 DEF Side
<1>5. QED
  BY <1>1, <1>2, <1>3, <1>4 DEF Kinds, Records, Restores

(* A restore is of one stack only: the entries of the other are all timely.         *)
LEMMA OneWayIsTimely ==
  ASSUME EditorInv, NEW w \in Window, NEW k \in Restores,
         ~ \E c \in calls : c.window = w /\ c.kind = OtherWay(k) /\ c.state # "answered",
         NEW i \in 1..Len(StackOf(k, w))
  PROVE  EntryKnown(StackOf(k, w)[i]) /\ Timely(k, StackOf(k, w)[i], StackOf(k, w)[i].expected)
BY DEF EditorInv, StacksSound, EntrySound, Exempt

(* Steps that leave the project and the stacks as they are, and claim nothing.      *)
LEMMA StillKnown ==
  ASSUME UNCHANGED project, \A n \in Nat : Claimed(n)' => Claimed(n), NEW entry, EntryKnown(entry)
  PROVE  EntryKnown(entry)'
<1>1. entry.after.revision \in Nat
  BY DEF EntryKnown, IsDocument
<1>2. QED
  BY <1>1 DEF EntryKnown

LEMMA StillTimely ==
  ASSUME UNCHANGED project, NEW k, NEW entry, NEW n, Timely(k, entry, n) PROVE Timely(k, entry, n)'
BY DEF Timely

LEMMA StillSound ==
  ASSUME UNCHANGED project, \A n \in Nat : Claimed(n)' => Claimed(n), NEW c, CallSound(c)
  PROVE  CallSound(c)'
<1>1. \A x \in c.got : Got(x)'
  BY DEF CallSound, Got
<1>2. c.kind \in Restores => \A entry \in c.entry : EntryKnown(entry)' /\ Timely(c.kind, entry, c.expects)'
  BY StillKnown, StillTimely DEF CallSound
<1>3. QED
  BY <1>1, <1>2 DEF CallSound

LEMMA EntryStays ==
  ASSUME UNCHANGED project, \A n \in Nat : Claimed(n)' => Claimed(n),
         NEW w \in Window, NEW k \in Restores, NEW i \in 1..Len(StackOf(k, w)), EntrySound(k, w, i),
         StackOf(k, w)' = StackOf(k, w),
         \A c \in calls : c.window = w /\ c.kind \in Restores /\ c.state # "answered" =>
           \E d \in calls' : d.window = c.window /\ d.kind = c.kind /\ d.state # "answered"
                             /\ d.expects = c.expects /\ d.entry = c.entry
  PROVE  EntrySound(k, w, i)'
<1>1. EntryKnown(StackOf(k, w)[i]) /\ (Timely(k, StackOf(k, w)[i], StackOf(k, w)[i].expected) \/ Exempt(k, w, i))
  BY DEF EntrySound
<1>2. PICK e : e = StackOf(k, w)[i]
  OBVIOUS
<1>3. EntryKnown(e)'
  BY <1>1, <1>2, StillKnown
<1>4. ASSUME Timely(k, e, e.expected) PROVE Timely(k, e, e.expected)'
  BY <1>4, StillTimely
<1>5. ASSUME Exempt(k, w, i) PROVE Exempt(k, w, i)'
  <2>1. PICK c \in calls :
          /\ c.window = w /\ c.kind = OtherWay(k) /\ c.state # "answered"
          /\ \E entry \in c.entry :
               /\ SameEdit(StackOf(k, w)[i], entry) /\ StackOf(k, w)[i].expected = c.expects + 1
               /\ \A j \in 1..Len(StackOf(k, w)) : i < j => ~SameEdit(StackOf(k, w)[j], entry)
    BY <1>5 DEF Exempt
  <2>2. c.kind \in Restores
    BY <2>1, WaysAre
  <2>3. PICK d \in calls' : d.window = c.window /\ d.kind = c.kind /\ d.state # "answered"
                            /\ d.expects = c.expects /\ d.entry = c.entry
    BY <2>1, <2>2
  <2>4. \E entry \in d.entry :
          /\ SameEdit(StackOf(k, w)[i], entry) /\ StackOf(k, w)[i].expected = d.expects + 1
          /\ \A j \in 1..Len(StackOf(k, w)) : i < j => ~SameEdit(StackOf(k, w)[j], entry)
    BY <2>1, <2>3, Zenon
  <2>5. d.window = w /\ d.kind = OtherWay(k) /\ d.state # "answered"
    BY <2>1, <2>3
  <2>6. QED
    BY <2>4, <2>5 DEF Exempt
<1>6. StackOf(k, w)'[i] = e
  BY <1>2
<1>7. QED
  BY <1>1, <1>2, <1>3, <1>4, <1>5, <1>6 DEF EntrySound

LEMMA StacksKeep ==
  ASSUME EditorInv, UNCHANGED <<project, undo, redo>>, \A n \in Nat : Claimed(n)' => Claimed(n),
         \A c \in calls : c.kind \in Restores /\ c.state # "answered" =>
           \E d \in calls' : d.window = c.window /\ d.kind = c.kind /\ d.state # "answered"
                             /\ d.expects = c.expects /\ d.entry = c.entry
  PROVE  StacksSound'
<1>1. \A w \in Window : \A k \in Restores : StackOf(k, w)' = StackOf(k, w)
  BY DEF StackOf
<1>2. ASSUME NEW w \in Window, NEW k \in Restores, NEW i \in 1..Len(StackOf(k, w)) PROVE EntrySound(k, w, i)'
  <2>1. EntrySound(k, w, i)
    BY DEF EditorInv, StacksSound
  <2>2. QED
    BY <1>1, <2>1, EntryStays
<1>3. QED
  BY <1>1, <1>2 DEF StacksSound

(* A call that restores nothing is sent.                                            *)
LEMMA SendKeeps ==
  ASSUME EditorInv, NEW c, CallShaped(c), c.kind \notin Restores, c.state = "sent", c.got = {},
         calls' = calls \cup {c}, UNCHANGED <<project, shown, undo, redo>>
  PROVE  EditorInv'
<1>1. \A n \in Nat : Claimed(n)' => Claimed(n)
  BY DEF Claimed
<1>2. EditorTyped'
  BY DEF EditorInv, EditorTyped, StackOf
<1>3. CallSound(c)'
  BY DEF CallSound
<1>4. \A d \in calls' : CallSound(d)'
  BY <1>1, <1>3, StillSound DEF EditorInv
<1>5. RestoresAreOne' /\ ClaimsApart'
  BY DEF EditorInv, RestoresAreOne, ClaimsApart
<1>6. StacksSound'
  BY <1>1, StacksKeep
<1>7. QED
  BY <1>2, <1>4, <1>5, <1>6 DEF EditorInv

(* A call comes further, but for a change that the server accepts.                  *)
LEMMA BecomesKeeps ==
  ASSUME EditorInv, NEW c \in calls, NEW state \in States, NEW got, \A x \in got : Got(x),
         c.kind \in Restores \cup Records => state # "answered",
         Becomes(c, state, got), UNCHANGED <<project, shown, undo, redo>>
  PROVE  EditorInv'
<1>1. PICK q : q = [c EXCEPT !.state = state, !.got = got]
  OBVIOUS
<1>2. CallSound(c)
  BY DEF EditorInv
<1>3. /\ CallShaped(q) /\ q.window = c.window /\ q.kind = c.kind /\ q.expects = c.expects /\ q.entry = c.entry
      /\ q.state = state /\ q.got = got
  BY <1>1, <1>2 DEF CallSound, CallShaped
<1>4. calls' = (calls \ {c}) \cup {q}
  BY <1>1 DEF Becomes
<1>5. \A n \in Nat : Claimed(n)' => Claimed(n)
  BY <1>3, <1>4 DEF Claimed
<1>6. EditorTyped'
  BY DEF EditorInv, EditorTyped, StackOf
<1>7. CallSound(q)'
  <2>1. \A x \in q.got : Got(x)'
    BY <1>3 DEF Got
  <2>2. q.kind \in Restores => \A entry \in q.entry : EntryKnown(entry)' /\ Timely(q.kind, entry, q.expects)'
    BY <1>2, <1>3, <1>5, StillKnown, StillTimely DEF CallSound
  <2>3. QED
    BY <1>3, <2>1, <2>2 DEF CallSound
<1>8. \A d \in calls' : CallSound(d)'
  BY <1>4, <1>5, <1>7, StillSound DEF EditorInv
<1>9. RestoresAreOne'
  <2>1. RestoresAreOne
    BY DEF EditorInv
  <2>2. QED
    BY <1>3, <1>4, <2>1 DEF RestoresAreOne
<1>10. ClaimsApart'
  <2>1. ClaimsApart
    BY DEF EditorInv
  <2>2. ~(q.kind \in Records /\ q.state = "answered")
    BY <1>3
  <2>3. QED
    BY <1>4, <2>1, <2>2 DEF ClaimsApart
<1>11. StacksSound'
  <2>1. ASSUME NEW a \in calls, a.kind \in Restores, a.state # "answered"
        PROVE  \E d \in calls' : d.window = a.window /\ d.kind = a.kind /\ d.state # "answered"
                                 /\ d.expects = a.expects /\ d.entry = a.entry
    <3>1. CASE a = c
      BY <1>3, <1>4, <2>1, <3>1
    <3>2. CASE a # c
      BY <1>4, <2>1, <3>2
    <3>3. QED
      BY <3>1, <3>2
  <2>2. QED
    BY <1>5, <2>1, StacksKeep
<1>12. QED
  BY <1>6, <1>8, <1>9, <1>10, <1>11 DEF EditorInv

(* A call ends that has moved no entry, or whose restore was accepted.              *)
LEMMA EndKeeps ==
  ASSUME EditorInv, NEW c \in calls, c.kind \in Restores => c.state = "answered",
         calls' = calls \ {c}, UNCHANGED <<project, undo, redo>>,
         shown' = [w \in Window |-> shown'[w]], \A w \in Window : IsDocument(shown'[w])
  PROVE  EditorInv'
<1>1. \A n \in Nat : Claimed(n)' => Claimed(n)
  BY DEF Claimed
<1>2. EditorTyped'
  BY DEF EditorInv, EditorTyped, StackOf
<1>3. \A d \in calls' : CallSound(d)'
  BY <1>1, StillSound DEF EditorInv
<1>4. RestoresAreOne' /\ ClaimsApart'
  BY DEF EditorInv, RestoresAreOne, ClaimsApart
<1>5. StacksSound'
  BY <1>1, StacksKeep
<1>6. QED
  BY <1>2, <1>3, <1>4, <1>5 DEF EditorInv

(* The server accepts a change: whatever was known is of an earlier revision.       *)
LEMMA AcceptKeeps == ASSUME EditorInv, NEW c \in calls, AcceptCall(c) PROVE EditorInv'
<1>1. /\ EditorTyped /\ CallSound(c) /\ CallShaped(c) /\ (\A d \in calls : CallSound(d))
      /\ RestoresAreOne /\ ClaimsApart /\ StacksSound
  BY DEF EditorInv, CallSound
<1>2. /\ c.state = "sent" /\ c.kind # "open" /\ c.expects = project.revision /\ c.kind \in Kinds
      /\ UNCHANGED <<shown, undo, redo>>
  BY <1>1 DEF AcceptCall, stacks, CallShaped
<1>3. IsDocument(project) /\ project.revision \in Nat
  BY <1>1 DEF EditorTyped, IsDocument
<1>4. PICK n : n = project.revision + 1
  OBVIOUS
<1>5. PICK x \in Changes(c, project) : project' = [x EXCEPT !.revision = n]
  BY <1>4 DEF AcceptCall
<1>6. c.kind \in Restores => \A entry \in c.entry : IsDocument(entry.before) /\ IsDocument(entry.after)
  BY <1>1 DEF CallSound, EntryKnown
<1>7. IsDocument(x) /\ (c.kind \in Restores => \E entry \in c.entry : x = Side(OtherWay(c.kind), entry))
  BY <1>2, <1>3, <1>6, ChangesAreDocuments
<1>8. n \in Nat /\ project.revision < n
  BY <1>3, <1>4
<1>9. IsDocument(project') /\ project'.revision = n /\ Content(project') = Content(x)
  BY <1>5, <1>7, <1>8, ExceptIsDocument
<1>10. PICK q : q = [c EXCEPT !.state = "answered", !.got = {project'}]
  OBVIOUS
<1>11. calls' = (calls \ {c}) \cup {q}
  BY <1>10 DEF AcceptCall, Becomes
<1>12. /\ CallShaped(q) /\ q.window = c.window /\ q.kind = c.kind /\ q.expects = c.expects /\ q.entry = c.entry
       /\ q.state = "answered" /\ q.got = {project'}
  BY <1>1, <1>10 DEF CallShaped, States
<1>13. \A m \in Nat : Claimed(m)' => Claimed(m) \/ m = n
  BY <1>9, <1>11, <1>12 DEF Claimed
<1>14. ASSUME NEW e, EntryKnown(e) PROVE EntryKnown(e)'
  <2>1. e.after.revision \in Nat /\ e.after.revision < n
    BY <1>3, <1>8, <1>14 DEF EntryKnown, IsDocument
  <2>2. e.after.revision <= n /\ e.after.revision # n
    BY <1>8, <2>1
  <2>3. QED
    BY <1>9, <1>13, <1>14, <2>1, <2>2 DEF EntryKnown
<1>15. ASSUME NEW k, NEW e, NEW m \in Nat, Timely(k, e, m) PROVE Timely(k, e, m)'
  <2>1. m <= project.revision
    BY <1>15 DEF Timely
  <2>2. m <= n /\ m # n
    BY <1>3, <1>8, <2>1
  <2>3. QED
    BY <1>9, <2>2 DEF Timely
<1>16. ASSUME NEW y, Got(y) PROVE Got(y)' /\ y.revision # n
  <2>1. y.revision \in Nat /\ y.revision <= project.revision
    BY <1>16 DEF Got, IsDocument
  <2>2. y.revision <= n /\ y.revision # n
    BY <1>3, <1>8, <2>1
  <2>3. QED
    BY <1>9, <1>16, <2>2 DEF Got
<1>17. ASSUME NEW d, CallShaped(d), d.kind \in Restores => \A entry \in d.entry : EntryKnown(entry) /\ Timely(d.kind, entry, d.expects)
       PROVE  d.kind \in Restores => \A entry \in d.entry : EntryKnown(entry)' /\ Timely(d.kind, entry, d.expects)'
  <2>1. d.expects \in Nat
    BY <1>17 DEF CallShaped
  <2>2. QED
    BY <1>14, <1>15, <1>17, <2>1
<1>18. ASSUME NEW d \in calls PROVE CallSound(d)'
  <2>1. CallSound(d)
    BY <1>1
  <2>2. \A y \in d.got : Got(y)'
    BY <1>16, <2>1 DEF CallSound
  <2>3. d.kind \in Restores => \A entry \in d.entry : EntryKnown(entry)' /\ Timely(d.kind, entry, d.expects)'
    BY <1>17, <2>1 DEF CallSound
  <2>4. QED
    BY <2>1, <2>2, <2>3 DEF CallSound
<1>19. CallSound(q)'
  <2>1. \A y \in q.got : Got(y)' /\ y.revision = q.expects + 1
    BY <1>2, <1>3, <1>4, <1>9, <1>12 DEF Got
  <2>2. q.kind \in Restores => \A entry \in q.entry : EntryKnown(entry)' /\ Timely(q.kind, entry, q.expects)'
    BY <1>1, <1>12, <1>17 DEF CallSound
  <2>3. QED
    BY <1>12, <2>1, <2>2 DEF CallSound
<1>20. EditorTyped'
  BY <1>1, <1>2, <1>9 DEF EditorTyped, StackOf
<1>21. RestoresAreOne'
  BY <1>1, <1>11, <1>12 DEF RestoresAreOne
<1>22. ClaimsApart'
  <2>1. \A d \in calls : \A y \in d.got : y.revision # n
    BY <1>1, <1>16 DEF CallSound
  <2>2. \A y \in q.got : y.revision = n
    BY <1>9, <1>12
  <2>3. SUFFICES ASSUME NEW a \in calls', NEW b \in calls', {a.kind, b.kind} \subseteq Records,
                        a.state = "answered", b.state = "answered",
                        NEW y \in a.got, NEW z \in b.got, y.revision = z.revision
                 PROVE  a = b
    BY DEF ClaimsApart
  <2>4. CASE a = q \/ b = q
    BY <1>11, <2>1, <2>2, <2>3, <2>4
  <2>5. CASE a \in calls /\ b \in calls
    BY <1>1, <2>3, <2>5 DEF ClaimsApart
  <2>6. QED
    BY <1>11, <2>4, <2>5
<1>23. StacksSound'
  <2>1. \A w \in Window : \A k \in Restores : StackOf(k, w)' = StackOf(k, w)
    BY <1>2 DEF StackOf
  <2>2. ASSUME NEW w \in Window, NEW k \in Restores, NEW i \in 1..Len(StackOf(k, w)) PROVE EntrySound(k, w, i)'
    <3>1. PICK e : e = StackOf(k, w)[i]
      OBVIOUS
    <3>2. EntryKnown(e) /\ (Timely(k, e, e.expected) \/ Exempt(k, w, i))
      BY <1>1, <3>1 DEF StacksSound, EntrySound
    <3>3. EntryKnown(e)' /\ e.expected \in Nat
      BY <1>14, <3>2 DEF EntryKnown
    <3>4. StackOf(k, w)'[i] = e
      BY <2>1, <3>1
    <3>5. CASE Timely(k, e, e.expected)
      BY <1>15, <3>3, <3>4, <3>5 DEF EntrySound
    <3>6. CASE Exempt(k, w, i)
      <4>1. PICK a \in calls :
              /\ a.window = w /\ a.kind = OtherWay(k) /\ a.state # "answered"
              /\ \E entry \in a.entry :
                   /\ SameEdit(StackOf(k, w)[i], entry) /\ StackOf(k, w)[i].expected = a.expects + 1
                   /\ \A j \in 1..Len(StackOf(k, w)) : i < j => ~SameEdit(StackOf(k, w)[j], entry)
        BY <3>6 DEF Exempt
      <4>2. CASE a # c
        <5>1. a \in calls'
          BY <1>11, <4>2
        <5>2. Exempt(k, w, i)'
          BY <2>1, <4>1, <5>1 DEF Exempt
        <5>3. QED
          BY <3>3, <3>4, <5>2 DEF EntrySound
      <4>3. CASE a = c
        <5>1. PICK entry \in c.entry : SameEdit(e, entry) /\ e.expected = n
          BY <1>2, <1>4, <3>1, <4>1, <4>3
        <5>2. c.kind \in Restores /\ OtherWay(c.kind) = k
          BY <4>1, <4>3, WaysAre
        <5>3. x = Side(k, entry)
          <6>1. PICK f \in c.entry : x = Side(OtherWay(c.kind), f)
            BY <1>7, <5>2
          <6>2. f = entry
            BY <1>1 DEF CallShaped
          <6>3. QED
            BY <5>2, <6>1, <6>2
        <5>4. Side(k, e) = x
          BY <5>1, <5>3 DEF SameEdit, Side
        <5>5. Timely(k, e, e.expected)'
          BY <1>8, <1>9, <5>1, <5>4 DEF Timely
        <5>6. QED
          BY <3>3, <3>4, <5>5 DEF EntrySound
      <4>4. QED
        BY <4>2, <4>3
    <3>7. QED
      BY <3>2, <3>5, <3>6
  <2>3. QED
    BY <2>1, <2>2 DEF StacksSound
<1>24. \A d \in calls' : CallSound(d)'
  BY <1>11, <1>18, <1>19
<1>25. QED
  BY <1>20, <1>21, <1>22, <1>23, <1>24 DEF EditorInv

(* What changes one window's stacks: those of the others stay sound.                *)
LEMMA StacksOfOne ==
  ASSUME EditorInv, UNCHANGED project, \A n \in Nat : Claimed(n)' => Claimed(n), NEW w \in Window,
         \A v \in Window : \A k \in Restores : v # w => StackOf(k, v)' = StackOf(k, v),
         \A c \in calls : c.window # w => c \in calls',
         \A k \in Restores : \A i \in 1..Len(StackOf(k, w)') : EntrySound(k, w, i)'
  PROVE  StacksSound'
<1>1. ASSUME NEW v \in Window, v # w, NEW k \in Restores, NEW i \in 1..Len(StackOf(k, v)) PROVE EntrySound(k, v, i)'
  <2>1. EntrySound(k, v, i) /\ StackOf(k, v)' = StackOf(k, v)
    BY <1>1 DEF EditorInv, StacksSound
  <2>2. \A c \in calls : c.window = v => c \in calls'
    BY <1>1
  <2>3. QED
    BY <2>1, <2>2, EntryStays
<1>2. ASSUME NEW v \in Window, NEW k \in Restores, NEW i \in 1..Len(StackOf(k, v)') PROVE EntrySound(k, v, i)'
  <2>1. CASE v = w
    BY <1>2, <2>1
  <2>2. CASE v # w
    <3>1. i \in 1..Len(StackOf(k, v))
      BY <1>2, <2>2
    <3>2. QED
      BY <1>1, <2>2, <3>1
  <2>3. QED
    BY <2>1, <2>2
<1>3. QED
  BY <1>2 DEF StacksSound

LEMMA TypedStill ==
  ASSUME EditorInv, UNCHANGED project, NEW w \in Window, OthersStay(w),
         \A k \in Restores : StackOf(k, w)' \in Seq(ToSet(StackOf(k, w)')),
         shown' = [v \in Window |-> shown'[v]], \A v \in Window : IsDocument(shown'[v])
  PROVE  EditorTyped'
<1>1. ASSUME NEW v \in Window, NEW k \in Restores PROVE StackOf(k, v)' \in Seq(ToSet(StackOf(k, v)'))
  <2>1. CASE v = w
    BY <1>1, <2>1
  <2>2. CASE v # w
    BY <1>1, <2>2 DEF OthersStay, EditorInv, EditorTyped
  <2>3. QED
    BY <2>1, <2>2
<1>2. QED
  BY <1>1 DEF EditorInv, EditorTyped, OthersStay

LEMMA ForgetKeeps == ASSUME EditorInv, NEW w \in Window, Forget(w) PROVE EditorInv'
<1>1. UNCHANGED <<project, shown, calls>>
  BY DEF Forget
<1>2. /\ undo = [v \in Window |-> undo[v]] /\ redo = [v \in Window |-> redo[v]]
      /\ shown = [v \in Window |-> shown[v]] /\ \A v \in Window : IsDocument(shown[v])
  BY DEF EditorInv, EditorTyped
<1>3. undo' = [v \in Window |-> IF v = w THEN << >> ELSE undo[v]]
  BY <1>2 DEF Forget
<1>4. redo' = [v \in Window |-> IF v = w THEN << >> ELSE redo[v]]
  BY <1>2 DEF Forget
<1>5. OthersStay(w) /\ \A k \in Restores : StackOf(k, w)' = << >>
  BY <1>3, <1>4 DEF OthersStay, StackOf
<1>6. \A n \in Nat : Claimed(n)' => Claimed(n)
  BY <1>1 DEF Claimed
<1>7. << >> \in Seq(ToSet(<< >>)) /\ Len(<< >>) = 0
  OBVIOUS
<1>8. EditorTyped'
  BY <1>1, <1>2, <1>5, <1>7, TypedStill
<1>9. \A k \in Restores : \A i \in 1..Len(StackOf(k, w)') : EntrySound(k, w, i)'
  BY <1>5, <1>7
<1>10. StacksSound'
  BY <1>1, <1>5, <1>6, <1>9, StacksOfOne DEF OthersStay
<1>11. \A c \in calls : CallSound(c)'
  BY <1>1, <1>6, StillSound DEF EditorInv
<1>12. RestoresAreOne' /\ ClaimsApart'
  BY <1>1 DEF EditorInv, RestoresAreOne, ClaimsApart
<1>13. QED
  BY <1>1, <1>8, <1>10, <1>11, <1>12 DEF EditorInv

(* An entry with another expectation.                                              *)
LEMMA ExpectedIs ==
  ASSUME NEW e, EntryKnown(e), NEW n \in Nat, NEW f, f = [e EXCEPT !.expected = n]
  PROVE  EntryKnown(f) /\ f.before = e.before /\ f.after = e.after /\ f.expected = n
<1>1. e = [before |-> e.before, after |-> e.after, expected |-> e.expected]
  BY DEF EntryKnown
<1>2. f = [before |-> e.before, after |-> e.after, expected |-> n]
  BY <1>1
<1>3. f.before = e.before /\ f.after = e.after /\ f.expected = n
  BY <1>2
<1>4. QED
  BY <1>2, <1>3 DEF EntryKnown

(* An undo or a redo takes the latest entry, while no other of the window is under   *)
(* way, and moves it with an expectation of its own.                                *)
LEMMA TakeKeeps ==
  ASSUME EditorInv, NEW w \in Window, NEW k \in Restores,
         \A d \in calls : d.window = w => d.kind \notin Restores,
         StackOf(k, w) # << >>, Last(StackOf(k, w)).expected = shown[w].revision,
         NEW c, CallShaped(c), c.window = w, c.kind = k, c.expects = shown[w].revision,
         c.entry = {Last(StackOf(k, w))}, c.state = "sent", c.got = {}, calls' = calls \cup {c},
         StackOf(k, w)' = Front(StackOf(k, w)),
         StackOf(OtherWay(k), w)' = Moved(StackOf(k, w), StackOf(OtherWay(k), w), shown[w].revision),
         OthersStay(w), UNCHANGED <<project, shown>>
  PROVE  EditorInv'
<1>1. EditorTyped /\ StacksSound /\ RestoresAreOne /\ ClaimsApart /\ \A d \in calls : CallSound(d)
  BY DEF EditorInv
<1>2. PICK o : o = OtherWay(k)
  OBVIOUS
<1>3. o \in Restores /\ o # k /\ OtherWay(o) = k /\ \A j \in Restores : j = k \/ j = o
  BY <1>2, WaysAre
<1>4. PICK s : s = StackOf(k, w)
  OBVIOUS
<1>5. PICK u : u = StackOf(o, w)
  OBVIOUS
<1>6. s \in Seq(ToSet(s)) /\ s # << >> /\ u \in Seq(ToSet(u))
  BY <1>1, <1>3, <1>4, <1>5 DEF EditorTyped
<1>7. /\ Front(s) \in Seq(ToSet(s)) /\ Len(Front(s)) = Len(s) - 1 /\ Len(s) \in Nat \ {0}
      /\ \A i \in 1..Len(Front(s)) : Front(s)[i] = s[i] /\ i \in 1..Len(s)
      /\ Last(s) = s[Len(s)]
  BY <1>6, FrontIs
<1>8. PICK e : e = Last(s)
  OBVIOUS
<1>9. \A j \in Restores : \A i \in 1..Len(StackOf(j, w)) :
        EntryKnown(StackOf(j, w)[i]) /\ Timely(j, StackOf(j, w)[i], StackOf(j, w)[i].expected)
  BY WaysAre, OneWayIsTimely
<1>10. EntryKnown(e) /\ Timely(k, e, e.expected) /\ e.expected = shown[w].revision
  BY <1>4, <1>7, <1>8, <1>9
<1>11. PICK n : n = shown[w].revision + 1
  OBVIOUS
<1>12. shown[w].revision \in Nat /\ n \in Nat
  BY <1>1, <1>11 DEF EditorTyped, IsDocument
<1>13. PICK f : f = [e EXCEPT !.expected = n]
  OBVIOUS
<1>14. EntryKnown(f) /\ f.before = e.before /\ f.after = e.after /\ f.expected = n
  BY <1>10, <1>12, <1>13, ExpectedIs
<1>15. PICK t : t = Prune(Append(u, f))
  OBVIOUS
<1>16. StackOf(o, w)' = t /\ StackOf(k, w)' = Front(s)
  BY <1>2, <1>4, <1>5, <1>8, <1>11, <1>13, <1>15 DEF Moved
<1>17. /\ t \in Seq(ToSet(t)) /\ Len(t) \in Nat \ {0} /\ t[Len(t)] = f
       /\ \E off \in Nat : /\ Len(t) = Len(u) + 1 - off
                           /\ \A i \in 1..Len(t) : i # Len(t) => i + off \in 1..Len(u) /\ t[i] = u[i + off]
  <2>1. PICK S : S = ToSet(u)
    OBVIOUS
  <2>2. u \in Seq(S)
    BY <1>6, <2>1
  <2>3. QED
    BY ONLY <1>15, <2>2, ToppedIs
<1>18. \A m \in Nat : Claimed(m)' => Claimed(m)
  <2>1. ~(c.state = "answered")
    OBVIOUS
  <2>2. QED
    BY <2>1 DEF Claimed
<1>19. EditorTyped'
  <2>1. Front(s) \in Seq(ToSet(Front(s)))
    BY <1>7, ElementsAre
  <2>2. \A j \in Restores : StackOf(j, w)' \in Seq(ToSet(StackOf(j, w)'))
    BY <1>3, <1>16, <1>17, <2>1
  <2>3. shown' = [v \in Window |-> shown'[v]] /\ \A v \in Window : IsDocument(shown'[v])
    BY <1>1 DEF EditorTyped
  <2>4. QED
    BY <2>2, <2>3, TypedStill
<1>20. CallSound(c)'
  <2>1. \A entry \in c.entry : EntryKnown(entry)' /\ Timely(c.kind, entry, c.expects)'
    BY <1>4, <1>8, <1>10, <1>18, StillKnown, StillTimely
  <2>2. c.kind \notin Records
    BY DEF Restores, Records
  <2>3. QED
    BY <2>1, <2>2 DEF CallSound
<1>21. \A d \in calls' : CallSound(d)'
  BY <1>1, <1>18, <1>20, StillSound
<1>22. RestoresAreOne'
  BY <1>1 DEF RestoresAreOne
<1>23. ClaimsApart'
  BY <1>1 DEF ClaimsApart
<1>24. ASSUME NEW i \in 1..Len(StackOf(k, w)') PROVE EntrySound(k, w, i)'
  <2>1. i \in 1..Len(s) /\ Front(s)[i] = s[i]
    BY <1>7, <1>16, <1>24
  <2>2. EntryKnown(s[i]) /\ Timely(k, s[i], s[i].expected)
    BY <1>4, <1>9, <2>1
  <2>3. EntryKnown(s[i])' /\ Timely(k, s[i], s[i].expected)'
    BY <1>18, <2>2, StillKnown, StillTimely
  <2>4. QED
    BY <1>16, <2>1, <2>3 DEF EntrySound
<1>25. ASSUME NEW i \in 1..Len(StackOf(o, w)') PROVE EntrySound(o, w, i)'
  <2>1. i \in 1..Len(t)
    BY <1>16, <1>25
  <2>2. CASE i # Len(t)
    <3>1. PICK m \in 1..Len(u) : t[i] = u[m]
      BY <1>17, <2>1, <2>2
    <3>2. EntryKnown(u[m]) /\ Timely(o, u[m], u[m].expected)
      BY <1>3, <1>5, <1>9, <3>1
    <3>3. EntryKnown(u[m])' /\ Timely(o, u[m], u[m].expected)'
      BY <1>18, <3>2, StillKnown, StillTimely
    <3>4. QED
      BY <1>16, <3>1, <3>3 DEF EntrySound
  <2>3. CASE i = Len(t)
    <3>1. EntryKnown(f)'
      BY <1>14, <1>18, StillKnown
    <3>2. \A j \in 1..Len(t) : ~(i < j)
      BY <1>17, <2>3
    <3>3. SameEdit(t[i], e) /\ t[i].expected = c.expects + 1
      BY <1>11, <1>14, <1>17, <2>3 DEF SameEdit
    <3>4. c \in calls' /\ c.kind = OtherWay(o) /\ e \in c.entry
      BY <1>3, <1>4, <1>8
    <3>5. \E entry \in c.entry :
            /\ SameEdit(t[i], entry) /\ t[i].expected = c.expects + 1
            /\ \A j \in 1..Len(t) : i < j => ~SameEdit(t[j], entry)
      BY <3>2, <3>3, <3>4
    <3>6. Exempt(o, w, i)'
      BY <1>16, <3>4, <3>5 DEF Exempt
    <3>7. QED
      BY <1>16, <1>17, <2>3, <3>1, <3>6 DEF EntrySound
  <2>4. QED
    BY <2>2, <2>3
<1>26. StacksSound'
  <2>1. \A j \in Restores : \A i \in 1..Len(StackOf(j, w)') : EntrySound(j, w, i)'
    BY <1>3, <1>24, <1>25
  <2>2. QED
    BY <1>18, <2>1, StacksOfOne DEF OthersStay
<1>27. QED
  BY <1>19, <1>21, <1>22, <1>23, <1>26 DEF EditorInv
LEMMA CallOfIs ==
  ASSUME NEW w \in Window, IsDocument(shown[w]), NEW k \in Kinds, NEW n \in Nat, NEW entry, \A a, b \in entry : a = b /\ k \in Restores,
         k \in Records => n = shown[w].revision, NEW c, c = CallOf(w, k, n, entry)
  PROVE  /\ CallShaped(c) /\ c.window = w /\ c.kind = k /\ c.expects = n /\ c.entry = entry
         /\ c.state = "sent" /\ c.got = {} /\ c.before = {shown[w]}
<1>1. c = [window |-> w, kind |-> k, before |-> {shown[w]}, expects |-> n, entry |-> entry, state |-> "sent", got |-> {}]
  BY DEF CallOf
<1>2. /\ c.window = w /\ c.kind = k /\ c.expects = n /\ c.entry = entry
      /\ c.state = "sent" /\ c.got = {} /\ c.before = {shown[w]}
  BY <1>1
<1>3. \A x \in c.before : IsDocument(x) /\ (c.kind \in Records => x.revision = c.expects)
  BY <1>2
<1>4. c.state \in States
  BY <1>2 DEF States
<1>5. QED
  BY <1>1, <1>2, <1>3, <1>4 DEF CallShaped


LEMMA UndoKeeps == ASSUME EditorInv, ~UndoneTogether, NEW w \in Window, Undo(w) \/ Redo(w) PROVE EditorInv'
<1>1. EditorTyped /\ \A d \in calls : CallSound(d)
  BY DEF EditorInv
<1>2. \A d \in calls : d.window = w => d.kind \notin Restores
  BY DEF Undo, Redo, MayRestore, Of
<1>3. CASE Forget(w)
  BY <1>3, ForgetKeeps
<1>4. IsDocument(shown[w]) /\ shown[w].revision \in Nat
  BY <1>1 DEF EditorTyped, IsDocument
<1>5. undo = [v \in Window |-> undo[v]] /\ redo = [v \in Window |-> redo[v]]
  BY <1>1 DEF EditorTyped
<1>7. CASE /\ undo[w] # << >> /\ Fits(undo[w], shown[w].revision)
           /\ Send(CallOf(w, "undo", shown[w].revision, {Last(undo[w])}))
           /\ undo' = [undo EXCEPT ![w] = Front(@)]
           /\ redo' = [redo EXCEPT ![w] = Moved(undo[w], @, shown[w].revision)]
           /\ UNCHANGED <<project, shown, faults>>
  <2>1. PICK c : c = CallOf(w, "undo", shown[w].revision, {Last(undo[w])})
    OBVIOUS
  <2>2. /\ CallShaped(c) /\ c.window = w /\ c.kind = "undo" /\ c.expects = shown[w].revision
        /\ c.entry = {Last(undo[w])} /\ c.state = "sent" /\ c.got = {}
    <3>1. "undo" \in Kinds /\ "undo" \notin Records
      BY DEF Kinds, Restores, Records
    <3>2. \A a, b \in {Last(undo[w])} : a = b /\ "undo" \in Restores
      BY RestoresAre
    <3>3. QED
      BY <1>4, <2>1, <3>1, <3>2, CallOfIs
  <2>3. undo' = [v \in Window |-> IF v = w THEN Front(undo[v]) ELSE undo[v]]
    BY <1>5, <1>7
  <2>4. redo' = [v \in Window |-> IF v = w THEN Moved(undo[w], redo[v], shown[w].revision) ELSE redo[v]]
    BY <1>5, <1>7
  <2>5. calls' = calls \cup {c}
    BY <1>7, <2>1 DEF Send
  <2>6. PICK k : k = "undo"
    OBVIOUS
  <2>7. OtherWay(k) = "redo" /\ k \in Restores
    BY <2>6, RestoresAre DEF OtherWay
  <2>8. /\ StackOf(k, w) = undo[w] /\ StackOf(OtherWay(k), w) = redo[w]
        /\ StackOf(k, w)' = undo'[w] /\ StackOf(OtherWay(k), w)' = redo'[w]
    BY <2>6, <2>7 DEF StackOf
  <2>9. OthersStay(w) /\ undo'[w] = Front(undo[w]) /\ redo'[w] = Moved(undo[w], redo[w], shown[w].revision)
    BY <2>3, <2>4 DEF OthersStay, StackOf
  <2>10. Last(undo[w]).expected = shown[w].revision
    BY <1>7 DEF Fits
  <2>11. /\ c.kind = k /\ c.entry = {Last(StackOf(k, w))} /\ StackOf(k, w)' = Front(StackOf(k, w))
         /\ StackOf(OtherWay(k), w)' = Moved(StackOf(k, w), StackOf(OtherWay(k), w), shown[w].revision)
         /\ StackOf(k, w) # << >> /\ Last(StackOf(k, w)).expected = shown[w].revision
    BY <1>7, <2>2, <2>6, <2>8, <2>9, <2>10
  <2>12. UNCHANGED <<project, shown>>
    BY <1>7
  <2>13. QED
    BY <1>2, <2>2, <2>5, <2>7, <2>9, <2>11, <2>12, TakeKeeps
<1>8. CASE /\ redo[w] # << >> /\ Fits(redo[w], shown[w].revision)
           /\ Send(CallOf(w, "redo", shown[w].revision, {Last(redo[w])}))
           /\ redo' = [redo EXCEPT ![w] = Front(@)]
           /\ undo' = [undo EXCEPT ![w] = Moved(redo[w], @, shown[w].revision)]
           /\ UNCHANGED <<project, shown, faults>>
  <2>1. PICK c : c = CallOf(w, "redo", shown[w].revision, {Last(redo[w])})
    OBVIOUS
  <2>2. /\ CallShaped(c) /\ c.window = w /\ c.kind = "redo" /\ c.expects = shown[w].revision
        /\ c.entry = {Last(redo[w])} /\ c.state = "sent" /\ c.got = {}
    <3>1. "redo" \in Kinds /\ "redo" \notin Records
      BY DEF Kinds, Restores, Records
    <3>2. \A a, b \in {Last(redo[w])} : a = b /\ "redo" \in Restores
      BY RestoresAre
    <3>3. QED
      BY <1>4, <2>1, <3>1, <3>2, CallOfIs
  <2>3. redo' = [v \in Window |-> IF v = w THEN Front(redo[v]) ELSE redo[v]]
    BY <1>5, <1>8
  <2>4. undo' = [v \in Window |-> IF v = w THEN Moved(redo[w], undo[v], shown[w].revision) ELSE undo[v]]
    BY <1>5, <1>8
  <2>5. calls' = calls \cup {c}
    BY <1>8, <2>1 DEF Send
  <2>6. PICK k : k = "redo"
    OBVIOUS
  <2>7. OtherWay(k) = "undo" /\ k \in Restores
    BY <2>6, RestoresAre DEF OtherWay
  <2>8. /\ StackOf(k, w) = redo[w] /\ StackOf(OtherWay(k), w) = undo[w]
        /\ StackOf(k, w)' = redo'[w] /\ StackOf(OtherWay(k), w)' = undo'[w]
    BY <2>6, <2>7 DEF StackOf
  <2>9. OthersStay(w) /\ redo'[w] = Front(redo[w]) /\ undo'[w] = Moved(redo[w], undo[w], shown[w].revision)
    BY <2>3, <2>4 DEF OthersStay, StackOf
  <2>10. Last(redo[w]).expected = shown[w].revision
    BY <1>8 DEF Fits
  <2>11. /\ c.kind = k /\ c.entry = {Last(StackOf(k, w))} /\ StackOf(k, w)' = Front(StackOf(k, w))
         /\ StackOf(OtherWay(k), w)' = Moved(StackOf(k, w), StackOf(OtherWay(k), w), shown[w].revision)
         /\ StackOf(k, w) # << >> /\ Last(StackOf(k, w)).expected = shown[w].revision
    BY <1>8, <2>2, <2>6, <2>8, <2>9, <2>10
  <2>12. UNCHANGED <<project, shown>>
    BY <1>8
  <2>13. QED
    BY <1>2, <2>2, <2>5, <2>7, <2>9, <2>11, <2>12, TakeKeeps
<1>9. QED
  BY <1>3, <1>7, <1>8 DEF Undo, Redo

(* An accepted edit is recorded, and what could be redone is forgotten.             *)
LEMMA PushKeeps ==
  ASSUME EditorInv, NEW c \in calls, c.kind \in Records, c.state = "answered",
         NEW b \in c.before, NEW x \in c.got, Push(c.window, Entry(b, x)),
         calls' = calls \ {c}, UNCHANGED project,
         shown' = [w \in Window |-> shown'[w]], \A w \in Window : IsDocument(shown'[w])
  PROVE  EditorInv'
<1>1. /\ EditorTyped /\ CallSound(c) /\ CallShaped(c) /\ (\A d \in calls : CallSound(d))
      /\ RestoresAreOne /\ ClaimsApart /\ StacksSound
  BY DEF EditorInv, CallSound
<1>2. PICK w \in Window : w = c.window
  BY <1>1 DEF CallShaped
<1>3. PICK e : e = Entry(b, x)
  OBVIOUS
<1>4. e = [before |-> b, after |-> x, expected |-> x.revision] /\ e.before = b /\ e.after = x /\ e.expected = x.revision
  BY <1>3 DEF Entry
<1>5. /\ IsDocument(b) /\ b.revision = c.expects /\ IsDocument(x) /\ x.revision = c.expects + 1
      /\ x.revision <= project.revision /\ (x.revision = project.revision => x = project) /\ x.revision \in Nat
  BY <1>1 DEF CallSound, CallShaped, Got, IsDocument
<1>6. \A n \in Nat : Claimed(n)' => Claimed(n) /\ n # x.revision
  <2>1. ASSUME NEW n \in Nat, Claimed(n)' PROVE Claimed(n) /\ n # x.revision
    <3>1. PICK d \in calls \ {c} : d.kind \in Records /\ d.state = "answered" /\ \E y \in d.got : y.revision = n
      BY <2>1 DEF Claimed
    <3>2. Claimed(n)
      BY <3>1 DEF Claimed
    <3>3. n # x.revision
      BY <1>1, <3>1 DEF ClaimsApart
    <3>4. QED
      BY <3>2, <3>3
  <2>2. QED
    BY <2>1
<1>7. \A n \in Nat : Claimed(n)' => Claimed(n)
  BY <1>6
<1>8. EntryKnown(e)'
  BY <1>4, <1>5, <1>6 DEF EntryKnown
<1>9. Timely("undo", e, e.expected)'
  BY <1>4, <1>5 DEF Timely, Side
<1>10. undo = [v \in Window |-> undo[v]] /\ redo = [v \in Window |-> redo[v]]
  BY <1>1 DEF EditorTyped
<1>11. PICK s : s = StackOf("undo", w)
  OBVIOUS
<1>12. s = undo[w] /\ s \in Seq(ToSet(s))
  BY <1>1, <1>11, RestoresAre DEF EditorTyped, StackOf
<1>13. PICK t : t = Prune(Append(s, e))
  OBVIOUS
<1>14. undo' = [v \in Window |-> IF v = w THEN t ELSE undo[v]]
  BY <1>2, <1>3, <1>10, <1>12, <1>13 DEF Push
<1>15. redo' = [v \in Window |-> IF v = w THEN << >> ELSE redo[v]]
  BY <1>2, <1>10 DEF Push
<1>16. OthersStay(w) /\ StackOf("undo", w)' = t /\ StackOf("redo", w)' = << >>
  BY <1>14, <1>15 DEF OthersStay, StackOf
<1>17. /\ t \in Seq(ToSet(t)) /\ Len(t) \in Nat \ {0} /\ t[Len(t)] = e
       /\ \E off \in Nat : /\ Len(t) = Len(s) + 1 - off
                           /\ \A i \in 1..Len(t) : i # Len(t) => i + off \in 1..Len(s) /\ t[i] = s[i + off]
  <2>1. PICK S : S = ToSet(s)
    OBVIOUS
  <2>2. s \in Seq(S)
    BY <1>12, <2>1
  <2>3. QED
    BY <1>13, <2>2, ToppedIs, SMTT(60)
<1>18. EditorTyped'
  <2>1. << >> \in Seq(ToSet(<< >>))
    OBVIOUS
  <2>2. \A k \in Restores : StackOf(k, w)' \in Seq(ToSet(StackOf(k, w)'))
    BY <1>16, <1>17, <2>1, RestoresAre
  <2>3. QED
    BY <1>16, <2>2, TypedStill
<1>19. \A d \in calls' : CallSound(d)'
  BY <1>1, <1>7, StillSound
<1>20. RestoresAreOne' /\ ClaimsApart'
  BY <1>1 DEF RestoresAreOne, ClaimsApart
<1>21. ASSUME NEW i \in 1..Len(t) PROVE EntrySound("undo", w, i)'
  <2>1. CASE i = Len(t)
    BY <1>8, <1>9, <1>16, <1>17, <2>1 DEF EntrySound
  <2>2. CASE i # Len(t)
    <3>1. PICK off \in Nat : /\ Len(t) = Len(s) + 1 - off
                             /\ \A j \in 1..Len(t) : j # Len(t) => j + off \in 1..Len(s) /\ t[j] = s[j + off]
      BY <1>17
    <3>2. PICK m \in 1..Len(s) : m = i + off /\ t[i] = s[m]
      BY <1>21, <2>2, <3>1
    <3>3. EntryKnown(s[m]) /\ (Timely("undo", s[m], s[m].expected) \/ Exempt("undo", w, m))
      BY <1>1, <1>11, RestoresAre DEF StacksSound, EntrySound
    <3>4. EntryKnown(s[m])'
      BY <1>7, <3>3, StillKnown
    <3>5. CASE Timely("undo", s[m], s[m].expected)
      <4>1. Timely("undo", s[m], s[m].expected)'
        BY <3>5, StillTimely
      <4>2. QED
        BY <1>16, <3>2, <3>4, <4>1 DEF EntrySound
    <3>6. CASE Exempt("undo", w, m)
      <4>1. PICK a \in calls :
              /\ a.window = w /\ a.kind = OtherWay("undo") /\ a.state # "answered"
              /\ \E entry \in a.entry :
                   /\ SameEdit(s[m], entry) /\ s[m].expected = a.expects + 1
                   /\ \A j \in 1..Len(s) : m < j => ~SameEdit(s[j], entry)
        BY <1>11, <3>6 DEF Exempt
      <4>2. PICK entry \in a.entry :
              /\ SameEdit(s[m], entry) /\ s[m].expected = a.expects + 1
              /\ \A j \in 1..Len(s) : m < j => ~SameEdit(s[j], entry)
        BY <4>1
      <4>3. a.kind \in Restores /\ a \in calls'
        <5>1. a.kind = "redo"
          BY <4>1 DEF OtherWay
        <5>2. QED
          BY <5>1, <4>1 DEF Restores
      <4>4. EntryKnown(entry)
        BY <1>1, <4>2, <4>3 DEF CallSound
      <4>5. Claimed(x.revision)
        BY DEF Claimed
      <4>6. ~SameEdit(e, entry)
        BY <1>4, <4>4, <4>5 DEF SameEdit, EntryKnown
      <4>7. ASSUME NEW j \in 1..Len(t), i < j PROVE ~SameEdit(t[j], entry)
        <5>1. CASE j = Len(t)
          BY <1>17, <4>6, <5>1
        <5>2. CASE j # Len(t)
          <6>1. j + off \in 1..Len(s) /\ t[j] = s[j + off] /\ m < j + off
            BY <3>1, <3>2, <4>7, <5>2
          <6>2. QED
            BY <4>2, <6>1
        <5>3. QED
          BY <5>1, <5>2
      <4>8. \E f \in a.entry :
              /\ SameEdit(t[i], f) /\ t[i].expected = a.expects + 1
              /\ \A j \in 1..Len(t) : i < j => ~SameEdit(t[j], f)
        BY <3>2, <4>2, <4>7
      <4>9. Exempt("undo", w, i)'
        BY <1>16, <4>1, <4>3, <4>8 DEF Exempt
      <4>10. QED
        BY <1>16, <3>2, <3>4, <4>9 DEF EntrySound
    <3>7. QED
      BY <3>3, <3>5, <3>6
  <2>3. QED
    BY <2>1, <2>2
<1>22. StacksSound'
  <2>1. Len(<< >>) = 0
    OBVIOUS
  <2>2. \A k \in Restores : \A i \in 1..Len(StackOf(k, w)') : EntrySound(k, w, i)'
    BY <1>16, <1>21, <2>1, RestoresAre
  <2>3. \A d \in calls : d.window # w => d \in calls'
    BY <1>2
  <2>4. QED
    BY <1>7, <1>16, <2>2, <2>3, StacksOfOne DEF OthersStay
<1>23. QED
  BY <1>18, <1>19, <1>20, <1>22 DEF EditorInv

(* The last entry of an edit, which a rollback puts back.                           *)
LEMMA LargestIs ==
  ASSUME NEW n \in Nat, NEW S \in SUBSET (1..n), S # {}
  PROVE  Max(S) \in S /\ \A i \in S : i <= Max(S)
<1> DEFINE R == {ss \in Nat \X Nat : ss[1] < ss[2]}
<1>1. IsWellFoundedOn(R, Nat)
  BY NatLessThanWellFounded DEF OpToRel
<1>2. PICK T : T = {n - i : i \in S}
  OBVIOUS
<1>3. T \in SUBSET Nat /\ T # {}
  <2>1. \A i \in S : n - i \in Nat
    OBVIOUS
  <2>2. QED
    BY <1>2, <2>1
<1>4. PICK m \in T : \A x \in T : ~(<<x, m>> \in R)
  <2> HIDE DEF R
  <2>1. QED
    BY <1>1, <1>3, WFMin
<1>5. PICK j \in S : m = n - j
  BY <1>2, <1>4
<1>6. ASSUME NEW i \in S, j < i PROVE FALSE
  <2>1. n - i \in T /\ <<n - i, m>> \in Nat \X Nat /\ <<n - i, m>>[1] < <<n - i, m>>[2]
    BY <1>2, <1>3, <1>5, <1>6
  <2>2. <<n - i, m>> \in R
    BY <2>1
  <2> HIDE DEF R
  <2>3. QED
    BY <1>4, <2>1, <2>2
<1>7. \A i \in S : j >= i
  BY <1>6
<1>8. Max(S) \in S /\ \A i \in S : Max(S) >= i
  BY <1>7 DEF Max
<1>9. QED
  BY <1>8

LEMMA LastSameIs ==
  ASSUME NEW S, NEW s \in Seq(S), NEW e, NEW I, I = {i \in 1..Len(s) : SameEdit(e, s[i])},
         NEW n, n = IF I # {} THEN Max(I) ELSE 0
  PROVE  \/ n = 0 /\ \A i \in 1..Len(s) : ~SameEdit(e, s[i])
         \/ n \in 1..Len(s) /\ SameEdit(e, s[n]) /\ \A i \in 1..Len(s) : n < i => ~SameEdit(e, s[i])
<1>1. Len(s) \in Nat /\ I \in SUBSET (1..Len(s))
  OBVIOUS
<1>2. CASE I = {}
  BY <1>2
<1>3. CASE I # {}
  <2>1. n \in I /\ \A i \in I : i <= n
    BY <1>1, <1>3, LargestIs
  <2>2. n \in 1..Len(s) /\ SameEdit(e, s[n])
    BY <2>1
  <2>3. ASSUME NEW i \in 1..Len(s), n < i, SameEdit(e, s[i]) PROVE FALSE
    <3>1. i \in I
      BY <2>3
    <3>2. i <= n /\ i \in Nat /\ n \in Nat
      BY <1>1, <2>1, <2>2, <3>1
    <3>3. QED
      BY <2>3, <3>2
  <2>4. QED
    BY <2>2, <2>3
<1>4. QED
  BY <1>2, <1>3

LEMMA PutBackIs ==
  ASSUME NEW S, NEW from \in Seq(S), NEW to, NEW e, NEW n, NEW back, back = PutBack(from, to, e, n)
  PROVE  \/ back[1] = from /\ back[2] = to /\ \A i \in 1..Len(from) : ~SameEdit(e, from[i])
         \/ \E i \in 1..Len(from) :
              /\ SameEdit(e, from[i]) /\ \A j \in 1..Len(from) : i < j => ~SameEdit(e, from[j])
              /\ back[1] = RemoveAt(from, i)
              /\ back[2] = Prune(Append(to, [from[i] EXCEPT !.expected = n]))
<1> DEFINE I == {i \in 1..Len(from) : SameEdit(e, from[i])}
<1>1. PICK i : i = IF I # {} THEN Max(I) ELSE 0
  OBVIOUS
<1>2. back = IF i = 0 THEN <<from, to>> ELSE <<RemoveAt(from, i), Prune(Append(to, [from[i] EXCEPT !.expected = n]))>>
  BY <1>1 DEF PutBack, SelectLastInSeq
<1>3. \/ i = 0 /\ \A j \in 1..Len(from) : ~SameEdit(e, from[j])
      \/ i \in 1..Len(from) /\ SameEdit(e, from[i]) /\ \A j \in 1..Len(from) : i < j => ~SameEdit(e, from[j])
  BY <1>1, LastSameIs
<1>4. CASE i = 0
  BY <1>2, <1>3, <1>4
<1>5. CASE i # 0
  <2>1. back[1] = RemoveAt(from, i) /\ back[2] = Prune(Append(to, [from[i] EXCEPT !.expected = n]))
    BY <1>2, <1>5
  <2>2. QED
    BY <1>3, <1>5, <2>1
<1>6. QED
  BY <1>4, <1>5

(* A restore that was not accepted gives the entry back that it had taken.          *)
LEMMA GivenBack ==
  ASSUME EditorInv, NEW c \in calls, NEW k \in Restores, c.kind = k, c.state # "answered",
         NEW w \in Window, w = c.window, NEW o, o = OtherWay(k), NEW entry \in c.entry,
         NEW back, back = PutBack(StackOf(o, w), StackOf(k, w), entry, c.expects),
         StackOf(o, w)' = back[1], StackOf(k, w)' = back[2], OthersStay(w),
         calls' = calls \ {c}, UNCHANGED project,
         shown' = [v \in Window |-> shown'[v]], \A v \in Window : IsDocument(shown'[v])
  PROVE  EditorInv'
<1>1. /\ EditorTyped /\ CallSound(c) /\ CallShaped(c) /\ (\A d \in calls : CallSound(d))
      /\ RestoresAreOne /\ ClaimsApart /\ StacksSound
  BY DEF EditorInv, CallSound
<1>2. o \in Restores /\ o # k /\ OtherWay(o) = k /\ \A j \in Restores : j = k \/ j = o
  BY WaysAre
<1>3. \A n \in Nat : Claimed(n)' => Claimed(n)
  BY DEF Claimed
<1>4. PICK s : s = StackOf(o, w)
  OBVIOUS
<1>5. PICK u : u = StackOf(k, w)
  OBVIOUS
<1>6. s \in Seq(ToSet(s)) /\ u \in Seq(ToSet(u))
  BY <1>1, <1>2, <1>4, <1>5 DEF EditorTyped
<1>7. \A d \in calls : d.kind \in Restores /\ d.window = w => d = c
  BY <1>1 DEF RestoresAreOne
<1>8. EntryKnown(entry) /\ Timely(k, entry, c.expects) /\ c.expects \in Nat
  BY <1>1 DEF CallSound, CallShaped
<1>9. ASSUME NEW i \in 1..Len(u) PROVE EntryKnown(u[i])' /\ Timely(k, u[i], u[i].expected)'
  <2>1. ~ \E d \in calls : d.window = w /\ d.kind = OtherWay(k) /\ d.state # "answered"
    BY <1>2, <1>7
  <2>2. EntryKnown(u[i]) /\ Timely(k, u[i], u[i].expected)
    BY <1>5, <1>9, <2>1, OneWayIsTimely
  <2>3. QED
    BY <1>3, <2>2, StillKnown, StillTimely
<1>10. ASSUME NEW i \in 1..Len(s), ~SameEdit(s[i], entry) \/ \E j \in 1..Len(s) : i < j /\ SameEdit(s[j], entry)
       PROVE  EntryKnown(s[i])' /\ Timely(o, s[i], s[i].expected)'
  <2>1. EntryKnown(s[i]) /\ (Timely(o, s[i], s[i].expected) \/ Exempt(o, w, i))
    BY <1>1, <1>2, <1>4, <1>10 DEF StacksSound, EntrySound
  <2>2. ASSUME Exempt(o, w, i) PROVE FALSE
    <3>1. PICK d \in calls :
            /\ d.window = w /\ d.kind = OtherWay(o) /\ d.state # "answered"
            /\ \E f \in d.entry :
                 /\ SameEdit(s[i], f) /\ s[i].expected = d.expects + 1
                 /\ \A j \in 1..Len(s) : i < j => ~SameEdit(s[j], f)
      BY <1>4, <2>2 DEF Exempt
    <3>2. d = c
      BY <1>2, <1>7, <3>1
    <3>3. PICK f \in c.entry : SameEdit(s[i], f) /\ \A j \in 1..Len(s) : i < j => ~SameEdit(s[j], f)
      BY <3>1, <3>2
    <3>4. f = entry
      BY <1>1 DEF CallShaped
    <3>5. QED
      BY <1>10, <3>3, <3>4
  <2>3. QED
    BY <1>3, <2>1, <2>2, StillKnown, StillTimely
<1>11. \A d \in calls' : CallSound(d)'
  BY <1>1, <1>3, StillSound
<1>12. RestoresAreOne' /\ ClaimsApart'
  BY <1>1 DEF RestoresAreOne, ClaimsApart
<1>13. ASSUME NEW a, NEW b, StackOf(o, w)' = a, StackOf(k, w)' = b, a \in Seq(ToSet(a)), b \in Seq(ToSet(b)),
              \A i \in 1..Len(a) : EntryKnown(a[i])' /\ Timely(o, a[i], a[i].expected)',
              \A i \in 1..Len(b) : EntryKnown(b[i])' /\ Timely(k, b[i], b[i].expected)'
       PROVE  EditorInv'
  <2>1. \A j \in Restores : StackOf(j, w)' \in Seq(ToSet(StackOf(j, w)'))
    BY <1>2, <1>13
  <2>2. EditorTyped'
    BY <2>1, TypedStill
  <2>3. ASSUME NEW i \in 1..Len(a) PROVE EntrySound(o, w, i)'
    BY <1>13, <2>3 DEF EntrySound
  <2>4. ASSUME NEW i \in 1..Len(b) PROVE EntrySound(k, w, i)'
    BY <1>13, <2>4 DEF EntrySound
  <2>5. \A j \in Restores : \A i \in 1..Len(StackOf(j, w)') : EntrySound(j, w, i)'
    BY <1>2, <1>13, <2>3, <2>4
  <2>6. \A d \in calls : d.window # w => d \in calls'
    OBVIOUS
  <2>7. StacksSound'
    BY <1>3, <2>5, <2>6, StacksOfOne DEF OthersStay
  <2>8. QED
    BY <1>11, <1>12, <2>2, <2>7 DEF EditorInv
<1>14. \/ back[1] = s /\ back[2] = u /\ \A i \in 1..Len(s) : ~SameEdit(entry, s[i])
       \/ \E i \in 1..Len(s) :
            /\ SameEdit(entry, s[i]) /\ \A j \in 1..Len(s) : i < j => ~SameEdit(entry, s[j])
            /\ back[1] = RemoveAt(s, i)
            /\ back[2] = Prune(Append(u, [s[i] EXCEPT !.expected = c.expects]))
  BY <1>4, <1>5, <1>6, PutBackIs
<1>15. CASE back[1] = s /\ back[2] = u /\ \A i \in 1..Len(s) : ~SameEdit(entry, s[i])
  <2>1. StackOf(o, w)' = s /\ StackOf(k, w)' = u
    BY <1>15
  <2>2. \A i \in 1..Len(s) : ~SameEdit(s[i], entry)
    BY <1>15 DEF SameEdit
  <2>3. QED
    BY <1>6, <1>9, <1>10, <1>13, <2>1, <2>2
<1>16. ASSUME NEW i \in 1..Len(s), SameEdit(entry, s[i]), \A j \in 1..Len(s) : i < j => ~SameEdit(entry, s[j]),
              back[1] = RemoveAt(s, i), back[2] = Prune(Append(u, [s[i] EXCEPT !.expected = c.expects]))
       PROVE  EditorInv'
  <2>1. PICK f : f = [s[i] EXCEPT !.expected = c.expects]
    OBVIOUS
  <2>2. PICK t : t = Prune(Append(u, f))
    OBVIOUS
  <2>3. PICK r : r = RemoveAt(s, i)
    OBVIOUS
  <2>4. StackOf(o, w)' = r /\ StackOf(k, w)' = t
    BY <1>16, <2>1, <2>2, <2>3
  <2>5. /\ t \in Seq(ToSet(t)) /\ Len(t) \in Nat \ {0} /\ t[Len(t)] = f
        /\ \E off \in Nat : /\ Len(t) = Len(u) + 1 - off
                            /\ \A j \in 1..Len(t) : j # Len(t) => j + off \in 1..Len(u) /\ t[j] = u[j + off]
    <3>1. PICK S : S = ToSet(u)
      OBVIOUS
    <3>2. u \in Seq(S)
      BY <1>6, <3>1
    <3>3. QED
      BY <2>2, <3>2, ToppedIs, SMTT(60)
  <2>6. r \in Seq(ToSet(r)) /\ \A j \in 1..Len(r) : \E m \in 1..Len(s) : m # i /\ r[j] = s[m]
    <3>1. PICK S : S = ToSet(s)
      OBVIOUS
    <3>2. s \in Seq(S)
      BY <1>6, <3>1
    <3>3. r \in Seq(S) /\ \A j \in 1..Len(r) : \E m \in 1..Len(s) : m # i /\ r[j] = s[m]
      BY <2>3, <3>2, RemovalIs, SMTT(60)
    <3>4. QED
      BY <3>3, ElementsAre
  <2>7. EntryKnown(s[i]) /\ SameEdit(s[i], entry)
    BY <1>1, <1>2, <1>4, <1>16 DEF StacksSound, EntrySound, SameEdit
  <2>8. EntryKnown(f) /\ f.before = s[i].before /\ f.after = s[i].after /\ f.expected = c.expects
    BY <1>8, <2>1, <2>7, ExpectedIs
  <2>9. EntryKnown(f)'
    BY <1>3, <2>8, StillKnown
  <2>10. Timely(k, f, f.expected)'
    <3>1. Side(k, f) = Side(k, entry)
      BY <2>7, <2>8 DEF SameEdit, Side
    <3>2. Timely(k, f, f.expected)
      BY <1>8, <2>8, <3>1 DEF Timely
    <3>3. QED
      BY <3>2, StillTimely
  <2>11. ASSUME NEW j \in 1..Len(r) PROVE EntryKnown(r[j])' /\ Timely(o, r[j], r[j].expected)'
    <3>1. PICK m \in 1..Len(s) : m # i /\ r[j] = s[m]
      BY <2>6, <2>11
    <3>2. ~SameEdit(s[m], entry) \/ \E n \in 1..Len(s) : m < n /\ SameEdit(s[n], entry)
      <4>1. CASE i < m
        BY <1>16, <4>1 DEF SameEdit
      <4>2. CASE m < i
        BY <2>7, <4>2
      <4>3. QED
        BY <3>1, <4>1, <4>2
    <3>3. QED
      BY <1>10, <3>1, <3>2
  <2>12. ASSUME NEW j \in 1..Len(t) PROVE EntryKnown(t[j])' /\ Timely(k, t[j], t[j].expected)'
    <3>1. CASE j = Len(t)
      BY <2>5, <2>9, <2>10, <3>1
    <3>2. CASE j # Len(t)
      <4>1. PICK m \in 1..Len(u) : t[j] = u[m]
        BY <2>5, <2>12, <3>2
      <4>2. QED
        BY <1>9, <4>1
    <3>3. QED
      BY <3>1, <3>2
  <2>13. QED
    BY <1>13, <2>4, <2>5, <2>6, <2>11, <2>12
<1>17. QED
  BY <1>14, <1>15, <1>16

LEMMA PageKeeps ==
  ASSUME EditorInv, ~UndoneTogether, ~AgentBehind, NEW w \in Window, Page(w)
  PROVE  EditorInv'
<1>1. IsDocument(shown[w]) /\ shown[w].revision \in Nat
  BY DEF EditorInv, EditorTyped, IsDocument
<1>2. ASSUME NEW k \in Kinds, k \notin Restores, NEW n \in Nat, k \in Records => n = shown[w].revision,
             NEW c, c = CallOf(w, k, n, {}), Send(c), UNCHANGED <<project, shown, stacks, faults>>
      PROVE  EditorInv'
  <2>1. CallShaped(c) /\ c.kind = k /\ c.state = "sent" /\ c.got = {}
    BY <1>1, <1>2, CallOfIs
  <2>2. calls' = calls \cup {c} /\ UNCHANGED <<project, shown, undo, redo>>
    BY <1>2 DEF Send, stacks
  <2>3. QED
    BY <1>2, <2>1, <2>2, SendKeeps
<1>3. CASE EditTimeline(w)
  <2>1. "timeline" \in Kinds /\ "timeline" \notin Restores
    BY DEF Kinds, Restores
  <2>2. QED
    BY <1>1, <1>2, <1>3, <2>1 DEF EditTimeline
<1>4. CASE EditScript(w)
  <2>1. "script" \in Kinds /\ "script" \notin Restores
    BY DEF Kinds, Restores
  <2>2. "script" \notin Records
    BY DEF Records
  <2>3. QED
    BY <1>1, <1>2, <1>4, <2>1, <2>2 DEF EditScript
<1>5. CASE ApplyProposal(w)
  <2>1. "agent" \in Kinds /\ "agent" \notin Restores
    BY DEF Kinds, Restores
  <2>2. Send(CallOf(w, "agent", shown[w].revision, {})) /\ UNCHANGED <<project, shown, stacks, faults>>
    BY <1>5 DEF ApplyProposal
  <2>3. QED
    BY <1>1, <1>2, <2>1, <2>2
<1>6. CASE Undo(w) \/ Redo(w)
  BY <1>6, UndoKeeps
<1>7. CASE Open(w)
  <2>1. PICK a : a = CallOf(w, "open", 0, {})
    OBVIOUS
  <2>2. a = [window |-> w, kind |-> "open", before |-> {shown[w]}, expects |-> 0, entry |-> {}, state |-> "sent", got |-> {}]
    BY <2>1 DEF CallOf
  <2>3. PICK c : c = [a EXCEPT !.before = {}]
    OBVIOUS
  <2>4. c = [window |-> w, kind |-> "open", before |-> {}, expects |-> 0, entry |-> {}, state |-> "sent", got |-> {}]
    BY <2>2, <2>3
  <2>5. CallShaped(c) /\ c.kind \notin Restores /\ c.state = "sent" /\ c.got = {}
    BY <2>4 DEF CallShaped, Kinds, States, Restores
  <2>6. calls' = calls \cup {c} /\ UNCHANGED <<project, shown, undo, redo>>
    BY <1>7, <2>1, <2>3 DEF Open, Send, stacks
  <2>7. QED
    BY <2>5, <2>6, SendKeeps
<1>8. QED
  BY <1>3, <1>4, <1>5, <1>6, <1>7 DEF Page

LEMMA ServerKeeps == ASSUME EditorInv, NEW c \in calls, Server(c) \/ Lose(c) PROVE EditorInv'
<1>1. Got(project) /\ shown = [w \in Window |-> shown[w]] /\ \A w \in Window : IsDocument(shown[w])
  BY DEF EditorInv, EditorTyped, Got, IsDocument
<1>2. ASSUME Fails(c), UNCHANGED <<project, shown, stacks>> PROVE EditorInv'
  <2>1. UNCHANGED <<project, shown, undo, redo>>
    BY <1>2 DEF stacks
  <2>2. CASE c.kind \in Restores
    <3>1. Becomes(c, "failed", {}) /\ "failed" \in States /\ "failed" # "answered"
      BY <1>2, <2>2 DEF Fails, States
    <3>2. QED
      BY <2>1, <3>1, BecomesKeeps
  <2>3. CASE c.kind \notin Restores
    <3>1. calls' = calls \ {c}
      BY <1>2, <2>3 DEF Fails
    <3>2. QED
      BY <1>1, <2>1, <2>3, <3>1, EndKeeps
  <2>4. QED
    BY <2>2, <2>3
<1>3. CASE Read(c)
  <2>1. Becomes(c, "answered", {project}) /\ UNCHANGED <<project, shown, undo, redo>> /\ c.kind \notin Restores \cup Records
    BY <1>3 DEF Read, stacks, Restores, Records
  <2>2. "answered" \in States
    BY DEF States
  <2>3. QED
    BY <1>1, <2>1, <2>2, BecomesKeeps
<1>4. CASE AcceptCall(c)
  BY <1>4, AcceptKeeps
<1>5. CASE Refuse(c)
  <2>1. CASE Fails(c)
    BY <1>2, <1>5, <2>1 DEF Refuse
  <2>2. CASE Becomes(c, "conflict", {})
    <3>1. UNCHANGED <<project, shown, undo, redo>> /\ "conflict" \in States /\ "conflict" # "answered"
      BY <1>5 DEF Refuse, stacks, States
    <3>2. QED
      BY <2>2, <3>1, BecomesKeeps
  <2>3. QED
    BY <1>5, <2>1, <2>2 DEF Refuse
<1>6. CASE Reload(c)
  <2>1. /\ Becomes(c, "reloaded", {project}) /\ UNCHANGED <<project, shown, undo, redo>>
        /\ "reloaded" \in States /\ "reloaded" # "answered"
    BY <1>6 DEF Reload, stacks, States
  <2>2. QED
    BY <1>1, <2>1, BecomesKeeps
<1>7. CASE Lose(c)
  BY <1>2, <1>7 DEF Lose
<1>8. QED
  BY <1>3, <1>4, <1>5, <1>6, <1>7 DEF Server

LEMMA ReturnKeeps == ASSUME EditorInv, NEW c \in calls, Return(c) PROVE EditorInv'
<1>1. EditorTyped /\ CallSound(c) /\ CallShaped(c)
  BY DEF EditorInv, CallSound
<1>2. PICK w \in Window : w = c.window
  BY <1>1 DEF CallShaped
<1>3. calls' = calls \ {c} /\ UNCHANGED project
  BY DEF Return
<1>4. shown' = [v \in Window |-> shown'[v]] /\ \A v \in Window : IsDocument(shown'[v])
  <2>1. PICK x : x = IF \E doc \in c.got : Publishable(c, doc) THEN CHOOSE doc \in c.got : TRUE ELSE shown[w]
    OBVIOUS
  <2>2. shown = [v \in Window |-> shown[v]] /\ \A v \in Window : IsDocument(shown[v])
    BY <1>1 DEF EditorTyped
  <2>3. IsDocument(x)
    BY <1>1, <2>1, <2>2 DEF CallSound, Got
  <2>4. shown' = [v \in Window |-> IF v = w THEN x ELSE shown[v]]
    BY <1>2, <2>1, <2>2 DEF Return, Publish
  <2>5. QED
    BY <2>2, <2>3, <2>4
<1>5. ASSUME UNCHANGED stacks, c.kind \in Restores => c.state = "answered" PROVE EditorInv'
  <2>1. UNCHANGED <<project, undo, redo>>
    BY <1>3, <1>5 DEF stacks
  <2>2. QED
    BY <1>3, <1>4, <1>5, <2>1, EndKeeps
<1>6. CASE c.state = "answered" /\ RecordEdit(c)
  <2>1. CASE c.kind \in Records
    <3>1. PICK b \in c.before, x \in c.got : Push(c.window, Entry(b, x))
      BY <1>6, <2>1 DEF RecordEdit
    <3>2. QED
      BY <1>3, <1>4, <1>6, <2>1, <3>1, PushKeeps
  <2>2. CASE c.kind \notin Records
    BY <1>5, <1>6, <2>2 DEF RecordEdit
  <2>3. QED
    BY <2>1, <2>2
<1>7. CASE c.state \in {"failed", "reloaded"} /\ Rollback(c)
  <2>1. CASE c.kind \notin Restores /\ UNCHANGED stacks
    BY <1>5, <2>1
  <2>2. undo = [v \in Window |-> undo[v]] /\ redo = [v \in Window |-> redo[v]]
    BY <1>1 DEF EditorTyped
  <2>3. ASSUME NEW entry \in c.entry, NEW back,
               back = IF c.kind = "undo" THEN PutBack(redo[w], undo[w], entry, c.expects)
                                         ELSE PutBack(undo[w], redo[w], entry, c.expects),
               undo' = [undo EXCEPT ![w] = IF c.kind = "undo" THEN back[2] ELSE back[1]],
               redo' = [redo EXCEPT ![w] = IF c.kind = "undo" THEN back[1] ELSE back[2]]
        PROVE  EditorInv'
    <3>1. PICK k \in Restores : c.kind = k
      BY <1>1 DEF CallShaped
    <3>2. PICK o : o = OtherWay(k)
      OBVIOUS
    <3>3. undo' = [v \in Window |-> IF v = w THEN (IF k = "undo" THEN back[2] ELSE back[1]) ELSE undo[v]]
      BY <2>2, <2>3, <3>1
    <3>4. redo' = [v \in Window |-> IF v = w THEN (IF k = "undo" THEN back[1] ELSE back[2]) ELSE redo[v]]
      BY <2>2, <2>3, <3>1
    <3>5. OthersStay(w)
      BY <3>3, <3>4 DEF OthersStay, StackOf
    <3>6. back = PutBack(StackOf(o, w), StackOf(k, w), entry, c.expects)
      BY <2>3, <3>1, <3>2, RestoresAre DEF OtherWay, StackOf
    <3>7. StackOf(o, w)' = back[1] /\ StackOf(k, w)' = back[2]
      BY <3>1, <3>2, <3>3, <3>4, RestoresAre DEF OtherWay, StackOf
    <3>8. c.state # "answered"
      BY <1>7
    <3>9. QED
      BY <1>2, <1>3, <1>4, <3>1, <3>2, <3>5, <3>6, <3>7, <3>8, GivenBack
  <2>4. CASE \E entry \in c.entry :
               LET back == IF c.kind = "undo" THEN PutBack(redo[w], undo[w], entry, c.expects)
                                              ELSE PutBack(undo[w], redo[w], entry, c.expects)
               IN /\ undo' = [undo EXCEPT ![w] = IF c.kind = "undo" THEN back[2] ELSE back[1]]
                  /\ redo' = [redo EXCEPT ![w] = IF c.kind = "undo" THEN back[1] ELSE back[2]]
    BY <2>3, <2>4
  <2>5. QED
    BY <1>2, <1>7, <2>1, <2>4 DEF Rollback
<1>8. QED
  BY <1>6, <1>7 DEF Return

LEMMA EditorStart == EditorInit => EditorInv
<1>1. SUFFICES ASSUME EditorInit PROVE EditorInv
  OBVIOUS
<1>2. PICK ranges : /\ project = Started(ranges)
                  /\ shown = [w \in Window |-> project]
                  /\ undo = [w \in Window |-> <<>>] /\ redo = [w \in Window |-> <<>>]
                  /\ calls = {}
  BY <1>1 DEF EditorInit
<1>3. IsDocument(project)
  <2>1. PICK clips : project = [revision |-> 0, base |-> ranges, cut |-> {}, length |-> Length, clips |-> clips]
    BY <1>2 DEF Started
  <2>2. QED
    BY <2>1 DEF IsDocument
<1>4. \A w \in Window : \A k \in Restores : StackOf(k, w) = << >>
  BY <1>2 DEF StackOf
<1>5. << >> \in Seq(ToSet(<< >>)) /\ Len(<< >>) = 0
  OBVIOUS
<1>6. EditorTyped
  BY <1>2, <1>3, <1>4, <1>5 DEF EditorTyped
<1>7. StacksSound
  BY <1>4, <1>5 DEF StacksSound
<1>8. QED
  BY <1>2, <1>6, <1>7 DEF EditorInv, RestoresAreOne, ClaimsApart

LEMMA EditorStep ==
  ASSUME ~UndoneTogether, ~AgentBehind, EditorInv, [EditorNext]_editorVars
  PROVE  EditorInv'
<1>1. CASE UNCHANGED editorVars
  <2>1. UNCHANGED <<project, shown, undo, redo, calls>>
    BY <1>1 DEF editorVars
  <2>2. EditorTyped'
    BY <2>1 DEF EditorInv, EditorTyped, StackOf
  <2>3. \A n \in Nat : Claimed(n)' => Claimed(n)
    BY <2>1 DEF Claimed
  <2>4. \A c \in calls' : CallSound(c)'
    BY <2>1, <2>3, StillSound DEF EditorInv
  <2>5. RestoresAreOne' /\ ClaimsApart'
    BY <2>1 DEF EditorInv, RestoresAreOne, ClaimsApart
  <2>6. StacksSound'
    BY <2>1, <2>3, StacksKeep
  <2>7. QED
    BY <2>2, <2>4, <2>5, <2>6 DEF EditorInv
<1>2. CASE \E w \in Window : Page(w)
  BY <1>2, PageKeeps
<1>3. CASE \E c \in calls : Server(c) \/ Lose(c) \/ Return(c)
  BY <1>3, ServerKeeps, ReturnKeeps
<1>4. QED
  BY <1>1, <1>2, <1>3 DEF EditorNext

(* A restore that becomes accepted is the one that the server has accepted.         *)
LEMMA AcceptedIs ==
  ASSUME EditorInv, EditorNext, NEW c \in Accepted(Restores)
  PROVE  c \in calls /\ c.kind \in Restores /\ AcceptCall(c)
<1>1. PICK q : q = [c EXCEPT !.state = "answered", !.got = {project'}]
  OBVIOUS
<1>2. c \in calls /\ c.kind \in Restores /\ c.state = "sent" /\ q \in calls'
  BY <1>1 DEF Accepted
<1>3. CallShaped(c) /\ RestoresAreOne /\ \A d \in calls : CallShaped(d)
  BY <1>2 DEF EditorInv, CallSound
<1>4. q.window = c.window /\ q.kind = c.kind /\ q.state = "answered"
  BY <1>1, <1>3 DEF CallShaped
<1>5. \A d \in calls : d.kind \in Restores /\ d.window = c.window => d = c
  BY <1>2, <1>3 DEF RestoresAreOne
<1>6. q \notin calls
  BY <1>2, <1>4, <1>5
<1>7. ASSUME NEW d \in calls, NEW state, NEW got, Becomes(d, state, got) PROVE d = c /\ state = "answered"
  <2>1. PICK p : p = [d EXCEPT !.state = state, !.got = got]
    OBVIOUS
  <2>2. p.window = d.window /\ p.kind = d.kind /\ p.state = state
    BY <1>3, <2>1 DEF CallShaped
  <2>3. q = p
    BY <1>2, <1>6, <1>7, <2>1 DEF Becomes
  <2>4. QED
    BY <1>2, <1>4, <1>5, <2>2, <2>3
<1>8. ASSUME NEW d \in calls, Fails(d) PROVE FALSE
  BY <1>2, <1>6, <1>7, <1>8 DEF Fails
<1>9. ASSUME NEW d, Send(d) PROVE q = d
  BY <1>2, <1>6, <1>9 DEF Send
<1>10. ASSUME NEW w \in Window, Page(w) PROVE FALSE
  <2>1. ASSUME NEW k, NEW n, NEW entry, Send(CallOf(w, k, n, entry)) PROVE FALSE
    <3>1. CallOf(w, k, n, entry).state = "sent"
      BY DEF CallOf
    <3>2. QED
      BY <1>4, <1>9, <2>1, <3>1
  <2>2. ~EditTimeline(w) /\ ~EditScript(w) /\ ~ApplyProposal(w)
    BY <2>1 DEF EditTimeline, EditScript, ApplyProposal
  <2>3. ~Forget(w)
    BY <1>2, <1>6 DEF Forget
  <2>4. ~Undo(w)
    BY <2>1, <2>3 DEF Undo
  <2>5. ~Redo(w)
    BY <2>1, <2>3 DEF Redo
  <2>6. ~Open(w)
    <3>1. PICK a : a = CallOf(w, "open", 0, {})
      OBVIOUS
    <3>2. PICK d : d = [a EXCEPT !.before = {}]
      OBVIOUS
    <3>3. a = [window |-> w, kind |-> "open", before |-> {shown[w]}, expects |-> 0, entry |-> {}, state |-> "sent", got |-> {}]
      BY <3>1 DEF CallOf
    <3>4. d.state = "sent"
      BY <3>2, <3>3
    <3>5. QED
      BY <1>4, <1>9, <3>1, <3>2, <3>4 DEF Open
  <2>7. QED
    BY <1>10, <2>2, <2>4, <2>5, <2>6 DEF Page
<1>11. ASSUME NEW d \in calls, Server(d) \/ Lose(d) \/ Return(d) PROVE AcceptCall(c)
  <2>1. CASE Read(d)
    BY <1>2, <1>7, <2>1 DEF Read, Restores
  <2>2. CASE AcceptCall(d)
    BY <1>7, <2>2 DEF AcceptCall
  <2>3. CASE Refuse(d)
    <3>1. ~Becomes(d, "conflict", {})
      BY <1>7
    <3>2. QED
      BY <1>8, <2>3, <3>1 DEF Refuse
  <2>4. CASE Reload(d)
    BY <1>7, <2>4 DEF Reload
  <2>5. CASE Lose(d)
    BY <1>8, <2>5 DEF Lose
  <2>6. CASE Return(d)
    BY <1>2, <1>6, <2>6 DEF Return
  <2>7. QED
    BY <1>11, <2>1, <2>2, <2>3, <2>4, <2>5, <2>6 DEF Server
<1>12. QED
  BY <1>2, <1>10, <1>11 DEF EditorNext

(* An accepted undo takes back exactly one change, the one its entry names, and a    *)
(* redo brings exactly it back (RestoreIsExact): the windows undo one edit at a time *)
(* and apply a proposal at the revision they show only.                             *)
THEOREM UndoIsExact == ~UndoneTogether /\ ~AgentBehind => (EditorSpec => RestoreIsExact)
<1>1. SUFFICES ASSUME ~UndoneTogether, ~AgentBehind PROVE EditorSpec => RestoreIsExact
  OBVIOUS
<1>2. EditorInit => EditorInv
  BY EditorStart
<1>3. EditorInv /\ [EditorNext]_editorVars => EditorInv'
  BY <1>1, EditorStep
<1>4. ASSUME EditorInv, [EditorNext]_editorVars
      PROVE  [\A c \in Accepted(Restores) : \A entry \in c.entry :
                /\ entry.after.revision = entry.before.revision + 1
                /\ Content(project) = Content(IF c.kind = "undo" THEN entry.after ELSE entry.before)]_editorVars
  <2>1. CASE UNCHANGED editorVars
    BY <2>1
  <2>2. CASE EditorNext
    <3>1. ASSUME NEW c \in Accepted(Restores), NEW entry \in c.entry
          PROVE  /\ entry.after.revision = entry.before.revision + 1
                 /\ Content(project) = Content(IF c.kind = "undo" THEN entry.after ELSE entry.before)
      <4>1. c \in calls /\ c.kind \in Restores /\ AcceptCall(c)
        BY <1>4, <2>2, <3>1, AcceptedIs
      <4>2. EntryKnown(entry) /\ Timely(c.kind, entry, c.expects) /\ c.expects = project.revision
        BY <1>4, <3>1, <4>1 DEF EditorInv, CallSound, AcceptCall
      <4>3. QED
        BY <4>2 DEF EntryKnown, Timely, Side
    <3>2. QED
      BY <3>1
  <2>3. QED
    BY <1>4, <2>1, <2>2
<1>5. QED
  BY <1>2, <1>3, <1>4, PTL DEF EditorSpec, RestoreIsExact
==============================================================================
