----------------------------- MODULE CampaignProofs -----------------------------
(* Proofs about Campaign, for any number of Missions, of requests to run it, of   *)
(* workers a run may have, and of deaths of the server; and, from "What           *)
(* autonomous plans change" on, about EditProtection, what one such Mission does  *)
(* to its project, for any plans.                                                 *)
EXTENDS Campaign, EditProtection, FiniteSetTheorems, TLAPS

-------------------------------------------------------------------------------
(* The inductive invariant. *)
Busy == {"cancelling", "advancing", "stepping", "finishing"}
AtRest(i) == missions[i].status \in Outcomes

(* A run that has not ended is the one of the claim. *)
Claimed == \A c \in Call : run[c].at # "idle" => claim = c

(* While a run works the Campaign is running: no request brings its Missions back. *)
Underway == \A c \in Call : run[c].at = "working" => status = "running"

(* A run that is to begin has taken no Mission and has no workers. *)
Unbegun ==
  \A c \in Call : run[c].at = "claimed" => run[c].next = 1 /\ \A s \in Slot : Has(c, s, "over")

(* Each Mission that the workers of a run have taken is at rest or one of them has  *)
(* it, whatever the workers of runs before it do; and a worker is over only when all *)
(* are taken.                                                                       *)
Accounted ==
  \A c \in Call : run[c].at = "working" =>
    /\ \A s \in Slot : Has(c, s, "over") => run[c].next > Missions
    /\ \A i \in Index : i < run[c].next =>
         AtRest(i) \/ \E s \in Slot : work[c][s].i = i /\ work[c][s].at \in Busy

(* The result a worker is to record is one, and it is true. *)
Earned ==
  \A c \in Call, s \in Slot : Has(c, s, "finishing") =>
    /\ work[c][s].result # "none"
    /\ work[c][s].result = "completed" => truth[work[c][s].i] = "completed"

CampaignInv ==
  /\ TypeOK
  /\ Claimed /\ Unbegun /\ Underway /\ Accounted
  /\ Earned /\ ReportIsTrue

-------------------------------------------------------------------------------
(* What a step does to the workers: it gives one of them a record. *)
Worker == [at : {"over"} \cup Busy \cup {"taking"}, i : Index, result : Outcomes \cup {"none"}]

WorkerBecomes(c, s, w) ==
  /\ work' \in [Call -> [Slot -> Worker]]
  /\ work'[c][s] = w
  /\ \A d \in Call, t \in Slot : <<d, t>> # <<c, s>> => work'[d][t] = work[d][t]

LEMMA WorkerTypes ==
  ASSUME TypeOK
  PROVE  work \in [Call -> [Slot -> Worker]]
BY DEF TypeOK, Worker, Busy

LEMMA WorkerChanges ==
  ASSUME TypeOK, NEW c \in Call, NEW s \in Slot, NEW w \in Worker,
         work' = [work EXCEPT ![c][s] = w]
  PROVE  WorkerBecomes(c, s, w)
BY WorkerTypes DEF WorkerBecomes

LEMMA OverIsWorker == Over \in Worker /\ Over.at = "over" /\ [Over EXCEPT !.at = "taking"] \in Worker
BY SizeAssumption DEF Over, Worker, Index

LEMMA NowBecomes ==
  ASSUME TypeOK, NEW c \in Call, NEW s \in Slot, NEW at \in Busy, Now(c, s, at)
  PROVE  \E w \in Worker : WorkerBecomes(c, s, w) /\ w.at = at /\ w.i = work[c][s].i
<1> DEFINE w == [work[c][s] EXCEPT !.at = at]
<1>1. work[c][s] \in Worker
  BY WorkerTypes
<1>2. w \in Worker /\ w.at = at /\ w.i = work[c][s].i
  BY <1>1 DEF Worker
<1>3. work' = [work EXCEPT ![c][s] = w]
  BY DEF Now
<1> HIDE DEF w
<1>4. QED
  BY <1>2, <1>3, WorkerChanges

LEMMA EndsBecomes ==
  ASSUME TypeOK, NEW c \in Call, NEW s \in Slot, NEW result \in Outcomes, Ends(c, s, result)
  PROVE  \E w \in Worker : WorkerBecomes(c, s, w) /\ w.at = "finishing" /\ w.i = work[c][s].i /\ w.result = result
<1> DEFINE w == [work[c][s] EXCEPT !.at = "finishing", !.result = result]
<1>1. work[c][s] \in Worker
  BY WorkerTypes
<1>2. w \in Worker /\ w.at = "finishing" /\ w.i = work[c][s].i /\ w.result = result
  BY <1>1 DEF Worker, Busy
<1>3. work' = [work EXCEPT ![c][s] = w]
  BY DEF Ends
<1> HIDE DEF w
<1>4. QED
  BY <1>2, <1>3, WorkerChanges

LEMMA PrepareBecomes ==
  ASSUME TypeOK, NEW c \in Call, NEW s \in Slot, Prepare(c, s)
  PROVE  \E w \in Worker : WorkerBecomes(c, s, w) /\ w.i = run[c].next /\ w.at = Preparation(run[c].next)
<1> DEFINE i == run[c].next
           w == [work[c][s] EXCEPT !.i = i, !.at = Preparation(i)]
<1>1. work[c][s] \in Worker /\ i \in Index
  BY WorkerTypes, SizeAssumption DEF TypeOK, Prepare, Index
<1>2. Preparation(i) \in {"cancelling", "advancing", "taking"}
  BY DEF Preparation
<1>3. w \in Worker /\ w.i = i /\ w.at = Preparation(i)
  BY <1>1, <1>2 DEF Worker, Busy
<1>4. work' = [work EXCEPT ![c][s] = w]
  BY DEF Prepare
<1> HIDE DEF w
<1>5. QED
  BY <1>3, <1>4, WorkerChanges
-------------------------------------------------------------------------------
(* What a worker has stays its own while it goes on, and a run one of whose      *)
(* workers throws does not go on.                                                *)
LEMMA BusyKeeps ==
  ASSUME CampaignInv, NEW c \in Call, NEW s \in Slot, NEW w \in Worker,
         WorkerBecomes(c, s, w), w.at \in Busy, work[c][s].at \in Busy, w.i = work[c][s].i,
         missions' = missions, run' = run, status' = status, claim' = claim
  PROVE  Claimed' /\ Unbegun' /\ Underway' /\ Accounted'
<1>1. Claimed' /\ Underway'
  BY DEF CampaignInv, Claimed, Underway
<1>2. \A d \in Call, t \in Slot : work'[d][t].at \in Busy <=> work[d][t].at \in Busy
  BY DEF WorkerBecomes
<1>3. \A d \in Call, t \in Slot : work'[d][t].i = work[d][t].i
  BY DEF WorkerBecomes
<1>4. \A d \in Call, t \in Slot : work'[d][t].at = "over" => work[d][t].at = "over"
  BY DEF WorkerBecomes, Busy
<1>5. Accounted'
  BY <1>2, <1>3, <1>4 DEF CampaignInv, Accounted, Has, AtRest
<1>6. Unbegun'
  <2>1. \A d \in Call, t \in Slot : work[d][t].at = "over" => work'[d][t].at = "over"
    BY DEF WorkerBecomes, Busy
  <2>2. QED
    BY <2>1 DEF CampaignInv, Unbegun, Has
<1>7. QED
  BY <1>1, <1>5, <1>6

LEMMA ThrowsKeeps ==
  ASSUME CampaignInv, NEW c \in Call, NEW s \in Slot, Throws(c, s),
         missions' = missions, status' = status, claim' = claim
  PROVE  /\ run' \in [Call -> [at : {"idle", "claimed", "working", "releasing"}, next : 1..(Missions + 1)]]
         /\ WorkerBecomes(c, s, Over)
         /\ Claimed' /\ Unbegun' /\ Underway' /\ Accounted'
<1>1. TypeOK
  BY DEF CampaignInv
<1>2. WorkerBecomes(c, s, Over)
  BY <1>1, OverIsWorker, WorkerChanges DEF Throws
<1>3. run' \in [Call -> [at : {"idle", "claimed", "working", "releasing"}, next : 1..(Missions + 1)]]
  BY <1>1 DEF Throws, TypeOK
<1>4. \A d \in Call :
        /\ run'[d].next = run[d].next
        /\ run'[d].at = "working" => d # c /\ run[d].at = "working"
        /\ run'[d].at = "claimed" => run[d].at = "claimed"
        /\ run'[d].at # "idle" => run[d].at # "idle"
  BY <1>1 DEF Throws, TypeOK
<1>5. Claimed' /\ Underway'
  BY <1>4 DEF CampaignInv, Claimed, Underway
<1>6. Accounted'
  BY <1>2, <1>4 DEF CampaignInv, Accounted, Has, AtRest, WorkerBecomes
<1>7. Unbegun'
  <2>1. Over.at = "over"
    BY DEF Over
  <2>2. \A d \in Call, t \in Slot : work[d][t].at = "over" => work'[d][t].at = "over"
    BY <1>2, <2>1 DEF WorkerBecomes
  <2>3. QED
    BY <1>4, <2>2 DEF CampaignInv, Unbegun, Has
<1>8. QED
  BY <1>2, <1>3, <1>5, <1>6, <1>7

-------------------------------------------------------------------------------
(* The steps of a run. *)
RunState == [at : {"idle", "claimed", "working", "releasing"}, next : 1..(Missions + 1)]

(* A claim is taken only when no run goes on. *)
LEMMA ClaimKeeps ==
  ASSUME CampaignInv, NEW c \in Call, Claim(c)
  PROVE  CampaignInv'
<1> USE DEF CampaignInv
<1>1. run' = [run EXCEPT ![c] = [at |-> "claimed", next |-> 1]] /\ claim' = c
  BY DEF Claim
<1>2. \A d \in Call : run[d].at = "idle"
  BY NobodyAssumption DEF Claim, Claimed
<1>3. [at |-> "claimed", next |-> 1] \in RunState
  BY SizeAssumption DEF RunState
<1>4. TypeOK'
  BY <1>1, <1>3 DEF TypeOK, Claim, campaign, mission, RunState
<1>5. \A d \in Call : run'[d].at # "working" /\ (run'[d].at # "idle" => d = c /\ run'[d].next = 1)
  BY <1>1, <1>2 DEF TypeOK
<1>6. Claimed' /\ Underway' /\ Accounted'
  BY <1>1, <1>5 DEF Claimed, Underway, Accounted
<1>7. Unbegun'
  BY <1>5 DEF Unbegun, Claim, Has
<1>8. Earned' /\ ReportIsTrue'
  BY DEF Claim, campaign, mission, Earned, ReportIsTrue, Has
<1>9. QED
  BY <1>4, <1>6, <1>7, <1>8

LEMMA BeginKeeps ==
  ASSUME CampaignInv, NEW c \in Call, Begin(c)
  PROVE  CampaignInv'
<1> USE DEF CampaignInv
<1> DEFINE taking == [s \in Slot |-> [Over EXCEPT !.at = "taking"]]
<1>1. taking \in [Slot -> Worker] /\ \A s \in Slot : taking[s].at = "taking"
  BY OverIsWorker DEF Over
<1>2. run[c].at = "claimed" /\ run[c].next = 1 /\ \A d \in Call : d # c => run[d].at = "idle"
  BY DEF Begin, Claimed, Unbegun
<1>3. missions' = missions /\ truth' = truth /\ claim' = claim
  BY DEF Begin, mission
<1> HIDE DEF taking
<1>4. CASE status \in {"draft", "queued", "running"}
  <2>1. run' = [run EXCEPT ![c].at = "working"] /\ work' = [work EXCEPT ![c] = taking] /\ status' = "running"
    BY <1>4 DEF Begin, taking
  <2>2. work' \in [Call -> [Slot -> Worker]] /\ work'[c] = taking /\ \A d \in Call : d # c => work'[d] = work[d]
    BY <1>1, <2>1, WorkerTypes
  <2>3. run' \in [Call -> RunState] /\ run'[c].next = 1 /\ run'[c].at = "working" /\ \A d \in Call : d # c => run'[d] = run[d]
    BY <1>2, <2>1 DEF RunState, TypeOK
  <2>4. TypeOK'
    BY <2>1, <2>2, <2>3 DEF TypeOK, Begin, mission, Worker, Busy, CampaignStatus, RunState
  <2>5. Claimed' /\ Underway' /\ Unbegun'
    BY <1>2, <1>3, <2>1, <2>3 DEF Claimed, Underway, Unbegun
  <2>6. Accounted'
    BY <1>1, <1>2, <2>2, <2>3 DEF Accounted, Has, Index
  <2>7. Earned'
    BY <1>1, <1>3, <2>2 DEF Earned, Has
  <2>8. ReportIsTrue'
    BY <1>3, <2>1 DEF ReportIsTrue, Settled
  <2>9. QED
    BY <2>4, <2>5, <2>6, <2>7, <2>8
<1>5. CASE status \notin {"draft", "queued", "running"}
  <2>1. run' = [run EXCEPT ![c].at = "releasing"] /\ work' = work /\ status' = status
    BY <1>5 DEF Begin
  <2>2. run' \in [Call -> RunState] /\ run'[c].at = "releasing" /\ \A d \in Call : d # c => run'[d] = run[d]
    BY <2>1 DEF RunState, TypeOK
  <2>3. TypeOK'
    BY <2>1, <2>2 DEF TypeOK, Begin, mission, RunState
  <2>4. Claimed' /\ Underway' /\ Unbegun' /\ Accounted'
    BY <1>2, <1>3, <2>2 DEF Claimed, Underway, Unbegun, Accounted
  <2>5. Earned' /\ ReportIsTrue'
    BY <1>3, <2>1 DEF Earned, ReportIsTrue, Has
  <2>6. QED
    BY <2>3, <2>4, <2>5
<1>6. QED
  BY <1>4, <1>5

(* When the workers are over, each Mission was taken, and is at rest.             *)
LEMMA SettleKeeps ==
  ASSUME CampaignInv, NEW c \in Call, Settle(c)
  PROVE  CampaignInv'
<1> USE DEF CampaignInv
<1>1. /\ run[c].at = "working" /\ \A s \in Slot : Has(c, s, "over")
      /\ run' = [run EXCEPT ![c].at = "releasing"]
      /\ missions' = missions /\ claim' = claim /\ truth' = truth /\ work' = work
  BY DEF Settle, mission
<1>2. 1 \in Slot
  BY BoundAssumption DEF Slot
<1>3. run[c].next > Missions /\ run[c].next \in Nat
  BY <1>1, <1>2, SizeAssumption DEF Accounted, TypeOK
<1>4. \A i \in Index : AtRest(i)
  BY <1>1, <1>3, SizeAssumption DEF Accounted, Has, Busy, Index
<1>5. status' \in Settled
  BY DEF Settle, Aggregate, Settled
<1>6. run' \in [Call -> RunState] /\ run'[c].at = "releasing" /\ \A d \in Call : d # c => run'[d] = run[d]
  BY <1>1 DEF RunState, TypeOK
<1>7. TypeOK'
  BY <1>5, <1>6 DEF TypeOK, Settle, mission, RunState, CampaignStatus
<1>8. \A d \in Call : d # c => run[d].at = "idle"
  BY <1>1 DEF Claimed
<1>9. Claimed' /\ Underway' /\ Unbegun' /\ Accounted'
  BY <1>1, <1>6, <1>8 DEF Claimed, Underway, Unbegun, Accounted
<1>10. Earned'
  BY <1>1 DEF Earned, Has
<1>11. ReportIsTrue'
  BY <1>1, <1>4 DEF ReportIsTrue, AtRest, Outcomes
<1>12. QED
  BY <1>7, <1>9, <1>10, <1>11

LEMMA ReleaseKeeps ==
  ASSUME CampaignInv, NEW c \in Call, Release(c)
  PROVE  CampaignInv'
<1> USE DEF CampaignInv
<1>1. run' = [run EXCEPT ![c].at = "idle"] /\ run[c].at = "releasing"
  BY DEF Release
<1>2. run' \in [Call -> RunState] /\ run'[c].at = "idle" /\ \A d \in Call : d # c => run'[d] = run[d]
  BY <1>1 DEF RunState, TypeOK
<1>3. \A d \in Call : run'[d].at = "idle"
  BY <1>1, <1>2 DEF Claimed
<1>4. TypeOK'
  BY <1>2 DEF TypeOK, Release, campaign, mission, RunState
<1>5. Claimed' /\ Underway' /\ Unbegun' /\ Accounted'
  BY <1>3 DEF Claimed, Underway, Unbegun, Accounted
<1>6. Earned' /\ ReportIsTrue'
  BY DEF Release, campaign, mission, Earned, ReportIsTrue, Has
<1>7. QED
  BY <1>4, <1>5, <1>6

LEMMA WriteFailsKeeps ==
  ASSUME CampaignInv, NEW c \in Call, WriteFails(c)
  PROVE  CampaignInv'
<1> USE DEF CampaignInv
<1>1. /\ missions' = missions /\ status' = status /\ claim' = claim /\ truth' = truth
      /\ stepper' = stepper /\ notices' = notices /\ requests' = requests /\ earned' = earned
      /\ faults' \in 0..MaxFaults
  BY BoundAssumption DEF WriteFails, Fault, campaign, mission, TypeOK
<1>2. CASE /\ run[c].at = "claimed" \/ run[c].at = "working" \/ run[c].at = "releasing"
           /\ \/ run' = [run EXCEPT ![c].at = "releasing"]
              \/ run[c].at = "releasing" /\ run' = [run EXCEPT ![c].at = "idle"]
           /\ work' = work
  <2>1. run' \in [Call -> RunState] /\ run'[c].at \in {"releasing", "idle"} /\ \A d \in Call : d # c => run'[d] = run[d]
    <3>1. run \in [Call -> RunState]
      BY DEF RunState, TypeOK
    <3>2. CASE run' = [run EXCEPT ![c].at = "releasing"]
      BY <3>1, <3>2 DEF RunState
    <3>3. CASE run' = [run EXCEPT ![c].at = "idle"]
      BY <3>1, <3>3 DEF RunState
    <3>4. QED
      BY <1>2, <3>2, <3>3
  <2>2. TypeOK'
    BY <1>1, <1>2, <2>1 DEF TypeOK, RunState
  <2>3. run[c].at # "idle" /\ \A d \in Call : d # c => run[d].at = "idle"
    BY <1>2 DEF Claimed
  <2>4. Claimed' /\ Underway' /\ Unbegun' /\ Accounted'
    BY <1>1, <2>1, <2>3 DEF Claimed, Underway, Unbegun, Accounted
  <2>5. Earned' /\ ReportIsTrue'
    BY <1>1, <1>2 DEF Earned, ReportIsTrue, Has
  <2>6. QED
    BY <2>2, <2>4, <2>5
<1>3. ASSUME NEW s \in Slot, Throws(c, s) PROVE CampaignInv'
  <2>1. run' \in [Call -> RunState] /\ WorkerBecomes(c, s, Over) /\ Claimed' /\ Unbegun' /\ Underway' /\ Accounted'
    BY <1>1, <1>3, ThrowsKeeps DEF RunState
  <2>2. TypeOK'
    BY <1>1, <2>1 DEF TypeOK, WorkerBecomes, Worker, Busy, RunState
  <2>3. Earned'
    BY <1>1, <2>1, OverIsWorker DEF Earned, Has, WorkerBecomes
  <2>4. ReportIsTrue'
    BY <1>1 DEF ReportIsTrue
  <2>5. QED
    BY <2>1, <2>2, <2>3, <2>4
<1>4. QED
  BY <1>2, <1>3 DEF WriteFails

-------------------------------------------------------------------------------
(* The steps of a worker. *)
LEMMA TakeKeeps ==
  ASSUME CampaignInv, NEW c \in Call, NEW s \in Slot, Take(c, s)
  PROVE  CampaignInv'
<1> USE DEF CampaignInv
<1>1. /\ missions' = missions /\ status' = status /\ claim' = claim /\ run' = run
      /\ truth' = truth /\ stepper' = stepper
      /\ Has(c, s, "taking") /\ run[c].next > Missions
  BY DEF Take, campaign, mission
<1>2. WorkerBecomes(c, s, Over) /\ Over.at = "over"
  BY OverIsWorker, WorkerChanges DEF Take
<1>3. TypeOK'
  BY <1>1, <1>2 DEF TypeOK, Take, WorkerBecomes, Worker, Busy
<1>4. Claimed' /\ Underway'
  BY <1>1 DEF Claimed, Underway
<1>5. Unbegun'
  BY <1>1, <1>2 DEF Unbegun, Has, WorkerBecomes
<1>6. \A d \in Call, t \in Slot : work[d][t].at \in Busy => work'[d][t] = work[d][t]
  BY <1>1, <1>2 DEF WorkerBecomes, Has, Busy
<1>7. Accounted'
  <2>1. \A d \in Call, t \in Slot : work'[d][t].at = "over" => (d = c /\ t = s) \/ work[d][t].at = "over"
    BY <1>2 DEF WorkerBecomes
  <2>2. QED
    BY <1>1, <1>6, <2>1 DEF Accounted, Has, AtRest
<1>8. Earned'
  BY <1>1, <1>2 DEF Earned, Has, WorkerBecomes
<1>9. ReportIsTrue'
  BY <1>1 DEF ReportIsTrue
<1>10. QED
  BY <1>3, <1>4, <1>5, <1>7, <1>8, <1>9

(* A Mission is prepared only while it is pending or runs; the one that is passed *)
(* over is at rest.                                                               *)
LEMMA PrepareKeeps ==
  ASSUME CampaignInv, NEW c \in Call, NEW s \in Slot, Prepare(c, s)
  PROVE  CampaignInv'
<1> USE DEF CampaignInv
<1> DEFINE i == run[c].next
<1>1. /\ status' = status /\ claim' = claim /\ truth' = truth /\ stepper' = stepper
      /\ Has(c, s, "taking") /\ i \in Index
      /\ run' = [run EXCEPT ![c].next = i + 1]
      /\ missions' = IF Preparation(i) = "advancing" THEN [missions EXCEPT ![i].status = "running"] ELSE missions
  BY SizeAssumption DEF Prepare, campaign, mission, TypeOK, Index
<1>2. PICK w \in Worker : WorkerBecomes(c, s, w) /\ w.i = i /\ w.at = Preparation(i)
  BY PrepareBecomes
<1>3. Preparation(i) \in {"cancelling", "advancing", "taking"}
  BY DEF Preparation
<1>4. missions[i] \in MissionRun /\ (missions[i].cancelled => missions[i].status \in {"running", "cancelled"})
  BY <1>1 DEF TypeOK
<1>5. Preparation(i) = "advancing" => missions[i].status \in {"pending", "running"} /\ ~missions[i].cancelled
  BY <1>4 DEF Preparation, MissionRun
<1>6. Preparation(i) = "taking" => AtRest(i)
  BY <1>4 DEF Preparation, MissionRun, AtRest
<1>7. run' \in [Call -> RunState] /\ run'[c].next = i + 1 /\ run'[c].at = run[c].at /\ \A d \in Call : d # c => run'[d] = run[d]
  <2>1. i + 1 \in 1..(Missions + 1)
    BY <1>1, SizeAssumption DEF Index
  <2>2. QED
    BY <1>1, <2>1, ZenonT(40) DEF TypeOK, RunState
<1> HIDE DEF i
<1>8. /\ missions' \in [Index -> MissionRun]
      /\ \A j \in Index : j # i => missions'[j] = missions[j]
      /\ missions'[i].cancelled = missions[i].cancelled
      /\ missions'[i].status \in {missions[i].status, "running"}
      /\ missions'[i] = missions[i] \/ (missions'[i].status = "running" /\ ~missions[i].cancelled)
      /\ missions'[i] = missions[i] \/ missions[i].status \in {"pending", "running"}
  <2>1. CASE Preparation(i) # "advancing"
    BY <1>1, <2>1 DEF TypeOK
  <2>2. CASE Preparation(i) = "advancing"
    <3> DEFINE m == [missions[i] EXCEPT !.status = "running"]
    <3>1. m \in MissionRun /\ m.status = "running" /\ m.cancelled = missions[i].cancelled
      BY <1>4 DEF MissionRun
    <3>2. missions' = [missions EXCEPT ![i] = m]
      BY <1>1, <2>2
    <3> HIDE DEF m
    <3>3. missions \in [Index -> MissionRun]
      BY DEF TypeOK
    <3>4. missions' \in [Index -> MissionRun] /\ missions'[i] = m /\ \A j \in Index : j # i => missions'[j] = missions[j]
      BY <1>1, <3>1, <3>2, <3>3
    <3>5. QED
      BY <1>5, <2>2, <3>1, <3>4
  <2>3. QED
    BY <2>1, <2>2
<1>9. TypeOK'
  <2>1. \A j \in Index : /\ missions'[j].cancelled => missions'[j].status \in {"running", "cancelled"}
                         /\ missions'[j].status = "cancelled" => missions'[j].cancelled
    BY <1>1, <1>8 DEF TypeOK
  <2>2. run' \in [Call -> [at : {"idle", "claimed", "working", "releasing"}, next : 1..(Missions + 1)]]
    BY <1>7, Zenon DEF RunState
  <2>3. work' \in [Call -> [Slot -> [at : {"over", "taking", "cancelling", "advancing", "stepping", "finishing"},
                                     i : Index, result : Outcomes \union {"none"}]]]
    <3>1. Worker = [at : {"over", "taking", "cancelling", "advancing", "stepping", "finishing"},
                    i : Index, result : Outcomes \union {"none"}]
      BY DEF Worker, Busy
    <3>2. QED
      BY <1>2, <3>1, Zenon DEF WorkerBecomes
  <2>4. missions' \in [Index -> MissionRun]
    BY <1>8
  <2>5. UNCHANGED <<status, claim, truth, stepper, notices, earned, requests, faults>>
    BY DEF Prepare, mission
  <2>6. QED
    BY <2>1, <2>2, <2>3, <2>4, <2>5, SMTT(30) DEF TypeOK
<1>10. Claimed' /\ Underway'
  BY <1>1, <1>7 DEF Claimed, Underway
<1>11. \A d \in Call : run[d].at = "claimed" => d # c
  BY <1>1 DEF Unbegun, Has
<1>12. Unbegun'
  BY <1>2, <1>7, <1>11 DEF Unbegun, Has, WorkerBecomes
<1>13. \A j \in Index : AtRest(j) => missions'[j] = missions[j]
  BY <1>8 DEF AtRest, Outcomes
<1>14. Accounted'
  <2> SUFFICES ASSUME NEW d \in Call, run'[d].at = "working"
               PROVE  /\ \A t \in Slot : work'[d][t].at = "over" => run'[d].next > Missions
                      /\ \A j \in Index : j < run'[d].next =>
                           missions'[j].status \in Outcomes \/ \E t \in Slot : work'[d][t].i = j /\ work'[d][t].at \in Busy
    BY DEF Accounted, Has, AtRest
  <2>1. run[d].at = "working" /\ run[d].next \in Nat /\ i \in Nat
    BY <1>1, <1>7 DEF TypeOK, Index
  <2>2. ASSUME NEW t \in Slot, work'[d][t].at = "over" PROVE run'[d].next > Missions
    <3>1. work[d][t].at = "over"
      BY <1>2, <1>3, <2>2 DEF WorkerBecomes
    <3>2. run[d].next > Missions
      BY <2>1, <3>1 DEF Accounted, Has
    <3>3. QED
      BY <1>7, <2>1, <3>2, SizeAssumption DEF i
  <2>3. ASSUME NEW j \in Index, j < run'[d].next, missions'[j].status \notin Outcomes
        PROVE  \E t \in Slot : work'[d][t].i = j /\ work'[d][t].at \in Busy
    <3>1. CASE d = c /\ j = i
      <4>1. Preparation(i) # "taking"
        BY <1>6, <1>13, <2>3, <3>1 DEF AtRest
      <4>2. work'[d][s].i = j /\ work'[d][s].at \in Busy
        BY <1>2, <1>3, <3>1, <4>1 DEF WorkerBecomes, Busy
      <4>3. QED
        BY <4>2
    <3>2. CASE ~(d = c /\ j = i)
      <4>1. j < run[d].next
        BY <1>7, <2>1, <2>3, <3>2 DEF i, Index
      <4>2. ~AtRest(j)
        BY <1>13, <2>3 DEF AtRest
      <4>3. PICK t \in Slot : work[d][t].i = j /\ work[d][t].at \in Busy
        BY <2>1, <4>1, <4>2 DEF Accounted
      <4>4. work'[d][t] = work[d][t]
        BY <1>1, <1>2, <4>3 DEF WorkerBecomes, Has, Busy
      <4>5. QED
        BY <4>3, <4>4
    <3>3. QED
      BY <3>1, <3>2
  <2>4. QED
    BY <2>2, <2>3
<1>15. Earned'
  BY <1>1, <1>2, <1>3 DEF Earned, Has, WorkerBecomes
<1>16. ReportIsTrue'
  BY <1>1, <1>8 DEF ReportIsTrue
<1>17. QED
  BY <1>9, <1>10, <1>12, <1>14, <1>15, <1>16

(* A worker that goes on with its Mission, or has its result. *)
Truth == {"draft", "ready", "running", "waiting-review", "blocked", "completed", "cancelled"}
Kept == \A i \in Index : truth[i] = "completed" => truth'[i] = "completed"

LEMMA GoingOnKeeps ==
  ASSUME CampaignInv, NEW c \in Call, NEW s \in Slot, NEW w \in Worker,
         WorkerBecomes(c, s, w), w.at \in Busy, work[c][s].at \in Busy, w.i = work[c][s].i,
         w.at = "finishing" => w.result # "none" /\ (w.result = "completed" => truth'[w.i] = "completed"),
         UNCHANGED <<campaign, claim, run, notices, requests, faults>>,
         truth' \in [Index -> Truth], stepper' \in [Index -> (Call \X Slot) \union {None}],
         earned' \subseteq Index, Kept
  PROVE  CampaignInv'
<1> USE DEF CampaignInv, campaign
<1>1. TypeOK'
  BY DEF TypeOK, Truth, WorkerBecomes, Worker, Busy
<1>2. Claimed' /\ Unbegun' /\ Underway' /\ Accounted'
  BY BusyKeeps
<1>3. Earned'
  <2> SUFFICES ASSUME NEW d \in Call, NEW t \in Slot, work'[d][t].at = "finishing"
               PROVE  /\ work'[d][t].result # "none"
                      /\ work'[d][t].result = "completed" => truth'[work'[d][t].i] = "completed"
    BY DEF Earned, Has
  <2>1. CASE <<d, t>> = <<c, s>>
    BY <2>1 DEF WorkerBecomes
  <2>2. CASE <<d, t>> # <<c, s>>
    <3>1. work'[d][t] = work[d][t] /\ work[d][t].i \in Index
      BY <2>2, WorkerTypes DEF WorkerBecomes, Worker
    <3>2. QED
      BY <3>1 DEF Earned, Has, Kept
  <2>3. QED
    BY <2>1, <2>2
<1>4. ReportIsTrue'
  BY DEF ReportIsTrue, Kept
<1>5. QED
  BY <1>1, <1>2, <1>3, <1>4

LEMMA WorkerOf ==
  ASSUME TypeOK, NEW c \in Call, NEW s \in Slot
  PROVE  work[c][s] \in Worker /\ work[c][s].i \in Index /\ truth \in [Index -> Truth]
BY WorkerTypes DEF Worker, TypeOK, Truth

LEMMA StopKeeps ==
  ASSUME CampaignInv, NEW c \in Call, NEW s \in Slot, Stop(c, s)
  PROVE  CampaignInv'
<1> DEFINE i == work[c][s].i
<1>1. TypeOK /\ i \in Index /\ truth \in [Index -> Truth] /\ work[c][s].at = "cancelling"
  BY WorkerOf DEF CampaignInv, Stop, Has
<1>2. UNCHANGED <<campaign, claim, stepper, notices, requests, faults, earned>>
  BY DEF Stop
<1>3. CASE truth[i] = "completed"
  <2>1. Throws(c, s) /\ truth' = truth
    BY <1>3 DEF Stop
  <2>2. run' \in [Call -> RunState] /\ WorkerBecomes(c, s, Over) /\ Claimed' /\ Unbegun' /\ Underway' /\ Accounted'
    BY <1>2, <2>1, ThrowsKeeps DEF campaign, RunState
  <2>3. TypeOK'
    BY <1>1, <1>2, <2>1, <2>2 DEF TypeOK, WorkerBecomes, Worker, Busy, RunState, campaign
  <2>4. Earned'
    BY <2>1, <2>2, OverIsWorker DEF CampaignInv, Earned, Has, WorkerBecomes
  <2>5. ReportIsTrue'
    BY <1>2, <2>1 DEF CampaignInv, ReportIsTrue, campaign
  <2>6. QED
    BY <2>2, <2>3, <2>4, <2>5 DEF CampaignInv
<1>4. CASE truth[i] # "completed"
  <2>1. truth' = [truth EXCEPT ![i] = "cancelled"] /\ Ends(c, s, "cancelled") /\ run' = run
    BY <1>4 DEF Stop
  <2>2. PICK w \in Worker : WorkerBecomes(c, s, w) /\ w.at = "finishing" /\ w.i = i /\ w.result = "cancelled"
    BY <1>1, <2>1, EndsBecomes DEF Outcomes
  <2>3. Kept /\ truth' \in [Index -> Truth]
    BY <1>1, <1>4, <2>1 DEF Kept, Truth
  <2> HIDE DEF i
  <2>4. QED
    BY <1>1, <1>2, <2>1, <2>2, <2>3, GoingOnKeeps DEF i, Busy, TypeOK
<1>5. QED
  BY <1>3, <1>4

(* What the executor leaves in the Mission's file is not changed once it is       *)
(* "completed", and "completed" is what a worker hears only when it is there.      *)
LEMMA ComesTo ==
  ASSUME CampaignInv, NEW c \in Call, NEW s \in Slot, NEW word \in Truth \cap Outcomes,
         work[c][s].at \in Busy, truth[work[c][s].i] # "completed" \/ word = "completed",
         truth' = [truth EXCEPT ![work[c][s].i] = word], Ends(c, s, word),
         UNCHANGED <<campaign, claim, run, notices, requests, faults>>,
         stepper' \in [Index -> (Call \X Slot) \union {None}], earned' \subseteq Index
  PROVE  CampaignInv'
<1> DEFINE i == work[c][s].i
<1>1. TypeOK /\ i \in Index /\ truth \in [Index -> Truth]
  BY WorkerOf DEF CampaignInv
<1>2. PICK w \in Worker : WorkerBecomes(c, s, w) /\ w.at = "finishing" /\ w.i = i /\ w.result = word
  BY <1>1, EndsBecomes
<1>3. Kept /\ truth' \in [Index -> Truth] /\ truth'[i] = word
  BY <1>1 DEF Kept, Truth
<1>4. word # "none"
  BY DEF Outcomes
<1> HIDE DEF i
<1>5. QED
  BY <1>1, <1>2, <1>3, <1>4, GoingOnKeeps DEF i, Busy

LEMMA AdvanceKeeps ==
  ASSUME CampaignInv, NEW c \in Call, NEW s \in Slot, Advance(c, s)
  PROVE  CampaignInv'
<1> DEFINE i == work[c][s].i
<1>1. TypeOK /\ i \in Index /\ truth \in [Index -> Truth] /\ work[c][s].at = "advancing" /\ work[c][s].at \in Busy
  BY WorkerOf DEF CampaignInv, Advance, Has, Busy
<1>2. UNCHANGED <<campaign, claim, run, notices, requests, faults>>
  BY DEF Advance
<1>3. earned' \subseteq Index
  BY <1>1 DEF Advance, TypeOK
<1>4. stepper \in [Index -> (Call \X Slot) \union {None}]
  BY <1>1 DEF TypeOK
<1>5. CASE truth[i] \in {"draft", "completed", "cancelled"} /\ Ends(c, s, "failed") /\ UNCHANGED <<truth, stepper>>
  <2>1. PICK w \in Worker : WorkerBecomes(c, s, w) /\ w.at = "finishing" /\ w.i = i /\ w.result = "failed"
    BY <1>1, <1>5, EndsBecomes DEF Outcomes
  <2>2. Kept
    BY <1>5 DEF Kept
  <2> HIDE DEF i
  <2>3. QED
    BY <1>1, <1>2, <1>3, <1>4, <1>5, <2>1, <2>2, GoingOnKeeps DEF i, Busy
<1>6. ASSUME NEW word \in {"waiting-review", "blocked", "completed"}, truth[i] # "completed",
             truth' = [truth EXCEPT ![i] = word], Ends(c, s, word), stepper' = stepper
      PROVE  CampaignInv'
  <2>1. word \in Truth \cap Outcomes
    BY DEF Truth, Outcomes
  <2>2. QED
    BY <1>1, <1>2, <1>3, <1>4, <1>6, <2>1, ComesTo
<1>7. CASE /\ truth[i] \in {"ready", "running"}
           /\ truth' = [truth EXCEPT ![i] = "running"]
           /\ stepper' = [stepper EXCEPT ![i] = <<c, s>>]
           /\ Now(c, s, "stepping")
  <2>1. PICK w \in Worker : WorkerBecomes(c, s, w) /\ w.at = "stepping" /\ w.i = i
    BY <1>1, <1>7, NowBecomes DEF Busy
  <2>2. Kept /\ truth' \in [Index -> Truth]
    BY <1>1, <1>7 DEF Kept, Truth
  <2>3. stepper' \in [Index -> (Call \X Slot) \union {None}]
    BY <1>4, <1>7
  <2> HIDE DEF i
  <2>4. QED
    BY <1>1, <1>2, <1>3, <2>1, <2>2, <2>3, GoingOnKeeps DEF i, Busy
<1>8. \/ truth[i] \in {"draft", "completed", "cancelled"} /\ Ends(c, s, "failed") /\ UNCHANGED <<truth, stepper>>
      \/ \E word \in {"waiting-review", "blocked", "completed"} :
           truth[i] # "completed" /\ truth' = [truth EXCEPT ![i] = word] /\ Ends(c, s, word) /\ stepper' = stepper
      \/ /\ truth[i] \in {"ready", "running"}
         /\ truth' = [truth EXCEPT ![i] = "running"]
         /\ stepper' = [stepper EXCEPT ![i] = <<c, s>>]
         /\ Now(c, s, "stepping")
  BY <1>1 DEF Advance
<1>9. QED
  BY <1>5, <1>6, <1>7, <1>8

LEMMA SpinKeeps ==
  ASSUME CampaignInv, NEW c \in Call, NEW s \in Slot, Spin(c, s)
  PROVE  CampaignInv'
<1>1. TypeOK /\ work[c][s].at = "advancing" /\ UNCHANGED <<campaign, claim, mission, run, notices, requests, faults, earned>>
  BY DEF CampaignInv, Spin, Has
<1>2. PICK w \in Worker : WorkerBecomes(c, s, w) /\ w.at = "finishing" /\ w.i = work[c][s].i /\ w.result = "blocked"
  BY <1>1, EndsBecomes DEF Spin, Outcomes
<1>3. Kept /\ truth' \in [Index -> Truth] /\ stepper' \in [Index -> (Call \X Slot) \union {None}] /\ earned' \subseteq Index
  BY <1>1, WorkerOf DEF Kept, mission, TypeOK
<1>4. QED
  BY <1>1, <1>2, <1>3, GoingOnKeeps DEF Busy

LEMMA StepKeeps ==
  ASSUME CampaignInv, NEW c \in Call, NEW s \in Slot, Step(c, s)
  PROVE  CampaignInv'
<1> DEFINE i == work[c][s].i
<1>1. TypeOK /\ i \in Index /\ truth \in [Index -> Truth] /\ work[c][s].at = "stepping" /\ work[c][s].at \in Busy
  BY WorkerOf DEF CampaignInv, Step, Has, Busy
<1>2. UNCHANGED <<campaign, claim, run, notices, requests, faults>>
  BY DEF Step
<1>3. earned' \subseteq Index /\ stepper' \in [Index -> (Call \X Slot) \union {None}]
  BY <1>1 DEF Step, TypeOK
<1>4. CASE Now(c, s, "advancing") /\ truth' = truth
  <2>1. PICK w \in Worker : WorkerBecomes(c, s, w) /\ w.at = "advancing" /\ w.i = i
    BY <1>1, <1>4, NowBecomes DEF Busy
  <2>2. Kept
    BY <1>4 DEF Kept
  <2> HIDE DEF i
  <2>3. QED
    BY <1>1, <1>2, <1>3, <1>4, <2>1, <2>2, GoingOnKeeps DEF i, Busy
<1>5. ASSUME NEW word \in {"blocked", "completed"}, truth[i] = "running",
             truth' = [truth EXCEPT ![i] = word], Ends(c, s, word)
      PROVE  CampaignInv'
  <2>1. word \in Truth \cap Outcomes /\ truth[i] # "completed"
    BY <1>5 DEF Truth, Outcomes
  <2>2. QED
    BY <1>1, <1>2, <1>3, <1>5, <2>1, ComesTo
<1>6. CASE Ends(c, s, "cancelled") /\ truth' = truth
  <2>1. PICK w \in Worker : WorkerBecomes(c, s, w) /\ w.at = "finishing" /\ w.i = i /\ w.result = "cancelled"
    BY <1>1, <1>6, EndsBecomes DEF Outcomes
  <2>2. Kept
    BY <1>6 DEF Kept
  <2> HIDE DEF i
  <2>3. QED
    BY <1>1, <1>2, <1>3, <1>6, <2>1, <2>2, GoingOnKeeps DEF i, Busy
<1>7. QED
  BY <1>4, <1>5, <1>6 DEF Step

(* What a worker records is what its Mission has come to, or that it was cancelled. *)
LEMMA FinishKeeps ==
  ASSUME CampaignInv, NEW c \in Call, NEW s \in Slot, Finish(c, s)
  PROVE  CampaignInv'
<1> DEFINE i == work[c][s].i
           result == work[c][s].result
           m == [status |-> IF missions[i].cancelled THEN "cancelled" ELSE result,
                 cancelled |-> (IF missions[i].cancelled THEN "cancelled" ELSE result) = "cancelled"]
           w == [Over EXCEPT !.at = "taking"]
<1>1. /\ TypeOK /\ i \in Index /\ work[c][s] \in Worker /\ work[c][s].at = "finishing"
      /\ result \in Outcomes /\ (result = "completed" => truth[i] = "completed")
  BY WorkerOf DEF CampaignInv, Finish, Has, Earned, Worker
<1>2. /\ missions' = [missions EXCEPT ![i] = m]
      /\ UNCHANGED <<status, claim, mission, run, notices, requests, faults, earned>>
  BY DEF Finish, Finished
<1>3. m \in MissionRun /\ m.status \in Outcomes /\ (m.cancelled <=> m.status = "cancelled")
  BY <1>1 DEF MissionRun, Outcomes
<1>4. m.status = "completed" => truth[i] = "completed"
  BY <1>1
<1>5. w \in Worker /\ w.at = "taking" /\ WorkerBecomes(c, s, w)
  BY <1>1, OverIsWorker, WorkerChanges DEF Finish, Over
<1> HIDE DEF m, w
<1>6. missions \in [Index -> MissionRun]
  BY <1>1 DEF TypeOK
<1>7. missions' \in [Index -> MissionRun] /\ missions'[i] = m /\ \A j \in Index : j # i => missions'[j] = missions[j]
  BY <1>1, <1>2, <1>3, <1>6
<1>8. TypeOK'
  <2>1. ASSUME NEW j \in Index
        PROVE  /\ missions'[j].cancelled => missions'[j].status \in {"running", "cancelled"}
               /\ missions'[j].status = "cancelled" => missions'[j].cancelled
    <3>1. CASE j = i
      BY <1>3, <1>7, <3>1
    <3>2. CASE j # i
      BY <1>1, <1>7, <3>2 DEF TypeOK
    <3>3. QED
      BY <3>1, <3>2
  <2>2. QED
    BY <1>1, <1>2, <1>5, <1>7, <2>1 DEF TypeOK, WorkerBecomes, Worker, Busy, mission
<1>9. Claimed' /\ Underway'
  BY <1>2 DEF CampaignInv, Claimed, Underway
<1>10. Unbegun'
  BY <1>1, <1>2, <1>5 DEF CampaignInv, Unbegun, Has, WorkerBecomes
<1>11. missions'[i].status \in Outcomes /\ \A j \in Index : AtRest(j) => AtRest(j)'
  BY <1>3, <1>7 DEF AtRest
<1>12. Accounted'
  <2>1. \A d \in Call, t \in Slot : work'[d][t].at = "over" => work[d][t].at = "over"
    BY <1>5 DEF WorkerBecomes
  <2>2. \A d \in Call, t \in Slot : work[d][t].at \in Busy => work'[d][t] = work[d][t] \/ (work[d][t].i = i)
    BY <1>5 DEF WorkerBecomes
  <2> HIDE DEF i
  <2>3. QED
    BY <1>2, <1>11, <2>1, <2>2 DEF CampaignInv, Accounted, Has, AtRest
<1>13. Earned'
  BY <1>2, <1>5 DEF CampaignInv, Earned, Has, WorkerBecomes, mission
<1>14. ReportIsTrue'
  <2>1. \A j \in Index : missions'[j].status \in Outcomes \/ missions'[j] = missions[j]
    BY <1>3, <1>7
  <2> HIDE DEF i
  <2>2. \A j \in Index : missions'[j].status = "completed" => truth[j] = "completed"
    BY <1>4, <1>7 DEF CampaignInv, ReportIsTrue
  <2>3. QED
    BY <1>2, <2>1, <2>2 DEF CampaignInv, ReportIsTrue, Outcomes, mission
<1>15. QED
  BY <1>8, <1>9, <1>10, <1>12, <1>13, <1>14 DEF CampaignInv

-------------------------------------------------------------------------------
(* The requests.  Those that bring Missions back are refused while a run works.  *)
LEMMA AgainKeeps ==
  ASSUME CampaignInv, NEW words, NEW refused, Again(words, refused),
         words \subseteq {"waiting-review", "blocked", "failed"}, "running" \in refused
  PROVE  CampaignInv'
<1> USE DEF CampaignInv
<1>1. /\ missions' = [i \in Index |-> IF missions[i].status \in words
                                     THEN [status |-> "pending", cancelled |-> FALSE] ELSE missions[i]]
      /\ status' = "queued" /\ status # "running" /\ requests' \in 0..MaxRequests
      /\ UNCHANGED <<claim, mission, run, work, notices, faults, earned>>
  BY BoundAssumption DEF Again, Request, TypeOK
<1>2. [status |-> "pending", cancelled |-> FALSE] \in MissionRun
  BY DEF MissionRun
<1>3. \A i \in Index : missions'[i] = missions[i] \/ missions'[i] = [status |-> "pending", cancelled |-> FALSE]
  BY <1>1
<1>4. missions' \in [Index -> MissionRun]
  BY <1>1, <1>2 DEF TypeOK
<1>5. TypeOK'
  <2>1. \A i \in Index : /\ missions'[i].cancelled => missions'[i].status \in {"running", "cancelled"}
                         /\ missions'[i].status = "cancelled" => missions'[i].cancelled
    BY <1>3 DEF TypeOK
  <2>2. QED
    BY <1>1, <1>4, <2>1 DEF TypeOK, mission, CampaignStatus
<1>6. \A c \in Call : run[c].at # "working"
  BY <1>1 DEF Underway
<1>7. Claimed' /\ Underway' /\ Unbegun' /\ Accounted'
  BY <1>1, <1>6 DEF Claimed, Underway, Unbegun, Accounted, Has
<1>8. Earned' /\ ReportIsTrue'
  BY <1>1, <1>3 DEF Earned, ReportIsTrue, Has, mission, Settled
<1>9. QED
  BY <1>5, <1>7, <1>8

LEMMA CancelMissionKeeps ==
  ASSUME CampaignInv, NEW i \in Index, CancelMission(i)
  PROVE  CampaignInv'
<1> USE DEF CampaignInv
<1>1. PICK m \in MissionRun :
        /\ m.cancelled /\ m.status \in {"running", "cancelled"}
        /\ m.status = "running" <=> missions[i].status = "running"
        /\ missions' = [missions EXCEPT ![i] = m]
  <2>1. missions \in [Index -> MissionRun] /\ missions[i] \in MissionRun
    BY DEF TypeOK
  <2>2. CASE missions[i].status = "running"
    <3> DEFINE m == [missions[i] EXCEPT !.cancelled = TRUE]
    <3>1. m \in MissionRun /\ m.cancelled /\ m.status = "running"
      BY <2>1, <2>2 DEF MissionRun
    <3>2. missions' = [missions EXCEPT ![i] = m]
      BY <2>2 DEF CancelMission
    <3> HIDE DEF m
    <3>3. QED
      BY <2>2, <3>1, <3>2
  <2>3. CASE missions[i].status # "running"
    <3> DEFINE m == [status |-> "cancelled", cancelled |-> TRUE]
    <3>1. m \in MissionRun /\ m.cancelled /\ m.status = "cancelled"
      BY DEF MissionRun, Outcomes
    <3>2. missions' = [missions EXCEPT ![i] = m]
      BY <2>3 DEF CancelMission
    <3> HIDE DEF m
    <3>3. QED
      BY <2>3, <3>1, <3>2
  <2>4. QED
    BY <2>2, <2>3
<1>2. missions' \in [Index -> MissionRun] /\ missions'[i] = m /\ \A j \in Index : j # i => missions'[j] = missions[j]
  BY <1>1 DEF TypeOK
<1>3. /\ UNCHANGED <<status, claim, mission, run, work, faults, earned>>
      /\ notices' \subseteq Index /\ requests' \in 0..MaxRequests
  BY BoundAssumption DEF CancelMission, Request, TypeOK
<1>4. TypeOK'
  <2>1. \A j \in Index : /\ missions'[j].cancelled => missions'[j].status \in {"running", "cancelled"}
                         /\ missions'[j].status = "cancelled" => missions'[j].cancelled
    BY <1>1, <1>2 DEF TypeOK
  <2>2. QED
    BY <1>2, <1>3, <2>1 DEF TypeOK, mission
<1>5. \A j \in Index : AtRest(j) => AtRest(j)'
  BY <1>1, <1>2 DEF AtRest, Outcomes
<1>6. Claimed' /\ Underway' /\ Unbegun'
  BY <1>3 DEF Claimed, Underway, Unbegun, Has
<1>7. Accounted'
  BY <1>3, <1>5 DEF Accounted, Has
<1>8. Earned' /\ ReportIsTrue'
  BY <1>1, <1>2, <1>3 DEF Earned, ReportIsTrue, Has, mission
<1>9. QED
  BY <1>4, <1>6, <1>7, <1>8

(* What a user does on the Mission's own page changes the Mission's file, and never *)
(* that of one that is complete.                                                   *)
LEMMA FromPageKeeps ==
  ASSUME CampaignInv, NEW i \in Index,
         Notify(i) \/ Plan(i) \/ Review(i) \/ CancelFromPage(i)
  PROVE  CampaignInv'
<1> USE DEF CampaignInv
<1>1. truth \in [Index -> Truth]
  BY DEF TypeOK, Truth
<1>2. Kept /\ truth' \in [Index -> Truth]
  BY <1>1 DEF Kept, Truth, Notify, Plan, Review, CancelFromPage
<1>3. /\ UNCHANGED <<campaign, claim, stepper, run, work, faults, earned>>
      /\ notices' \subseteq Index /\ requests' \in 0..MaxRequests
  BY BoundAssumption DEF Notify, Plan, Review, CancelFromPage, Request, TypeOK
<1>4. TypeOK'
  BY <1>2, <1>3 DEF TypeOK, Truth, campaign
<1>5. Claimed' /\ Underway' /\ Unbegun' /\ Accounted'
  BY <1>3 DEF Claimed, Underway, Unbegun, Accounted, Has, AtRest, campaign
<1>6. Earned'
  BY <1>2, <1>3, WorkerOf DEF Earned, Has, Kept
<1>7. ReportIsTrue'
  BY <1>2, <1>3 DEF ReportIsTrue, Kept, campaign
<1>8. QED
  BY <1>4, <1>5, <1>6, <1>7

LEMMA StatusKeeps ==
  ASSUME CampaignInv, Enqueue \/ Archive
  PROVE  CampaignInv'
<1> USE DEF CampaignInv
<1>1. /\ status' \in {"queued", "archived"} /\ status # "running"
      /\ UNCHANGED <<missions, claim, mission, run, work, notices, requests, faults, earned>>
  BY DEF Enqueue, Archive
<1>2. TypeOK'
  BY <1>1 DEF TypeOK, mission, CampaignStatus
<1>3. Claimed' /\ Underway' /\ Unbegun' /\ Accounted'
  BY <1>1 DEF Claimed, Underway, Unbegun, Accounted, Has, AtRest
<1>4. Earned' /\ ReportIsTrue'
  BY <1>1 DEF Earned, ReportIsTrue, Has, mission, Settled
<1>5. QED
  BY <1>2, <1>3, <1>4

(* A server that dies leaves no run, no worker and a claim that may be taken over. *)
LEMMA CrashKeeps ==
  ASSUME CampaignInv, Crash
  PROVE  CampaignInv'
<1> USE DEF CampaignInv
<1>1. \A c \in Call : run'[c] = Free /\ \A s \in Slot : work'[c][s] = Over
  BY DEF Crash
<1>2. run' \in [Call -> RunState] /\ work' \in [Call -> [Slot -> Worker]]
  BY OverIsWorker, SizeAssumption DEF Crash, Free, RunState
<1>3. UNCHANGED <<campaign, truth, requests, earned>> /\ faults' \in 0..MaxFaults
  BY BoundAssumption DEF Crash, Fault, TypeOK
<1>4. stepper' \in [Index -> (Call \X Slot) \union {None}] /\ claim' \in {None, Dead} /\ notices' = {}
  BY DEF Crash
<1>5. TypeOK'
  BY <1>2, <1>3, <1>4 DEF TypeOK, Worker, Busy, RunState, campaign
<1>6. Claimed' /\ Underway' /\ Unbegun' /\ Accounted' /\ Earned'
  BY <1>1 DEF Claimed, Underway, Unbegun, Accounted, Earned, Has, Free, Over
<1>7. ReportIsTrue'
  BY <1>3 DEF ReportIsTrue, campaign
<1>8. QED
  BY <1>5, <1>6, <1>7

-------------------------------------------------------------------------------
(* The theorems. *)
LEMMA InitCampaignInv == Init => CampaignInv
<1> SUFFICES ASSUME Init PROVE CampaignInv
  OBVIOUS
<1>1. work \in [Call -> [Slot -> Worker]] /\ \A c \in Call, s \in Slot : work[c][s].at = "over"
  BY OverIsWorker DEF Init
<1>2. TypeOK
  BY <1>1, SizeAssumption, BoundAssumption
     DEF Init, TypeOK, Free, Worker, Busy, CampaignStatus, MissionRun, Index
<1>3. Claimed /\ Unbegun /\ Underway /\ Accounted /\ Earned
  BY <1>1 DEF Init, Free, Claimed, Unbegun, Underway, Accounted, Earned, Has
<1>4. ReportIsTrue
  BY DEF Init, ReportIsTrue, Settled
<1>5. QED
  BY <1>2, <1>3, <1>4 DEF CampaignInv

LEMMA NextKeeps == CampaignInv /\ [Next]_vars => CampaignInv'
<1> SUFFICES ASSUME CampaignInv, [Next]_vars PROVE CampaignInv'
  OBVIOUS
<1>1. CASE UNCHANGED vars
  <2>1. TypeOK' /\ Claimed' /\ Unbegun' /\ Underway' /\ Accounted'
    BY <1>1 DEF vars, CampaignInv, TypeOK, Claimed, Unbegun, Underway, Accounted, Has, AtRest, campaign, mission
  <2>2. Earned' /\ ReportIsTrue'
    BY <1>1 DEF vars, CampaignInv, Earned, ReportIsTrue, Has, campaign, mission
  <2>3. QED
    BY <2>1, <2>2 DEF CampaignInv
<1>2. CASE \E c \in Call : Claim(c) \/ Begin(c) \/ Settle(c) \/ Release(c) \/ WriteFails(c)
  BY <1>2, ClaimKeeps, BeginKeeps, SettleKeeps, ReleaseKeeps, WriteFailsKeeps
<1>3. CASE \E c \in Call, s \in Slot :
             Take(c, s) \/ Prepare(c, s) \/ Stop(c, s) \/ Advance(c, s) \/ Spin(c, s) \/ Step(c, s) \/ Finish(c, s)
  BY <1>3, TakeKeeps, PrepareKeeps, StopKeeps, AdvanceKeeps, SpinKeeps, StepKeeps, FinishKeeps
<1>4. CASE \E i \in Index : CancelMission(i) \/ Notify(i) \/ Plan(i) \/ Review(i) \/ CancelFromPage(i)
  BY <1>4, CancelMissionKeeps, FromPageKeeps
<1>5. CASE Crash \/ Enqueue \/ Archive
  BY <1>5, CrashKeeps, StatusKeeps
<1>6. CASE Resume \/ RetryFailed
  BY <1>6, AgainKeeps DEF Resume, RetryFailed
<1>7. QED
  BY <1>1, <1>2, <1>3, <1>4, <1>5, <1>6 DEF Next

LEMMA Invariance == Spec => []CampaignInv
BY InitCampaignInv, NextKeeps, PTL DEF Spec

(* The types of the state; and a Mission that is to be cancelled runs or is         *)
(* cancelled.                                                                      *)
THEOREM TypeCorrect == Spec => []TypeOK
<1>1. CampaignInv => TypeOK
  BY DEF CampaignInv
<1>2. QED
  BY <1>1, Invariance, PTL

(* However many requests to run the Campaign arrive, and whatever deaths and failed *)
(* writes come between, one run of it goes on at a time.                           *)
THEOREM OneRunnerEach == Spec => []OneRunner
<1>1. CampaignInv => OneRunner
  <2> SUFFICES ASSUME CampaignInv PROVE OneRunner
    OBVIOUS
  <2> DEFINE R == {c \in Call : run[c].at # "idle"}
  <2>1. R \subseteq {claim}
    BY DEF CampaignInv, Claimed
  <2>2. IsFiniteSet({claim}) /\ Cardinality({claim}) = 1
    BY FS_Singleton
  <2>3. Cardinality(R) <= Cardinality({claim})
    BY <2>1, <2>2, FS_Subset
  <2>4. QED
    BY <2>2, <2>3 DEF OneRunner
<1>2. QED
  BY <1>1, Invariance, PTL

(* The Campaign reports what its Missions' executions have come to, and one that    *)
(* rests has none that is still to be run, with workers that outlive their run and  *)
(* deaths in the middle of it.                                                     *)
THEOREM ReportsAreTrue == Spec => []ReportIsTrue
<1>1. CampaignInv => ReportIsTrue
  BY DEF CampaignInv
<1>2. QED
  BY <1>1, Invariance, PTL

-------------------------------------------------------------------------------
(* What was cancelled: the Mission i stays to be cancelled, or cancelled. *)
Stays(i) ==
  missions[i].cancelled =>
    /\ missions'[i].cancelled
    /\ missions[i].status = "cancelled" => missions'[i].status = "cancelled"

LEMMA CancelledStays ==
  ASSUME CampaignInv, Next, NEW i \in Index
  PROVE  Stays(i)
<1>1. missions \in [Index -> MissionRun] /\ (missions[i].cancelled => missions[i].status \in {"running", "cancelled"})
  BY DEF CampaignInv, TypeOK
<1>2. CASE missions' = missions
  BY <1>2 DEF Stays
<1>3. ASSUME NEW c \in Call, NEW s \in Slot, Prepare(c, s) PROVE Stays(i)
  <2> DEFINE k == run[c].next
  <2>1. missions' = IF Preparation(k) = "advancing" THEN [missions EXCEPT ![k].status = "running"] ELSE missions
    BY <1>3 DEF Prepare
  <2>2. Preparation(k) = "advancing" => ~missions[k].cancelled
    BY DEF Preparation
  <2> HIDE DEF k
  <2>3. QED
    BY <1>1, <2>1, <2>2 DEF Stays
<1>4. ASSUME NEW c \in Call, NEW s \in Slot, Finish(c, s) PROVE Stays(i)
  <2>1. missions' = Finished(work[c][s].i, work[c][s].result)
    BY <1>4 DEF Finish
  <2>2. CASE i = work[c][s].i
    <3>1. missions[i].cancelled => missions'[i] = [status |-> "cancelled", cancelled |-> TRUE]
      BY <1>1, <2>1, <2>2 DEF Finished
    <3>2. QED
      BY <3>1 DEF Stays
  <2>3. CASE i # work[c][s].i
    BY <1>1, <2>1, <2>3 DEF Finished, Stays
  <2>4. QED
    BY <2>2, <2>3
<1>5. ASSUME NEW words, NEW refused, Again(words, refused), words \cap {"running", "cancelled"} = {} PROVE Stays(i)
  BY <1>1, <1>5 DEF Again, Stays
<1>6. ASSUME NEW k \in Index, CancelMission(k) PROVE Stays(i)
  <2>1. CASE i # k
    BY <1>1, <1>6, <2>1 DEF CancelMission, Stays
  <2>2. CASE i = k
    <3>1. missions[k].status # "cancelled"
      BY <1>6 DEF CancelMission
    <3>2. missions'[k].cancelled
      BY <1>1, <1>6 DEF CancelMission, MissionRun
    <3>3. QED
      BY <2>2, <3>1, <3>2 DEF Stays
  <2>3. QED
    BY <2>1, <2>2
<1>7. CASE Resume \/ RetryFailed
  BY <1>5, <1>7 DEF Resume, RetryFailed
<1>8. CASE \E c \in Call : Claim(c) \/ Begin(c) \/ Settle(c) \/ Release(c) \/ WriteFails(c)
  <2>1. missions' = missions
    BY <1>8 DEF Claim, Begin, Settle, Release, WriteFails, campaign
  <2>2. QED
    BY <1>2, <2>1
<1>9. CASE \E c \in Call, s \in Slot :
             Take(c, s) \/ Prepare(c, s) \/ Stop(c, s) \/ Advance(c, s) \/ Spin(c, s) \/ Step(c, s) \/ Finish(c, s)
  <2>1. missions' = missions \/ \E c \in Call, s \in Slot : Prepare(c, s) \/ Finish(c, s)
    BY <1>9 DEF Take, Stop, Advance, Spin, Step, campaign
  <2>2. QED
    BY <1>2, <1>3, <1>4, <2>1
<1>10. CASE \E k \in Index : CancelMission(k) \/ Notify(k) \/ Plan(k) \/ Review(k) \/ CancelFromPage(k)
  <2>1. missions' = missions \/ \E k \in Index : CancelMission(k)
    BY <1>10 DEF Notify, Plan, Review, CancelFromPage, campaign
  <2>2. QED
    BY <1>2, <1>6, <2>1
<1>11. CASE Crash \/ Enqueue \/ Archive
  <2>1. missions' = missions
    BY <1>11 DEF Crash, Enqueue, Archive, campaign
  <2>2. QED
    BY <1>2, <2>1
<1>12. QED
  BY <1>7, <1>8, <1>9, <1>10, <1>11 DEF Next

(* No late result of a worker, death of the server, resume or retry brings a        *)
(* Mission back once its cancellation was asked for.                               *)
THEOREM CancelledForGood == Spec => CancelHolds
<1>1. CampaignInv /\ [Next]_vars => [\A i \in Index : Stays(i)]_vars
  BY CancelledStays
<1>2. QED
  BY <1>1, Invariance, PTL DEF Spec, CancelHolds, Stays

-------------------------------------------------------------------------------
(* What autonomous plans change of a project (module EditProtection).            *)

States == {"none", "ai-owned", "human-modified", "protected"}
Projects == [rev : Nat, length : Nat \ {0}, locked : SUBSET Tracks, told : BOOLEAN,
             named : SUBSET Scenes, at : [Things -> Nat \X Nat]]
Executions == [plan : Nat, status : {"none", "running", "blocked", "completed"}, step : 1 .. 4,
               expected : Nat, begun : BOOLEAN, render : [rev : Nat, length : Nat], terms : Offers]
Targets == SUBSET (Keys \X Actions)
Seen == [Keys -> States \cup {"unread"}]
RunnerPlaces == {"idle", "edit", "render", "qa", "repair", "load", "inspect", "evaluate", "link",
                 "edit now", "repair now"}
Runners == [at : RunnerPlaces, targets : Targets, saw : Projects, by : Seen]
Reports == [id : Nat \X {"qa"}, rev : Nat, source : Nat, linked : BOOLEAN,
            status : {"fail", "repair-recommended", "pass"},
            actions : SUBSET {"full-rerender", "adjust-scene-timing", "other"}]
Changes == [kind : {"edit", "repair"}, plan : Nat, from : Projects, to : Projects, targets : Targets,
            by : Seen, approved : BOOLEAN]

ProtectionTypeOK ==
  /\ project \in Projects
  /\ records \in [Keys -> States]
  /\ exec \in Executions
  /\ runner \in Runners
  /\ reports \in SUBSET Reports
  /\ used \in [edits : Nat, marks : Nat, deaths : Nat]
  /\ changes \in Seq(Changes)

(* Where a runner can be in a plan's steps.                                       *)
RunnerInStep ==
  /\ runner.at = "idle" => runner = Still
  /\ runner.at # "idle" => exec.status = "running"
  /\ runner.at \in {"edit", "edit now"} => exec.step = 1
  /\ runner.at = "render" => exec.step = 2
  /\ runner.at \in {"qa", "evaluate", "link"} => exec.step = 3
  /\ runner.at \in {"repair", "repair now"} => exec.step = 4
  /\ runner.at \in {"load", "inspect"} => exec.step \in {1, 4}

(* One report per plan, of none but the plans made so far.                        *)
ReportsApart ==
  /\ \A r, s \in reports : r.id = s.id => r = s
  /\ \A r \in reports : r.id[1] <= exec.plan
  /\ runner.at = "evaluate" => \A r \in reports : r.id # <<exec.plan, "qa">>

(* What the repair of the newest plan goes by: a linked report of the revision    *)
(* that is expected and of a render of it.                                        *)
ReportIsLinked ==
  (exec.status = "running" /\ exec.step = 4) =>
    \E r \in reports : /\ r.id = <<exec.plan, "qa">> /\ r.linked
                       /\ r.rev = exec.expected /\ r.source = exec.expected

(* What the step may count on, unless someone has edited the project since.       *)
TargetsOf(step, p) == IF step = 1 THEN VisualTargets ELSE RepairTargets(p)
Passes == \E r \in reports : r.id = <<exec.plan, "qa">> /\ r.status = "pass"
IsDue == \E r \in reports : /\ r.id = <<exec.plan, "qa">>
                            /\ r.status # "pass" /\ r.actions = {"adjust-scene-timing"}
WasLetIn ==
  /\ runner.targets = TargetsOf(exec.step, project)
  /\ runner.by \in [Keys -> States]
  /\ LetIn(Decision(project, runner.by, runner.targets))
  /\ (exec.step = 4 => IsDue)
GuardIsCurrent ==
  project.rev = exec.expected =>
    /\ runner.at \in {"load", "inspect"} =>
         runner.targets = TargetsOf(exec.step, project) /\ (exec.step = 4 => IsDue)
    /\ runner.at = "inspect" => runner.saw = project
    /\ runner.at = "edit now" => WasLetIn
    /\ runner.at = "repair now" => Passes \/ WasLetIn

RevisionsGrow ==
  /\ exec.expected <= project.rev
  /\ runner.at = "inspect" => runner.saw.rev = exec.expected

ChangesArePast ==
  \A i \in DOMAIN changes :
    /\ changes[i].plan <= exec.plan
    /\ (exec.status = "running" /\ changes[i].kind = "repair") => changes[i].plan < exec.plan

(* The two parts of AutonomyIsBounded, of one change.                             *)
ChangeInspected(c) ==
  \A k \in Touched(c) :
    /\ \E t \in c.targets : t[1] = k
    /\ ~Locked(c.from, k) /\ c.by[k] # "protected"
    /\ \/ c.approved \/ c.by[k] = "ai-owned"
       \/ c.by[k] = "none" /\ (k \in Tracks \/ ~Present(c.from, k))
RepairJustified(c, rs) ==
  /\ \E r \in rs :
       /\ r.id = <<c.plan, "qa">> /\ r.linked
       /\ r.rev = c.from.rev /\ r.source = c.from.rev
       /\ r.status # "pass" /\ r.actions = {"adjust-scene-timing"}
  /\ Fits(c.to) /\ c.to.length = Target

RepairsHold(cs, rs) ==
  \A i \in DOMAIN cs : cs[i].kind = "repair" =>
    /\ \A j \in DOMAIN cs : cs[j].plan = cs[i].plan /\ cs[j].kind = "repair" => j = i
    /\ RepairJustified(cs[i], rs)

ProtectionInv ==
  /\ ProtectionTypeOK
  /\ Fits(project)
  /\ RunnerInStep
  /\ RevisionsGrow
  /\ ReportsApart /\ ReportIsLinked
  /\ GuardIsCurrent
  /\ ChangesArePast
  /\ AutonomyIsBounded

-------------------------------------------------------------------------------
LEMMA FirstTyped == First \in Projects /\ First.at \in [Things -> Nat \X Nat]
BY DEF First, Projects, Things, Clips, Scenes, Tracks, Gone

LEMMA StillTyped == Still \in Runners /\ Still.at = "idle" /\ Still.targets = {} /\ Still.by = Unread
<1>1. First \in Projects /\ Unread \in Seen
  BY FirstTyped DEF Unread, Seen
<1>2. QED
  BY <1>1 DEF Still, Runners, Targets, RunnerPlaces

(* A place on the timeline.                                                      *)
LEMMA PlaceIs ==
  ASSUME NEW p \in Projects, NEW t \in Things
  PROVE  p.at[t] \in Nat \X Nat /\ p.at[t][1] \in Nat /\ p.at[t][2] \in Nat
         /\ p.at[t] = <<p.at[t][1], p.at[t][2]>>
BY DEF Projects

LEMMA TrimmedPlace ==
  ASSUME NEW p \in Projects, NEW t \in Things
  PROVE  /\ t \in Late(p) => Trimmed(p).at[t] = Gone
         /\ t \in Overlong(p) => Trimmed(p).at[t] = <<p.at[t][1], Target>>
         /\ (t \notin Late(p) /\ t \notin Overlong(p)) => Trimmed(p).at[t] = p.at[t]
<1>1. p = [rev |-> p.rev, length |-> p.length, locked |-> p.locked, told |-> p.told, named |-> p.named, at |-> p.at]
  BY DEF Projects
<1>2. t \in Late(p) => t \notin Overlong(p)
  BY PlaceIs, TargetAssumption DEF Late, Overlong
<1>3. QED
  BY <1>1, <1>2 DEF Trimmed

LEMMA TrimmedIs ==
  ASSUME NEW p \in Projects, Fits(p)
  PROVE  /\ Trimmed(p) \in Projects /\ Fits(Trimmed(p))
         /\ Trimmed(p).length = Target /\ Trimmed(p).rev = p.rev /\ Trimmed(p).locked = p.locked
<1> DEFINE at == [t \in Things |-> IF t \in Late(p) THEN Gone
                                     ELSE IF t \in Overlong(p) THEN <<p.at[t][1], Target>> ELSE p.at[t]]
<1>1. at \in [Things -> Nat \X Nat]
  BY PlaceIs, TargetAssumption DEF Gone
<1>2. Trimmed(p) = [p EXCEPT !.length = Target, !.named = @ \ Late(p), !.at = at]
  BY DEF Trimmed
<1> HIDE DEF at
<1>3. Trimmed(p) \in Projects /\ Trimmed(p).length = Target /\ Trimmed(p).rev = p.rev /\ Trimmed(p).locked = p.locked
  BY <1>1, <1>2, TargetAssumption DEF Projects
<1>4. ASSUME NEW t \in Things
      PROVE  Trimmed(p).at[t] = Gone \/ Trimmed(p).at[t] \in Spans(Target)
  <2>1. p.at[t][1] \in Nat /\ p.at[t][2] \in Nat /\ p.at[t] = <<p.at[t][1], p.at[t][2]>>
    BY PlaceIs
  <2>2. CASE t \in Late(p)
    BY <2>2, TrimmedPlace
  <2>3. CASE t \in Overlong(p)
    <3>1. <<p.at[t][1], Target>> \in Spans(Target)
      BY <2>1, <2>3, TargetAssumption DEF Overlong, Spans
    <3>2. QED
      BY <2>3, <3>1, TrimmedPlace
  <2>4. CASE t \notin Late(p) /\ t \notin Overlong(p)
    <3>1. p.at[t] = Gone \/ (p.at[t][1] < Target /\ p.at[t][2] <= Target)
      BY <2>1, <2>4, TargetAssumption DEF Late, Overlong, Present
    <3>2. p.at[t] = Gone \/ p.at[t][1] < p.at[t][2]
      BY <2>1 DEF Fits, Spans
    <3>3. p.at[t] # Gone => <<p.at[t][1], p.at[t][2]>> \in Spans(Target)
      BY <2>1, <3>1, <3>2, TargetAssumption DEF Spans
    <3>4. QED
      BY <2>1, <2>4, <3>3, TrimmedPlace
  <2>5. QED
    BY <2>2, <2>3, <2>4
<1>5. QED
  BY <1>3, <1>4 DEF Fits

LEMMA IllustratedIs ==
  ASSUME NEW p \in Projects, Fits(p)
  PROVE  /\ Illustrated(p) \in Projects /\ Illustrated(p).rev = p.rev
         /\ Illustrated(p).length = p.length /\ Illustrated(p).locked = p.locked
         /\ \A t \in Things : t # "new" => Illustrated(p).at[t] = p.at[t]
<1> DEFINE at == [p.at EXCEPT !["new"] = <<0, 1>>]
<1>1. at \in [Things -> Nat \X Nat] /\ \A t \in Things : t # "new" => at[t] = p.at[t]
  BY DEF Projects
<1>2. Illustrated(p) = [p EXCEPT !.at = at]
  BY DEF Illustrated, Projects
<1> HIDE DEF at
<1>3. QED
  BY <1>1, <1>2 DEF Projects

LEMMA BecomesIs ==
  ASSUME NEW p \in Projects, NEW q \in Projects
  PROVE  /\ Becomes(p, q) \in Projects /\ Becomes(p, q).rev = p.rev + 1
         /\ Becomes(p, q).at = q.at /\ Becomes(p, q).length = q.length /\ Becomes(p, q).locked = q.locked
BY DEF Becomes, Projects

(* What a decision that lets a step in says of each of its targets.              *)
LEMMA LetInSays ==
  ASSUME NEW p, NEW by, NEW targets, LetIn(Decision(p, by, targets)), NEW t \in targets
  PROVE  ~Blocked(p, by, t[1], t[2]) /\ (exec.terms.approved \/ ~InReview(p, by, t[1], t[2]))
BY DEF LetIn, Decision

-------------------------------------------------------------------------------
(* What becomes of the runner and the execution.                                 *)

LEMMA FailsIs ==
  ASSUME ProtectionTypeOK, Fails
  PROVE  /\ exec' \in Executions /\ exec'.plan = exec.plan /\ exec'.status = "blocked"
         /\ exec'.expected = exec.expected /\ runner' = Still /\ runner' \in Runners /\ runner'.at = "idle"
<1>1. exec \in Executions /\ exec' = [exec EXCEPT !.status = "blocked"] /\ runner' = Still
  BY DEF Fails, ProtectionTypeOK
<1>2. exec' \in Executions /\ exec'.plan = exec.plan /\ exec'.status = "blocked" /\ exec'.expected = exec.expected
  BY <1>1 DEF Executions
<1>3. QED
  BY <1>1, <1>2, StillTyped

LEMMA KeysAndActions ==
  ASSUME NEW p
  PROVE  VisualTargets \in Targets /\ RepairTargets(p) \in Targets
<1>1. VisualTargets \in Targets
  BY DEF VisualTargets, Targets, Keys, Things, Clips, Scenes, Tracks, Actions
<1>2. Late(p) \subseteq Keys /\ Overlong(p) \subseteq Keys /\ "canvas" \in Keys /\ {"modify", "remove"} \subseteq Actions
  BY DEF Late, Overlong, Keys, Actions
<1>3. RepairTargets(p) \in Targets
  BY <1>2 DEF RepairTargets, Targets
<1>4. QED
  BY <1>1, <1>3

(* Any step of the runner that changes neither project nor reports.              *)
LEMMA RunnerKeeps ==
  ASSUME ProtectionInv, UNCHANGED <<project, records, reports, changes>>,
         exec.status = "running", exec' \in Executions, runner' \in Runners,
         used' \in [edits : Nat, marks : Nat, deaths : Nat],
         exec'.plan = exec.plan, exec'.status \in {"running", "blocked"},
         exec'.expected = exec.expected,
         RunnerInStep', ReportIsLinked', GuardIsCurrent',
         runner'.at = "evaluate" => \A r \in reports : r.id # <<exec.plan, "qa">>,
         runner'.at = "inspect" => runner'.saw.rev = exec.expected
  PROVE  ProtectionInv'
<1>1. ProtectionTypeOK' /\ Fits(project)'
  BY DEF ProtectionInv, ProtectionTypeOK, Fits
<1>2. RevisionsGrow'
  BY DEF ProtectionInv, RevisionsGrow
<1>3. ReportsApart'
  BY DEF ProtectionInv, ReportsApart
<1>4. ChangesArePast'
  BY DEF ProtectionInv, ChangesArePast
<1>5. EditsAreInspected'
  BY DEF ProtectionInv, AutonomyIsBounded, EditsAreInspected
<1>6. RepairIsDue'
  <2>1. exec'.status # "completed"
    OBVIOUS
  <2>2. RepairsHold(changes, reports)
    BY DEF ProtectionInv, AutonomyIsBounded, RepairIsDue, RepairsHold, RepairJustified
  <2>3. RepairsHold(changes', reports')
    BY <2>2, Zenon
  <2>4. QED
    BY <2>1, <2>3 DEF RepairIsDue, RepairsHold, RepairJustified
<1>7. QED
  BY <1>1, <1>2, <1>3, <1>4, <1>5, <1>6 DEF ProtectionInv, AutonomyIsBounded

LEMMA FailsKeeps ==
  ASSUME ProtectionInv, UNCHANGED <<project, records, reports, used, changes>>, exec.status = "running", Fails
  PROVE  ProtectionInv'
<1>1. /\ exec' \in Executions /\ exec'.plan = exec.plan /\ exec'.status = "blocked"
      /\ exec'.expected = exec.expected /\ runner' = Still /\ runner' \in Runners /\ runner'.at = "idle"
  BY FailsIs DEF ProtectionInv
<1>2. used' \in [edits : Nat, marks : Nat, deaths : Nat]
  BY DEF ProtectionInv, ProtectionTypeOK
<1>3. RunnerInStep' /\ ReportIsLinked' /\ GuardIsCurrent'
  BY <1>1, Zenon DEF RunnerInStep, ReportIsLinked, GuardIsCurrent, Still
<1>4. QED
  BY <1>1, <1>2, <1>3, RunnerKeeps

(* The runner goes from one place of its step to another.                        *)
LEMMA MovesKeeps ==
  ASSUME ProtectionInv, UNCHANGED <<project, records, exec, reports, used, changes>>,
         exec.status = "running", runner' \in Runners, runner'.at # "idle",
         RunnerInStep', GuardIsCurrent',
         runner'.at = "evaluate" => \A r \in reports : r.id # <<exec.plan, "qa">>,
         runner'.at = "inspect" => runner'.saw.rev = exec.expected
  PROVE  ProtectionInv'
<1>1. exec' \in Executions /\ exec'.plan = exec.plan /\ exec'.status = "running" /\ exec'.expected = exec.expected
      /\ used' \in [edits : Nat, marks : Nat, deaths : Nat]
  BY DEF ProtectionInv, ProtectionTypeOK
<1>2. ReportIsLinked'
  BY DEF ProtectionInv, ReportIsLinked
<1>3. QED
  BY <1>1, <1>2, RunnerKeeps

LEMMA RunnerDiesKeeps ==
  ASSUME ProtectionInv, RunnerDies
  PROVE  ProtectionInv'
<1>1. runner.at # "idle" /\ exec.status = "running" /\ UNCHANGED <<project, records, exec, reports, changes>>
  BY DEF RunnerDies, ProtectionInv, RunnerInStep
<1>2. runner' = Still /\ runner' \in Runners /\ runner'.at = "idle"
  BY StillTyped DEF RunnerDies
<1>3. exec' \in Executions /\ exec'.plan = exec.plan /\ exec'.status = "running" /\ exec'.expected = exec.expected
      /\ used' \in [edits : Nat, marks : Nat, deaths : Nat]
  BY <1>1 DEF ProtectionInv, ProtectionTypeOK, RunnerDies
<1>4. ReportIsLinked'
  BY <1>1 DEF ProtectionInv, ReportIsLinked
<1>5. RunnerInStep' /\ GuardIsCurrent'
  BY <1>2 DEF RunnerInStep, GuardIsCurrent
<1>6. QED
  BY <1>1, <1>2, <1>3, <1>4, <1>5, RunnerKeeps

LEMMA KindIs ==
  ASSUME exec \in Executions
  PROVE  /\ exec.step = 1 => Kind = "edit"
         /\ exec.step = 2 => Kind = "render"
         /\ exec.step = 3 => Kind = "qa"
         /\ exec.step = 4 => Kind = "repair"
BY DEF Executions, Kind, Steps

LEMMA ClaimStepKeeps ==
  ASSUME ProtectionInv, ClaimStep
  PROVE  ProtectionInv'
<1>1. exec.status = "running" /\ runner = Still /\ exec \in Executions /\ exec.step \in 1 .. 4
      /\ UNCHANGED <<project, records, reports, used, changes>>
  BY DEF ClaimStep, ProtectionInv, ProtectionTypeOK, Executions
<1>2. CASE exec' = [exec EXCEPT !.begun = TRUE] /\ runner' = [Still EXCEPT !.at = Kind]
  <2>1. exec' \in Executions /\ exec'.plan = exec.plan /\ exec'.status = "running" /\ exec'.expected = exec.expected
        /\ exec'.step = exec.step
    BY <1>1, <1>2 DEF Executions
  <2>2. Kind \in {"edit", "render", "qa", "repair"}
    BY <1>1, KindIs
  <2>3. runner' \in Runners /\ runner'.at = Kind
    BY <1>2, <2>2, StillTyped DEF Runners, RunnerPlaces
  <2>4. RunnerInStep'
    <3>1. /\ Kind = "edit" => exec.step = 1
          /\ Kind = "render" => exec.step = 2
          /\ Kind = "qa" => exec.step = 3
          /\ Kind = "repair" => exec.step = 4
      BY <1>1, KindIs
    <3>2. QED
      BY <2>1, <2>2, <2>3, <3>1 DEF RunnerInStep
  <2>5. GuardIsCurrent'
    BY <2>2, <2>3 DEF GuardIsCurrent
  <2>6. ReportIsLinked'
    BY <1>1, <2>1 DEF ProtectionInv, ReportIsLinked
  <2>7. used' \in [edits : Nat, marks : Nat, deaths : Nat]
    BY <1>1 DEF ProtectionInv, ProtectionTypeOK
  <2>8. runner'.at # "evaluate" /\ runner'.at # "inspect"
    BY <2>2, <2>3
  <2>9. QED
    BY <1>1, <2>1, <2>3, <2>4, <2>5, <2>6, <2>7, <2>8, RunnerKeeps
<1>3. CASE Fails
  BY <1>1, <1>3, FailsKeeps
<1>4. QED
  BY <1>2, <1>3 DEF ClaimStep

AtStep(e, n) == [e EXCEPT !.step = n, !.begun = FALSE]
Rendered(e, f) == [e EXCEPT !.render = f]

Continues(d, e, n, rev) ==
  d \in Executions /\ d.plan = e.plan /\ d.status = e.status /\ d.expected = rev /\ d.step = n
CompletedAt(e, n, rev) == [e EXCEPT !.step = n, !.expected = rev, !.begun = FALSE]

LEMMA WithCompletion ==
  ASSUME NEW e \in Executions, NEW n \in 1 .. 4, NEW rev \in Nat
  PROVE  Continues(CompletedAt(e, n, rev), e, n, rev)
<1> DEFINE Films == [rev : Nat, length : Nat]
           d1 == [e EXCEPT !.step = n]
           d2 == [d1 EXCEPT !.expected = rev]
           d == [d2 EXCEPT !.begun = FALSE]
<1>1. Executions = [plan : Nat, status : {"none", "running", "blocked", "completed"}, step : 1 .. 4,
                    expected : Nat, begun : BOOLEAN, render : Films, terms : Offers]
  BY DEF Executions
<1> HIDE DEF Films
<1>2. d1 \in Executions /\ d1.plan = e.plan /\ d1.status = e.status /\ d1.step = n
  BY <1>1
<1> HIDE DEF d1
<1>3. d2 \in Executions /\ d2.plan = e.plan /\ d2.status = e.status /\ d2.expected = rev /\ d2.step = n
  BY <1>1, <1>2
<1> HIDE DEF d2
<1>4. d \in Executions /\ d.plan = e.plan /\ d.status = e.status /\ d.expected = rev /\ d.step = n
  BY <1>1, <1>3
<1>5. d = CompletedAt(e, n, rev)
  BY DEF d1, d2, CompletedAt
<1>6. QED
  BY <1>4, <1>5 DEF Continues

LEMMA WithStep ==
  ASSUME NEW e \in Executions, NEW n \in 1 .. 4
  PROVE  /\ AtStep(e, n) \in Executions /\ AtStep(e, n).plan = e.plan /\ AtStep(e, n).status = e.status
         /\ AtStep(e, n).expected = e.expected /\ AtStep(e, n).step = n
<1> DEFINE Films == [rev : Nat, length : Nat]
           d1 == [e EXCEPT !.step = n]
           d == [d1 EXCEPT !.begun = FALSE]
<1>1. Executions = [plan : Nat, status : {"none", "running", "blocked", "completed"}, step : 1 .. 4,
                    expected : Nat, begun : BOOLEAN, render : Films, terms : Offers]
  BY DEF Executions
<1> HIDE DEF Films
<1>2. d1 \in Executions /\ d1.plan = e.plan /\ d1.status = e.status /\ d1.expected = e.expected /\ d1.step = n
  BY <1>1
<1> HIDE DEF d1
<1>3. d \in Executions /\ d.plan = e.plan /\ d.status = e.status /\ d.expected = e.expected /\ d.step = n
  BY <1>1, <1>2
<1>4. d = AtStep(e, n)
  BY DEF d1, AtStep
<1>5. QED
  BY <1>3, <1>4

LEMMA WithRender ==
  ASSUME NEW e \in Executions, NEW f \in [rev : Nat, length : Nat]
  PROVE  /\ Rendered(e, f) \in Executions /\ Rendered(e, f).plan = e.plan /\ Rendered(e, f).status = e.status
         /\ Rendered(e, f).expected = e.expected /\ Rendered(e, f).step = e.step
<1> DEFINE Films == [rev : Nat, length : Nat]
           d == [e EXCEPT !.render = f]
<1>1. Executions = [plan : Nat, status : {"none", "running", "blocked", "completed"}, step : 1 .. 4,
                    expected : Nat, begun : BOOLEAN, render : Films, terms : Offers]
  BY DEF Executions
<1>2. f \in Films
  OBVIOUS
<1> HIDE DEF Films
<1>3. d \in Executions /\ d.plan = e.plan /\ d.status = e.status /\ d.expected = e.expected /\ d.step = e.step
  BY <1>1, <1>2
<1>4. QED
  BY <1>3 DEF Rendered

LEMMA RenderKeeps ==
  ASSUME ProtectionInv, Render
  PROVE  ProtectionInv'
<1>1. exec.status = "running" /\ exec.step = 2 /\ exec \in Executions /\ project \in Projects
      /\ UNCHANGED <<project, records, reports, used, changes>>
  BY DEF Render, ProtectionInv, ProtectionTypeOK, RunnerInStep
<1>2. CASE /\ exec' = [exec EXCEPT !.step = @ + 1, !.begun = FALSE,
                               !.render = [rev |-> project.rev, length |-> project.length]]
           /\ runner' = Still
  <2> DEFINE made == [rev |-> project.rev, length |-> project.length]
  <2>1. made \in [rev : Nat, length : Nat]
    BY <1>1 DEF Projects
  <2>2. exec' = [exec EXCEPT !.step = 3, !.begun = FALSE, !.render = made]
    BY <1>1, <1>2 DEF Executions
  <2> HIDE DEF made
  <2>3. exec' \in Executions /\ exec'.plan = exec.plan /\ exec'.status = "running"
        /\ exec'.expected = exec.expected /\ exec'.step = 3
    <3>1. /\ AtStep(exec, 3) \in Executions /\ AtStep(exec, 3).plan = exec.plan
          /\ AtStep(exec, 3).status = "running"
          /\ AtStep(exec, 3).expected = exec.expected /\ AtStep(exec, 3).step = 3
      BY <1>1, WithStep
    <3>2. exec' = Rendered(AtStep(exec, 3), made)
      BY <2>2 DEF Rendered, AtStep
    <3>3. QED
      BY <2>1, <3>1, <3>2, WithRender
  <2>4. runner' \in Runners /\ runner'.at = "idle"
    BY <1>2, StillTyped
  <2>5. RunnerInStep' /\ GuardIsCurrent' /\ ReportIsLinked'
    BY <1>2, <2>3, <2>4 DEF RunnerInStep, GuardIsCurrent, ReportIsLinked, Still
  <2>6. used' \in [edits : Nat, marks : Nat, deaths : Nat]
    BY <1>1 DEF ProtectionInv, ProtectionTypeOK
  <2>7. QED
    BY <1>1, <2>3, <2>4, <2>5, <2>6, RunnerKeeps
<1>3. CASE Fails
  BY <1>1, <1>3, FailsKeeps
<1>4. QED
  BY <1>2, <1>3 DEF Render

-------------------------------------------------------------------------------
(* The report.                                                                   *)

LEMMA OperationIs ==
  ASSUME exec \in Executions, exec.step = 3
  PROVE  Operation = <<exec.plan, "qa">> /\ exec.plan \in Nat
BY KindIs DEF Operation, Executions

LEMMA RunnerTyped ==
  ASSUME NEW r \in Runners,
         NEW at \in RunnerPlaces
  PROVE  [r EXCEPT !.at = at] \in Runners /\ [r EXCEPT !.at = at].at = at
BY DEF Runners

LEMMA FindReportKeeps ==
  ASSUME ProtectionInv, FindReport
  PROVE  ProtectionInv'
<1>1. /\ exec.status = "running" /\ exec.step = 3 /\ exec \in Executions /\ runner \in Runners
      /\ UNCHANGED <<project, records, reports, used, changes>>
  BY DEF FindReport, ProtectionInv, ProtectionTypeOK, RunnerInStep
<1>2. ASSUME NEW at \in {"evaluate", "link"}, runner' = [runner EXCEPT !.at = at], UNCHANGED exec,
             at = "evaluate" => \A r \in reports : r.id # <<exec.plan, "qa">>
      PROVE  ProtectionInv'
  <2>1. runner' \in Runners /\ runner'.at = at
    <3>1. at \in RunnerPlaces
      BY DEF RunnerPlaces
    <3>2. QED
      BY <1>1, <1>2, <3>1, RunnerTyped
  <2>2. RunnerInStep' /\ GuardIsCurrent'
    BY <1>1, <1>2, <2>1 DEF RunnerInStep, GuardIsCurrent
  <2>3. QED
    BY <1>1, <1>2, <2>1, <2>2, MovesKeeps
<1>3. CASE ReportsOf(Operation) = {} /\ runner' = [runner EXCEPT !.at = "evaluate"] /\ UNCHANGED exec
  <2>1. \A r \in reports : r.id # <<exec.plan, "qa">>
    BY <1>1, <1>3, OperationIs DEF ReportsOf
  <2>2. QED
    BY <1>2, <1>3, <2>1
<1>4. CASE runner' = [runner EXCEPT !.at = "link"] /\ UNCHANGED exec
  BY <1>2, <1>4
<1>5. CASE Fails
  BY <1>1, <1>5, FailsKeeps
<1>6. QED
  BY <1>3, <1>4, <1>5 DEF FindReport

LEMMA ReportTyped ==
  ASSUME ProtectionTypeOK, exec.step = 3, NEW probe \in Probes
  PROVE  LET r == Report(Operation, project, exec.render, probe)
         IN  r \in Reports /\ r.id = <<exec.plan, "qa">>
<1> DEFINE fs == Failures(project, exec.render, probe)
<1>1. exec \in Executions /\ project \in Projects
  BY DEF ProtectionTypeOK
<1>2. project.rev \in Nat /\ exec.render.rev \in Nat /\ Operation = <<exec.plan, "qa">> /\ exec.plan \in Nat
  BY <1>1, OperationIs DEF Executions, Projects
<1>3. StatusOf(fs) \in {"fail", "repair-recommended", "pass"}
  BY DEF StatusOf
<1>4. ActionsOf(fs) \in SUBSET {"full-rerender", "adjust-scene-timing", "other"}
  BY DEF ActionsOf
<1> HIDE DEF fs
<1>5. Report(Operation, project, exec.render, probe) =
        [id |-> <<exec.plan, "qa">>, rev |-> project.rev, source |-> exec.render.rev, linked |-> FALSE,
         status |-> StatusOf(fs), actions |-> ActionsOf(fs)]
  BY <1>2 DEF Report, fs
<1> DEFINE st == StatusOf(fs)
           ac == ActionsOf(fs)
           id == <<exec.plan, "qa">>
           a == project.rev
           b == exec.render.rev
<1>6. st \in {"fail", "repair-recommended", "pass"} /\ id \in Nat \X {"qa"}
      /\ a \in Nat /\ b \in Nat /\ ac \in SUBSET {"full-rerender", "adjust-scene-timing", "other"}
  BY <1>2, <1>3, <1>4
<1>7. Report(Operation, project, exec.render, probe) =
        [id |-> id, rev |-> a, source |-> b, linked |-> FALSE,
         status |-> st, actions |-> ac]
  BY <1>5
<1> HIDE DEF st, ac, id, a, b
<1>8. Report(Operation, project, exec.render, probe) \in Reports
      /\ Report(Operation, project, exec.render, probe).id = id
  BY <1>6, <1>7 DEF Reports
<1>9. QED
  BY <1>8 DEF id

LEMMA ChangesTyped ==
  ASSUME ProtectionTypeOK, NEW i \in DOMAIN changes
  PROVE  changes[i] \in Changes /\ changes[i].plan \in Nat
<1>1. changes[i] \in Changes
  BY DEF ProtectionTypeOK
<1>2. QED
  BY <1>1 DEF Changes

(* Steps that only add to the reports, or mark one of the newest plan.           *)
LEMMA ReportsKeep ==
  ASSUME ProtectionInv, UNCHANGED <<project, records, used, changes>>,
         exec.status = "running", exec' \in Executions, runner' \in Runners,
         exec'.plan = exec.plan, exec'.status \in {"running", "blocked"}, exec'.expected = exec.expected,
         reports' \in SUBSET Reports,
         \A r \in reports : r.id # <<exec.plan, "qa">> => r \in reports',
         RunnerInStep', ReportsApart', ReportIsLinked', GuardIsCurrent', runner'.at # "inspect"
  PROVE  ProtectionInv'
<1>1. ProtectionTypeOK' /\ Fits(project)'
  BY DEF ProtectionInv, ProtectionTypeOK, Fits
<1>2. RevisionsGrow'
  BY DEF ProtectionInv, RevisionsGrow
<1>3. ChangesArePast'
  BY DEF ProtectionInv, ChangesArePast
<1>4. EditsAreInspected'
  BY DEF ProtectionInv, AutonomyIsBounded, EditsAreInspected
<1>5. RepairIsDue'
  <2>1. ASSUME NEW i \in DOMAIN changes, changes[i].kind = "repair"
        PROVE  /\ \A j \in DOMAIN changes :
                    changes[j].plan = changes[i].plan /\ changes[j].kind = "repair" => j = i
               /\ RepairJustified(changes[i], reports')
    <3>1. changes[i].plan < exec.plan /\ changes[i].plan \in Nat /\ exec.plan \in Nat
      BY <2>1, ChangesTyped DEF ProtectionInv, ChangesArePast, ProtectionTypeOK, Executions
    <3>2. <<changes[i].plan, "qa">> # <<exec.plan, "qa">>
      BY <3>1
    <3>3. RepairJustified(changes[i], reports)
      BY <2>1 DEF ProtectionInv, AutonomyIsBounded, RepairIsDue, RepairJustified
    <3>4. RepairJustified(changes[i], reports')
      BY <3>2, <3>3 DEF RepairJustified
    <3>5. QED
      BY <2>1, <3>4 DEF ProtectionInv, AutonomyIsBounded, RepairIsDue
  <2>2. exec'.status # "completed"
    OBVIOUS
  <2>3. QED
    BY <2>1, <2>2 DEF RepairIsDue, RepairJustified
<1>6. QED
  BY <1>1, <1>2, <1>3, <1>4, <1>5 DEF ProtectionInv, AutonomyIsBounded

LEMMA EvaluateKeeps ==
  ASSUME ProtectionInv, Evaluate
  PROVE  ProtectionInv'
<1>1. /\ exec.status = "running" /\ exec.step = 3 /\ exec \in Executions /\ runner \in Runners
      /\ runner.at = "evaluate" /\ exec.plan \in Nat
      /\ UNCHANGED <<project, records, exec, used, changes>>
  BY DEF Evaluate, ProtectionInv, ProtectionTypeOK, RunnerInStep, Executions
<1>2. PICK n \in Reports : n.id = <<exec.plan, "qa">> /\ reports' = reports \union {n}
  BY <1>1, ReportTyped DEF Evaluate, ProtectionInv
<1>3. runner' \in Runners /\ runner'.at = "link"
  <2>1. "link" \in RunnerPlaces /\ runner' = [runner EXCEPT !.at = "link"]
    BY DEF RunnerPlaces, Evaluate
  <2>2. QED
    BY <1>1, <2>1, RunnerTyped
<1>4. reports' \in SUBSET Reports /\ \A r \in reports : r \in reports'
  BY <1>2 DEF ProtectionInv, ProtectionTypeOK
<1>5. RunnerInStep' /\ GuardIsCurrent' /\ ReportIsLinked'
  BY <1>1, <1>3 DEF RunnerInStep, GuardIsCurrent, ReportIsLinked
<1>6. ReportsApart'
  <2>1. \A r \in reports : r.id # <<exec.plan, "qa">>
    BY <1>1 DEF ProtectionInv, ReportsApart
  <2>2. \A r, s \in reports' : r.id = s.id => r = s
    BY <1>2, <2>1 DEF ProtectionInv, ReportsApart
  <2>3. \A r \in reports' : r.id[1] <= exec'.plan
    BY <1>1, <1>2 DEF ProtectionInv, ReportsApart
  <2>4. QED
    BY <1>3, <2>2, <2>3 DEF ReportsApart
<1>7. exec' \in Executions /\ exec'.plan = exec.plan /\ exec'.status = "running" /\ exec'.expected = exec.expected
      /\ runner'.at # "inspect"
  BY <1>1, <1>3
<1>8. QED
  BY <1>1, <1>3, <1>4, <1>5, <1>6, <1>7, ReportsKeep

LEMMA LinkKeeps ==
  ASSUME ProtectionInv, Link
  PROVE  ProtectionInv'
<1>1. /\ exec.status = "running" /\ exec.step = 3 /\ exec \in Executions /\ project \in Projects
      /\ exec.plan \in Nat /\ UNCHANGED <<project, records, used, changes>>
  BY DEF Link, ProtectionInv, ProtectionTypeOK, RunnerInStep, Executions
<1>2. PICK r \in reports : /\ r.id = <<exec.plan, "qa">>
                           /\ reports' = (reports \ {r}) \union {[r EXCEPT !.linked = TRUE]}
                           /\ IF Proven(r) THEN Completes(r.rev) ELSE Fails
  BY <1>1, OperationIs DEF Link, ReportsOf
<1> DEFINE n == [r EXCEPT !.linked = TRUE]
<1>3. n \in Reports /\ n.id = r.id /\ n.linked /\ n.rev = r.rev /\ n.source = r.source
  BY <1>2 DEF ProtectionInv, ProtectionTypeOK, Reports
<1>4. reports' = (reports \ {r}) \union {n}
  BY <1>2
<1> HIDE DEF n
<1>5. reports' \in SUBSET Reports /\ \A s \in reports : s.id # <<exec.plan, "qa">> => s \in reports'
  BY <1>2, <1>3, <1>4 DEF ProtectionInv, ProtectionTypeOK
<1>6. \A s, q \in reports' : s.id = q.id => s = q
  BY <1>2, <1>3, <1>4 DEF ProtectionInv, ReportsApart
<1>7. \A s \in reports' : s.id[1] <= exec.plan
  BY <1>2, <1>3, <1>4 DEF ProtectionInv, ReportsApart
<1>8. CASE Fails
  <2>1. /\ exec' \in Executions /\ exec'.plan = exec.plan /\ exec'.status = "blocked"
        /\ exec'.expected = exec.expected /\ runner' = Still /\ runner' \in Runners /\ runner'.at = "idle"
    BY <1>8, FailsIs DEF ProtectionInv
  <2>2. RunnerInStep' /\ ReportIsLinked' /\ GuardIsCurrent'
    BY <2>1, Zenon DEF RunnerInStep, ReportIsLinked, GuardIsCurrent, Still
  <2>3. ReportsApart'
    BY <1>6, <1>7, <2>1 DEF ReportsApart
  <2>4. QED
    BY <1>1, <1>5, <2>1, <2>2, <2>3, ReportsKeep
<1>9. CASE Proven(r) /\ project'.rev = r.rev
  <2>1. r.rev = exec.expected /\ r.source = exec.expected
    BY <1>9 DEF Proven
  <2>2. exec' = [exec EXCEPT !.step = @ + 1, !.expected = r.rev, !.begun = FALSE] /\ runner' = Still
    BY <1>1, <1>2, <1>9 DEF Completes, Steps
  <2>3. exec' = CompletedAt(exec, 4, r.rev)
    BY <1>1, <2>2 DEF CompletedAt
  <2>4. /\ exec' \in Executions /\ exec'.plan = exec.plan /\ exec'.status = "running"
        /\ exec'.expected = exec.expected /\ exec'.step = 4
    <3>1. r.rev \in Nat
      BY <1>2 DEF ProtectionInv, ProtectionTypeOK, Reports
    <3>2. exec \in Executions /\ 4 \in 1 .. 4 /\ exec.status = "running"
      BY <1>1
    <3>3. Continues(CompletedAt(exec, 4, r.rev), exec, 4, r.rev)
      BY <3>1, <3>2, WithCompletion
    <3>4. QED
      BY <2>1, <2>3, <3>2, <3>3 DEF Continues
  <2>5. runner' = Still /\ runner' \in Runners /\ runner'.at = "idle"
    BY <2>2, StillTyped
  <2>6. RunnerInStep' /\ GuardIsCurrent'
    BY <2>5, Zenon DEF RunnerInStep, GuardIsCurrent, Still
  <2>7. ReportIsLinked'
    BY <1>2, <1>3, <1>4, <2>1, <2>4 DEF ReportIsLinked
  <2>8. ReportsApart'
    BY <1>6, <1>7, <2>4, <2>5 DEF ReportsApart
  <2>9. QED
    BY <1>1, <1>5, <2>4, <2>5, <2>6, <2>7, <2>8, ReportsKeep
<1>10. QED
  BY <1>2, <1>8, <1>9 DEF Completes

-------------------------------------------------------------------------------
(* What a step goes by.                                                          *)

LEMMA EvidenceIs ==
  ASSUME ProtectionInv, NEW r \in reports, r.id = <<exec.plan, "qa">>
  PROVE  Evidence = r
<1>1. \E e \in reports : e.id = <<exec.plan, "qa">>
  OBVIOUS
<1>2. Evidence \in reports /\ Evidence.id = <<exec.plan, "qa">>
  BY <1>1 DEF Evidence
<1>3. QED
  BY <1>2 DEF ProtectionInv, ReportsApart

LEMMA LinkedEvidence ==
  ASSUME ProtectionInv, exec.status = "running", exec.step = 4
  PROVE  /\ Evidence \in reports /\ Evidence.id = <<exec.plan, "qa">> /\ Evidence.linked
         /\ Evidence.rev = exec.expected /\ Evidence.source = exec.expected
         /\ IsDue => Evidence.status # "pass" /\ Evidence.actions = {"adjust-scene-timing"}
         /\ (Evidence.status # "pass" /\ TimingOnly) => IsDue
         /\ Passes <=> Evidence.status = "pass"
<1>1. PICK r \in reports : r.id = <<exec.plan, "qa">> /\ r.linked /\ r.rev = exec.expected /\ r.source = exec.expected
  BY DEF ProtectionInv, ReportIsLinked
<1>2. Evidence = r
  BY <1>1, EvidenceIs
<1>3. \A s \in reports : s.id = <<exec.plan, "qa">> => s = r
  BY <1>1 DEF ProtectionInv, ReportsApart
<1>4. QED
  BY <1>1, <1>2, <1>3 DEF IsDue, Passes, TimingOnly

LEMMA HeadingTyped ==
  ASSUME NEW r \in Runners, NEW ts \in Targets
  PROVE  LET n == [r EXCEPT !.at = "load", !.targets = ts]
         IN  n \in Runners /\ n.at = "load" /\ n.targets = ts
BY DEF Runners, RunnerPlaces

LEMMA GoesOnIs ==
  ASSUME ProtectionTypeOK, exec.step \in {1, 4}, NEW by \in Seen, GoesOn(by)
  PROVE  /\ runner' \in Runners /\ runner'.by = by /\ runner'.targets = runner.targets
         /\ exec.step = 1 => runner'.at = "edit now"
         /\ exec.step = 4 => runner'.at = "repair now"
         /\ UNCHANGED exec
<1>1. runner \in Runners /\ exec \in Executions
  BY DEF ProtectionTypeOK
<1>2. /\ Admitted \in {"edit now", "repair now"}
      /\ exec.step = 1 => Admitted = "edit now"
      /\ exec.step = 4 => Admitted = "repair now"
  BY <1>1, KindIs DEF Admitted
<1>3. runner' = [runner EXCEPT !.at = Admitted, !.by = by] /\ UNCHANGED exec
  BY DEF GoesOn
<1> HIDE DEF Admitted
<1>4. runner' \in Runners /\ runner'.by = by /\ runner'.targets = runner.targets /\ runner'.at = Admitted
  BY <1>1, <1>2, <1>3 DEF Runners, RunnerPlaces
<1>5. QED
  BY <1>2, <1>3, <1>4

(* The runner is let in, or goes on because somebody may have made its edit.     *)
LEMMA GoesOnKeeps ==
  ASSUME ProtectionInv, UNCHANGED <<project, records, reports, used, changes>>,
         exec.status = "running", exec.step \in {1, 4}, NEW by \in Seen, GoesOn(by),
         project.rev = exec.expected =>
           \/ exec.step = 4 /\ Passes
           \/ /\ runner.targets = TargetsOf(exec.step, project)
              /\ by \in [Keys -> States]
              /\ LetIn(Decision(project, by, runner.targets))
              /\ (exec.step = 4 => IsDue)
  PROVE  ProtectionInv'
<1>1. /\ runner' \in Runners /\ runner'.by = by /\ runner'.targets = runner.targets
      /\ exec.step = 1 => runner'.at = "edit now"
      /\ exec.step = 4 => runner'.at = "repair now"
      /\ UNCHANGED exec
  BY GoesOnIs DEF ProtectionInv
<1>2. runner'.at # "idle" /\ runner'.at # "evaluate" /\ runner'.at # "inspect"
  BY <1>1
<1>3. RunnerInStep'
  BY <1>1 DEF RunnerInStep
<1>4. GuardIsCurrent'
  <2>1. Passes' <=> Passes
    BY <1>1 DEF Passes
  <2>2. IsDue' <=> IsDue
    BY <1>1 DEF IsDue
  <2>3. LetIn(Decision(project, by, runner.targets)) => LetIn(Decision(project, runner.by, runner.targets))'
    BY <1>1 DEF LetIn
  <2>4. project.rev = exec.expected => (exec.step = 4 /\ Passes') \/ WasLetIn'
    BY <1>1, <2>1, <2>2, <2>3 DEF WasLetIn
  <2>5. QED
    BY <1>1, <1>2, <2>4 DEF GuardIsCurrent
<1>5. QED
  BY <1>1, <1>2, <1>3, <1>4, MovesKeeps

(* The runner has resolved its targets and is about to load the project.         *)
LEMMA HeadsKeeps ==
  ASSUME ProtectionInv, UNCHANGED <<project, records, exec, reports, used, changes>>,
         exec.status = "running", exec.step \in {1, 4}, NEW ts \in Targets,
         runner' = [runner EXCEPT !.at = "load", !.targets = ts],
         ts = TargetsOf(exec.step, project), exec.step = 4 => IsDue
  PROVE  ProtectionInv'
<1>1. runner' \in Runners /\ runner'.at = "load" /\ runner'.targets = ts
  BY HeadingTyped DEF ProtectionInv, ProtectionTypeOK
<1>2. RunnerInStep'
  BY <1>1 DEF RunnerInStep
<1>3. IsDue' <=> IsDue
  BY DEF IsDue
<1>4. GuardIsCurrent'
  BY <1>1, <1>3 DEF GuardIsCurrent
<1>5. QED
  BY <1>1, <1>2, <1>4, MovesKeeps

LEMMA ResolveEditKeeps ==
  ASSUME ProtectionInv, ResolveEdit
  PROVE  ProtectionInv'
<1>1. exec.status = "running" /\ exec.step = 1 /\ UNCHANGED <<project, records, reports, used, changes>>
  BY DEF ResolveEdit, ProtectionInv, RunnerInStep
<1>2. VisualTargets \in Targets /\ VisualTargets = TargetsOf(exec.step, project)
  BY <1>1, KeysAndActions DEF TargetsOf
<1>3. CASE runner' = [runner EXCEPT !.at = "load", !.targets = VisualTargets] /\ UNCHANGED exec
  <2>1. PICK ts \in Targets : ts = VisualTargets
    BY <1>2
  <2>2. exec.step \in {1, 4} /\ ts = TargetsOf(exec.step, project) /\ UNCHANGED exec
        /\ runner' = [runner EXCEPT !.at = "load", !.targets = ts]
    BY <1>1, <1>2, <1>3, <2>1
  <2>3. UNCHANGED <<project, records, exec, reports, used, changes>> /\ (exec.step = 4 => IsDue) /\ exec.status = "running"
    BY <1>1, <2>2
  <2>4. QED
    BY <2>2, <2>3, HeadsKeeps
<1>4. CASE Fails
  BY <1>1, <1>4, FailsKeeps
<1>5. QED
  BY <1>3, <1>4 DEF ResolveEdit

LEMMA UnreadSeen == Unread \in Seen
BY DEF Unread, Seen

LEMMA ResolveRepairKeeps ==
  ASSUME ProtectionInv, ResolveRepair
  PROVE  ProtectionInv'
<1>1. exec.status = "running" /\ exec.step = 4 /\ UNCHANGED <<project, records, reports, used, changes>>
  BY DEF ResolveRepair, ProtectionInv, RunnerInStep
<1>2. RepairTargets(project) \in Targets /\ RepairTargets(project) = TargetsOf(exec.step, project)
  BY <1>1, KeysAndActions DEF TargetsOf
<1>3. CASE Evidence.status = "pass" /\ GoesOn(Unread)
  <2>1. Passes
    BY <1>1, <1>3, LinkedEvidence
  <2>2. QED
    BY <1>1, <1>3, <2>1, UnreadSeen, GoesOnKeeps
<1>4. CASE /\ ~(Current /\ Evidence.status = "pass") /\ TimingOnly
           /\ runner' = [runner EXCEPT !.at = "load", !.targets = RepairTargets(project)] /\ UNCHANGED exec
  <2>1. Evidence.status # "pass" /\ IsDue
    BY <1>1, <1>4, LinkedEvidence DEF Current
  <2>2. QED
    BY <1>1, <1>2, <1>4, <2>1, HeadsKeeps
<1>5. CASE Fails
  BY <1>1, <1>5, FailsKeeps
<1>6. QED
  BY <1>3, <1>4, <1>5 DEF ResolveRepair

LEMMA LoadProjectKeeps ==
  ASSUME ProtectionInv, LoadProject
  PROVE  ProtectionInv'
<1>1. /\ exec.status = "running" /\ exec.step \in {1, 4} /\ runner.at = "load" /\ runner \in Runners
      /\ project \in Projects /\ exec.expected \in Nat /\ project.rev \in Nat
      /\ UNCHANGED <<project, records, reports, used, changes>>
  BY DEF LoadProject, ProtectionInv, RunnerInStep, ProtectionTypeOK, Executions, Projects
<1>2. CASE project.rev = exec.expected /\ runner' = [runner EXCEPT !.at = "inspect", !.saw = project] /\ UNCHANGED exec
  <2>1. /\ runner' \in Runners /\ runner'.at = "inspect" /\ runner'.saw = project
        /\ runner'.targets = runner.targets
    BY <1>1, <1>2 DEF Runners, RunnerPlaces
  <2>2. RunnerInStep'
    BY <1>1, <1>2, <2>1 DEF RunnerInStep
  <2>3. IsDue' <=> IsDue
    BY <1>1, <1>2 DEF IsDue
  <2>4. runner.targets = TargetsOf(exec.step, project) /\ (exec.step = 4 => IsDue)
    BY <1>1, <1>2 DEF ProtectionInv, GuardIsCurrent
  <2>5. GuardIsCurrent'
    BY <1>1, <1>2, <2>1, <2>3, <2>4 DEF GuardIsCurrent
  <2>6. QED
    BY <1>1, <1>2, <2>1, <2>2, <2>5, MovesKeeps
<1>3. CASE project.rev = exec.expected + 1 /\ GoesOn(Unread)
  <2>1. project.rev # exec.expected
    BY <1>1, <1>3
  <2>2. QED
    BY <1>1, <1>3, <2>1, UnreadSeen, GoesOnKeeps
<1>4. CASE Fails
  BY <1>1, <1>4, FailsKeeps
<1>5. QED
  BY <1>2, <1>3, <1>4 DEF LoadProject

LEMMA InspectKeeps ==
  ASSUME ProtectionInv, Inspect
  PROVE  ProtectionInv'
<1>1. /\ exec.status = "running" /\ exec.step \in {1, 4} /\ runner.at = "inspect"
      /\ records \in [Keys -> States] /\ records \in Seen
      /\ UNCHANGED <<project, records, reports, used, changes>>
  BY DEF Inspect, ProtectionInv, RunnerInStep, ProtectionTypeOK, Seen
<1>2. CASE LetIn(Decision(runner.saw, records, runner.targets)) /\ GoesOn(records)
  <2>1. project.rev = exec.expected =>
           /\ runner.targets = TargetsOf(exec.step, project)
           /\ records \in [Keys -> States]
           /\ LetIn(Decision(project, records, runner.targets))
           /\ (exec.step = 4 => IsDue)
    BY <1>1, <1>2 DEF ProtectionInv, GuardIsCurrent
  <2>2. QED
    BY <1>1, <1>2, <2>1, GoesOnKeeps
<1>3. CASE Fails
  BY <1>1, <1>3, FailsKeeps
<1>4. QED
  BY <1>2, <1>3 DEF Inspect

-------------------------------------------------------------------------------
(* What a change touches.                                                        *)

LEMMA EditIsInspected ==
  ASSUME project \in Projects, Fits(project), ~Present(project, "new"),
         NEW by \in [Keys -> States], LetIn(Decision(project, by, VisualTargets)),
         NEW c, c.from = project, c.to = Becomes(project, Illustrated(project)),
         c.targets = VisualTargets, c.by = by, c.approved = exec.terms.approved
  PROVE  ChangeInspected(c)
<1>1. /\ c.to.length = project.length
      /\ \A t \in Things : t # "new" => c.to.at[t] = project.at[t]
  BY IllustratedIs, BecomesIs
<1>2. Touched(c) \subseteq {"new", "motion"}
  <2>1. \A t \in Things : c.from.at[t] # c.to.at[t] => t = "new"
    BY <1>1
  <2>2. \A track \in Tracks : \A t \in Clips :
          (TrackOf(t) = {track} /\ ~Present(c.from, t) /\ Present(c.to, t)) => track = "motion"
    <3>1. "clip" \in Things /\ c.to.at["clip"] = project.at["clip"]
      BY <1>1 DEF Things, Clips
    <3>2. Present(c.to, "clip") => Present(c.from, "clip")
      BY <3>1 DEF Present
    <3>3. TrackOf("new") = {"motion"}
      BY DEF TrackOf
    <3>4. QED
      BY <3>2, <3>3 DEF Clips
  <2>3. QED
    BY <1>1, <2>1, <2>2 DEF Touched
<1>3. <<"motion", "append">> \in VisualTargets /\ <<"new", "create">> \in VisualTargets
  BY DEF VisualTargets
<1>4. /\ ~Blocked(project, by, "motion", "append") /\ ~Blocked(project, by, "new", "create")
      /\ exec.terms.approved \/ (~InReview(project, by, "motion", "append") /\ ~InReview(project, by, "new", "create"))
  <2>1. \A t \in VisualTargets : /\ ~Blocked(project, by, t[1], t[2])
                                 /\ exec.terms.approved \/ ~InReview(project, by, t[1], t[2])
    BY LetInSays
  <2>2. QED
    BY <1>3, <2>1
<1>5. "motion" \in Tracks /\ Present(project, "motion") /\ {"motion", "new"} \subseteq Keys
  BY DEF Tracks, Present, Things, Clips, Scenes, Keys
<1>6. ~Locked(project, "motion") /\ ~Locked(project, "new")
  <2>1. ~Locked(project, "motion")
    BY <1>4, <1>5 DEF Blocked
  <2>2. TrackOf("motion") = TrackOf("new")
    BY DEF TrackOf, Tracks
  <2>3. QED
    BY <2>1, <2>2 DEF Locked
<1>7. by["motion"] \in States /\ by["new"] \in States /\ by["motion"] # "protected" /\ by["new"] # "protected"
  BY <1>4, <1>5 DEF Blocked
<1>8. exec.terms.approved \/ (by["motion"] \in {"none", "ai-owned"} /\ by["new"] \in {"none", "ai-owned"})
  BY <1>4, <1>7 DEF InReview, States
<1>9. ASSUME NEW k \in {"new", "motion"}
      PROVE  /\ \E t \in c.targets : t[1] = k
             /\ ~Locked(c.from, k) /\ c.by[k] # "protected"
             /\ c.approved \/ c.by[k] = "ai-owned" \/ (c.by[k] = "none" /\ (k \in Tracks \/ ~Present(c.from, k)))
  <2>1. \E t \in c.targets : t[1] = k
    BY <1>3
  <2>2. QED
    BY <1>5, <1>6, <1>7, <1>8, <2>1
<1>10. QED
  BY <1>2, <1>9 DEF ChangeInspected

LEMMA RepairIsInspected ==
  ASSUME project \in Projects, Fits(project),
         NEW by \in [Keys -> States], LetIn(Decision(project, by, RepairTargets(project))),
         NEW c, c.from = project, c.to = Becomes(project, Trimmed(project)),
         c.targets = RepairTargets(project), c.by = by, c.approved = exec.terms.approved
  PROVE  ChangeInspected(c)
<1>1. c.to.at = Trimmed(project).at
  BY TrimmedIs, BecomesIs
<1>2. \A t \in Things : c.to.at[t] # c.from.at[t] => t \in Late(project) \/ t \in Overlong(project)
  BY <1>1, TrimmedPlace
<1>3. \A t \in Things : (~Present(c.from, t)) => ~Present(c.to, t)
  <2>1. ASSUME NEW t \in Things, ~Present(c.from, t)
        PROVE  ~Present(c.to, t)
    <3>1. t \notin Late(project) /\ t \notin Overlong(project)
      BY <2>1 DEF Late, Overlong
    <3>2. c.to.at[t] = c.from.at[t]
      BY <1>2, <3>1
    <3>3. QED
      BY <2>1, <3>2 DEF Present
  <2>2. QED
    BY <2>1
<1>4. Touched(c) \subseteq {"canvas"} \cup Late(project) \cup Overlong(project)
  <2>1. Clips \subseteq Things
    BY DEF Things
  <2>2. QED
    BY <1>2, <1>3, <2>1 DEF Touched
<1>5. ASSUME NEW k \in {"canvas"} \cup Late(project) \cup Overlong(project)
      PROVE  /\ \E t \in c.targets : t[1] = k
             /\ ~Locked(c.from, k) /\ c.by[k] # "protected"
             /\ c.approved \/ c.by[k] = "ai-owned" \/ (c.by[k] = "none" /\ (k \in Tracks \/ ~Present(c.from, k)))
  <2>1. Present(project, k) /\ k \in Keys
    BY DEF Present, Late, Overlong, Things, Clips, Scenes, Tracks, Keys
  <2>2. PICK action \in {"modify", "remove"} : <<k, action>> \in RepairTargets(project)
    BY DEF RepairTargets
  <2>3. \A t \in RepairTargets(project) : /\ ~Blocked(project, by, t[1], t[2])
                                          /\ exec.terms.approved \/ ~InReview(project, by, t[1], t[2])
    BY LetInSays
  <2>4. ~Blocked(project, by, k, action) /\ (exec.terms.approved \/ ~InReview(project, by, k, action))
    BY <2>2, <2>3
  <2>5. ~Locked(project, k) /\ by[k] # "protected" /\ by[k] \in States
    BY <2>1, <2>4 DEF Blocked
  <2>6. exec.terms.approved \/ by[k] = "ai-owned"
    BY <2>4, <2>5 DEF InReview, States
  <2>7. \E t \in c.targets : t[1] = k
    BY <2>2
  <2>8. QED
    BY <2>5, <2>6, <2>7
<1>6. QED
  BY <1>4, <1>5 DEF ChangeInspected

-------------------------------------------------------------------------------
(* A transaction, and the ends of steps.                                         *)

LEMMA Appended ==
  ASSUME NEW s \in Seq(Changes), NEW c \in Changes
  PROVE  /\ Append(s, c) \in Seq(Changes) /\ Len(s) \in Nat
         /\ DOMAIN s = 1 .. Len(s) /\ DOMAIN Append(s, c) = 1 .. (Len(s) + 1)
         /\ \A i \in 1 .. Len(s) : Append(s, c)[i] = s[i]
         /\ Append(s, c)[Len(s) + 1] = c
OBVIOUS

(* An end of a step that finds the project at the revision it names.             *)
LEMMA CompletesIs ==
  ASSUME ProtectionTypeOK, exec.status = "running", exec.step \in {1, 4}, NEW rev \in Nat,
         project'.rev = rev, Completes(rev)
  PROVE  /\ exec' \in Executions /\ exec'.plan = exec.plan /\ exec'.expected = rev
         /\ exec.step = 1 => exec'.status = "running" /\ exec'.step = 2
         /\ exec.step = 4 => exec'.status = "completed"
         /\ runner' = Still /\ runner' \in Runners /\ runner'.at = "idle"
<1>1. exec \in Executions
  BY DEF ProtectionTypeOK
<1>2. runner' = Still /\ runner' \in Runners /\ runner'.at = "idle"
  BY StillTyped DEF Completes, Fails
<1>3. CASE exec.step = 1
  <2>1. exec' = CompletedAt(exec, 2, rev)
    BY <1>3 DEF Completes, CompletedAt, Steps
  <2>2. Continues(CompletedAt(exec, 2, rev), exec, 2, rev)
    <3>1. exec \in Executions /\ 2 \in 1 .. 4 /\ rev \in Nat
      BY <1>1
    <3>2. QED
      BY <3>1, WithCompletion
  <2>3. exec.step # 4
    BY <1>3
  <2>4. QED
    BY <1>2, <1>3, <2>1, <2>2, <2>3 DEF Continues
<1>4. CASE exec.step = 4
  <2>1. exec' = [exec EXCEPT !.status = "completed", !.expected = rev]
    BY <1>4 DEF Completes, Steps
  <2>2. exec' \in Executions /\ exec'.plan = exec.plan /\ exec'.status = "completed" /\ exec'.expected = rev
    BY <1>1, <2>1 DEF Executions
  <2>3. QED
    BY <1>2, <1>4, <2>2
<1>5. QED
  BY <1>3, <1>4

(* The edit finds its clip in the project, or the repair has nothing to do.      *)
LEMMA LeavesKeeps ==
  ASSUME ProtectionInv, UNCHANGED <<project, records, reports, used, changes>>,
         exec.status = "running", exec.step \in {1, 4}, Completes(exec.expected),
         exec.step = 4 => Evidence.status = "pass"
  PROVE  ProtectionInv'
<1>1. CASE project'.rev # exec.expected
  BY <1>1, FailsKeeps DEF Completes
<1>2. CASE project'.rev = exec.expected
  <2>1. exec.expected \in Nat
    BY DEF ProtectionInv, ProtectionTypeOK, Executions
  <2>2. /\ exec' \in Executions /\ exec'.plan = exec.plan /\ exec'.expected = exec.expected
        /\ exec.step = 1 => exec'.status = "running" /\ exec'.step = 2
        /\ exec.step = 4 => exec'.status = "completed"
        /\ runner' = Still /\ runner' \in Runners /\ runner'.at = "idle"
    BY <1>2, <2>1, CompletesIs DEF ProtectionInv
  <2>3. ProtectionTypeOK' /\ Fits(project)'
    BY <2>2 DEF ProtectionInv, ProtectionTypeOK, Fits
  <2>4. RunnerInStep' /\ GuardIsCurrent' /\ ReportIsLinked'
    BY <2>2 DEF RunnerInStep, GuardIsCurrent, ReportIsLinked, Still
  <2>5. RevisionsGrow' /\ ReportsApart' /\ ChangesArePast'
    BY <2>2 DEF ProtectionInv, RevisionsGrow, ReportsApart, ChangesArePast
  <2>6. EditsAreInspected'
    BY DEF ProtectionInv, AutonomyIsBounded, EditsAreInspected
  <2>7. RepairIsDue'
    <3>1. exec'.status = "completed" =>
            \E r \in reports : /\ r.id = <<exec.plan, "qa">> /\ r.linked /\ r.source = r.rev
                               /\ r.rev = exec.expected /\ r.status = "pass"
      BY <2>2, LinkedEvidence
    <3>2. QED
      BY <2>2, <3>1 DEF ProtectionInv, AutonomyIsBounded, RepairIsDue
  <2>8. QED
    BY <2>3, <2>4, <2>5, <2>6, <2>7 DEF ProtectionInv, AutonomyIsBounded
<1>3. QED
  BY <1>1, <1>2

LEMMA TransactKeeps ==
  ASSUME ProtectionInv, UNCHANGED <<records, reports, used>>,
         exec.status = "running", exec.step \in {1, 4}, project.rev = exec.expected,
         NEW q \in Projects, Fits(q), Transact(q),
         NEW c, c = [kind |-> Kind, plan |-> exec.plan, from |-> project, to |-> Becomes(project, q),
                     targets |-> runner.targets, by |-> runner.by, approved |-> exec.terms.approved],
         ChangeInspected(c), exec.step = 4 => RepairJustified(c, reports)
  PROVE  ProtectionInv'
<1>1. /\ project \in Projects /\ exec \in Executions /\ runner \in Runners /\ changes \in Seq(Changes)
      /\ project.rev \in Nat /\ exec.plan \in Nat /\ exec.terms.approved \in BOOLEAN
      /\ runner.targets \in Targets /\ runner.by \in Seen
  BY DEF ProtectionInv, ProtectionTypeOK, Projects, Executions, Runners, Offers
<1>2. project' = Becomes(project, q) /\ project' \in Projects /\ project'.rev = project.rev + 1
      /\ project'.at = q.at /\ project'.length = q.length
  BY <1>1, BecomesIs DEF Transact
<1>3. Kind \in {"edit", "repair"} /\ (exec.step = 1 => Kind = "edit") /\ (exec.step = 4 => Kind = "repair")
  BY <1>1, KindIs
<1>4. c \in Changes /\ c.kind = Kind /\ c.plan = exec.plan /\ c.from = project /\ c.to = project'
  <2> DEFINE k == Kind
             n == exec.plan
             p == project
             d == Becomes(project, q)
             ts == runner.targets
             b == runner.by
             a == exec.terms.approved
  <2>1. k \in {"edit", "repair"} /\ n \in Nat /\ p \in Projects /\ d \in Projects /\ ts \in Targets /\ b \in Seen
        /\ a \in BOOLEAN
    BY <1>1, <1>2, <1>3
  <2>2. c = [kind |-> k, plan |-> n, from |-> p, to |-> d, targets |-> ts, by |-> b, approved |-> a]
    OBVIOUS
  <2>3. d = project'
    BY <1>2
  <2> HIDE DEF k, n, p, d, ts, b, a
  <2>4. c \in Changes /\ c.kind = k /\ c.plan = n /\ c.from = p /\ c.to = d
    BY <2>1, <2>2 DEF Changes
  <2>5. QED
    BY <2>3, <2>4 DEF k, n, p
<1>5. changes' = Append(changes, c)
  BY <1>2 DEF Transact
<1>6. /\ changes' \in Seq(Changes) /\ Len(changes) \in Nat
      /\ DOMAIN changes = 1 .. Len(changes) /\ DOMAIN changes' = 1 .. (Len(changes) + 1)
      /\ \A i \in 1 .. Len(changes) : changes'[i] = changes[i]
      /\ changes'[Len(changes) + 1] = c
  BY <1>1, <1>4, <1>5, Appended
<1>7. /\ exec' \in Executions /\ exec'.plan = exec.plan /\ exec'.expected = project.rev + 1
      /\ exec.step = 1 => exec'.status = "running" /\ exec'.step = 2
      /\ exec.step = 4 => exec'.status = "completed"
      /\ runner' = Still /\ runner' \in Runners /\ runner'.at = "idle"
  <2>1. project.rev + 1 \in Nat /\ project'.rev = project.rev + 1 /\ Completes(project.rev + 1)
    BY <1>1, <1>2 DEF Transact
  <2>2. QED
    BY <2>1, CompletesIs DEF ProtectionInv
<1>8. ProtectionTypeOK'
  BY <1>2, <1>6, <1>7 DEF ProtectionInv, ProtectionTypeOK
<1>9. Fits(project)'
  BY <1>2 DEF Fits
<1>10. RunnerInStep' /\ GuardIsCurrent' /\ ReportIsLinked'
  BY <1>7 DEF RunnerInStep, GuardIsCurrent, ReportIsLinked, Still
<1>11. RevisionsGrow' /\ ReportsApart'
  BY <1>1, <1>2, <1>7 DEF ProtectionInv, RevisionsGrow, ReportsApart
<1>12. ASSUME NEW i \in DOMAIN changes'
       PROVE  \/ i \in DOMAIN changes /\ changes'[i] = changes[i]
              \/ i = Len(changes) + 1 /\ changes'[i] = c
  BY <1>6
<1>13. \A i \in DOMAIN changes : /\ changes[i].plan \in Nat /\ changes[i].plan <= exec.plan
                                 /\ changes[i].kind = "repair" => changes[i].plan < exec.plan
  BY ChangesTyped DEF ProtectionInv, ChangesArePast
<1>14. ChangesArePast'
  <2>1. ASSUME NEW i \in DOMAIN changes'
        PROVE  /\ changes'[i].plan <= exec'.plan
               /\ (exec'.status = "running" /\ changes'[i].kind = "repair") => changes'[i].plan < exec'.plan
    <3>1. CASE i \in DOMAIN changes /\ changes'[i] = changes[i]
      BY <1>7, <1>13, <3>1
    <3>2. CASE changes'[i] = c
      BY <1>1, <1>3, <1>4, <1>7, <3>2
    <3>3. QED
      BY <1>12, <3>1, <3>2
  <2>2. QED
    BY <2>1 DEF ChangesArePast
<1>15. EditsAreInspected'
  <2>1. \A i \in DOMAIN changes : ChangeInspected(changes[i])
    BY DEF ProtectionInv, AutonomyIsBounded, EditsAreInspected, ChangeInspected
  <2>2. \A i \in DOMAIN changes' : ChangeInspected(changes'[i])
    BY <1>12, <2>1
  <2>3. QED
    BY <2>2 DEF EditsAreInspected, ChangeInspected
<1>16. RepairIsDue'
  <2>1. ASSUME NEW i \in DOMAIN changes', changes'[i].kind = "repair"
        PROVE  RepairJustified(changes'[i], reports)
    <3>1. \A j \in DOMAIN changes : changes[j].kind = "repair" => RepairJustified(changes[j], reports)
      BY DEF ProtectionInv, AutonomyIsBounded, RepairIsDue, RepairJustified
    <3>2. QED
      BY <1>3, <1>4, <1>12, <2>1, <3>1
  <2>2. ASSUME NEW i \in DOMAIN changes', NEW j \in DOMAIN changes',
               changes'[i].kind = "repair", changes'[j].kind = "repair", changes'[j].plan = changes'[i].plan
        PROVE  j = i
    <3>1. \A k, l \in DOMAIN changes :
            (changes[k].kind = "repair" /\ changes[l].kind = "repair" /\ changes[l].plan = changes[k].plan) => l = k
      BY DEF ProtectionInv, AutonomyIsBounded, RepairIsDue
    <3>2. QED
      BY <1>1, <1>4, <1>12, <1>13, <2>2, <3>1
  <2>3. ASSUME exec'.status = "completed"
        PROVE  \E r \in reports :
                 /\ r.id = <<exec'.plan, "qa">> /\ r.linked /\ r.source = r.rev
                 /\ \E i \in DOMAIN changes' : /\ changes'[i].plan = exec'.plan /\ changes'[i].kind = "repair"
                                               /\ changes'[i].from.rev = r.rev /\ changes'[i].to.rev = exec'.expected
    <3>1. exec.step = 4
      BY <1>7, <2>3
    <3>2. PICK r \in reports : r.id = <<exec.plan, "qa">> /\ r.linked /\ r.rev = exec.expected /\ r.source = exec.expected
      BY <3>1 DEF ProtectionInv, ReportIsLinked
    <3>3. PICK i \in DOMAIN changes' : changes'[i] = c
      BY <1>6
    <3>4. c.kind = "repair" /\ c.plan = exec'.plan /\ c.from.rev = r.rev /\ c.to.rev = exec'.expected
      BY <1>2, <1>3, <1>4, <1>7, <3>1, <3>2
    <3>5. QED
      BY <1>7, <3>2, <3>3, <3>4
  <2>4. QED
    BY <2>1, <2>2, <2>3, Zenon DEF RepairIsDue, RepairJustified
<1>17. QED
  BY <1>8, <1>9, <1>10, <1>11, <1>14, <1>15, <1>16 DEF ProtectionInv, AutonomyIsBounded

LEMMA ApplyEditKeeps ==
  ASSUME ProtectionInv, ApplyEdit
  PROVE  ProtectionInv'
<1>1. /\ exec.status = "running" /\ exec.step = 1 /\ runner.at = "edit now"
      /\ project \in Projects /\ Fits(project) /\ UNCHANGED <<records, reports, used>>
  BY DEF ApplyEdit, ProtectionInv, RunnerInStep, ProtectionTypeOK
<1>2. CASE Fails /\ Leaves
  BY <1>1, <1>2, FailsKeeps DEF Leaves
<1>3. CASE Expected(project) /\ Present(project, "new") /\ Leaves /\ Completes(project.rev)
  <2>1. project.rev = exec.expected /\ UNCHANGED <<project, records, reports, used, changes>>
    BY <1>1, <1>3 DEF Expected, Leaves
  <2>2. Completes(exec.expected)
    BY <1>3, <2>1, Zenon
  <2>3. exec.step \in {1, 4} /\ (exec.step = 4 => Evidence.status = "pass")
    <3>1. exec.step = 1
      BY <1>1
    <3>2. QED
      BY <3>1
  <2>4. QED
    BY <1>1, <2>1, <2>2, <2>3, LeavesKeeps
<1>4. CASE Expected(project) /\ ~Present(project, "new") /\ Transact(Illustrated(project))
  <2>1. project.rev = exec.expected
    BY <1>4 DEF Expected
  <2>2. /\ runner.targets = VisualTargets /\ runner.by \in [Keys -> States]
        /\ LetIn(Decision(project, runner.by, VisualTargets))
    BY <1>1, <2>1 DEF ProtectionInv, GuardIsCurrent, WasLetIn, TargetsOf
  <2> DEFINE c == [kind |-> Kind, plan |-> exec.plan, from |-> project, to |-> Becomes(project, Illustrated(project)),
                   targets |-> runner.targets, by |-> runner.by, approved |-> exec.terms.approved]
  <2>3. /\ c.from = project /\ c.to = Becomes(project, Illustrated(project)) /\ c.targets = VisualTargets
        /\ c.by = runner.by /\ c.approved = exec.terms.approved
    BY <2>2
  <2>4. ChangeInspected(c)
    <3> HIDE DEF c
    <3>1. QED
      BY <1>1, <1>4, <2>2, <2>3, EditIsInspected
  <2>5. Illustrated(project) \in Projects /\ Fits(Illustrated(project))
    <3>1. Illustrated(project) \in Projects /\ Illustrated(project).length = project.length
          /\ \A t \in Things : t # "new" => Illustrated(project).at[t] = project.at[t]
      BY <1>1, IllustratedIs
    <3>2. Illustrated(project).at["new"] = <<0, 1>>
      BY <1>1 DEF Illustrated, Projects, Things, Clips
    <3>3. project.length \in Nat /\ project.length > 0
      <4>1. project.length \in Nat \ {0}
        BY <1>1 DEF Projects
      <4>2. QED
        BY <4>1
    <3>4. <<0, 1>> \in Spans(project.length)
      BY <3>3 DEF Spans
    <3>5. QED
      BY <1>1, <3>1, <3>2, <3>4 DEF Fits
  <2> HIDE DEF c
  <2>6. exec.step \in {1, 4} /\ (exec.step = 4 => RepairJustified(c, reports))
    <3>1. exec.step = 1
      BY <1>1
    <3>2. QED
      BY <3>1
  <2>7. c = [kind |-> Kind, plan |-> exec.plan, from |-> project, to |-> Becomes(project, Illustrated(project)),
             targets |-> runner.targets, by |-> runner.by, approved |-> exec.terms.approved]
    BY DEF c
  <2>8. PICK q \in Projects : q = Illustrated(project)
    BY <2>5
  <2>9. Fits(q) /\ Transact(q)
        /\ c = [kind |-> Kind, plan |-> exec.plan, from |-> project, to |-> Becomes(project, q),
                targets |-> runner.targets, by |-> runner.by, approved |-> exec.terms.approved]
    BY <1>4, <2>5, <2>7, <2>8
  <2>10. QED
    BY <1>1, <2>1, <2>4, <2>6, <2>9, TransactKeeps
<1>5. QED
  BY <1>2, <1>3, <1>4 DEF ApplyEdit

LEMMA ApplyRepairKeeps ==
  ASSUME ProtectionInv, ApplyRepair
  PROVE  ProtectionInv'
<1>1. /\ exec.status = "running" /\ exec.step = 4 /\ runner.at = "repair now"
      /\ project \in Projects /\ Fits(project) /\ UNCHANGED <<records, reports, used>>
  BY DEF ApplyRepair, ProtectionInv, RunnerInStep, ProtectionTypeOK
<1>2. CASE Fails /\ Leaves
  BY <1>1, <1>2, FailsKeeps DEF Leaves
<1>3. CASE Evidence.status = "pass" /\ Leaves /\ Completes(exec.expected)
  <2>1. UNCHANGED <<project, records, reports, used, changes>>
    BY <1>1, <1>3 DEF Leaves
  <2>2. QED
    BY <1>1, <1>3, <2>1, LeavesKeeps
<1>4. CASE Evidence.status # "pass" /\ Expected(project) /\ Transact(Trimmed(project))
  <2>1. project.rev = exec.expected
    BY <1>4 DEF Expected
  <2>2. ~Passes
    BY <1>1, <1>4, LinkedEvidence
  <2>3. /\ runner.targets = RepairTargets(project) /\ runner.by \in [Keys -> States]
        /\ LetIn(Decision(project, runner.by, RepairTargets(project))) /\ IsDue
    <3>1. WasLetIn
      BY <1>1, <2>1, <2>2 DEF ProtectionInv, GuardIsCurrent
    <3>2. TargetsOf(exec.step, project) = RepairTargets(project)
      <4>1. exec.step = 4
        BY <1>1
      <4>2. exec.step = 4 => exec.step # 1
        OBVIOUS
      <4>3. QED
        BY <4>1, <4>2 DEF TargetsOf
    <3>3. QED
      BY <1>1, <3>1, <3>2 DEF WasLetIn
  <2>4. /\ Trimmed(project) \in Projects /\ Fits(Trimmed(project))
        /\ Trimmed(project).length = Target /\ Trimmed(project).at = Trimmed(project).at
    BY <1>1, TrimmedIs
  <2>5. PICK q \in Projects : q = Trimmed(project)
    BY <2>4
  <2> DEFINE c == [kind |-> Kind, plan |-> exec.plan, from |-> project, to |-> Becomes(project, q),
                   targets |-> runner.targets, by |-> runner.by, approved |-> exec.terms.approved]
  <2>6. /\ c.from = project /\ c.to = Becomes(project, q) /\ c.targets = runner.targets
        /\ c.by = runner.by /\ c.approved = exec.terms.approved /\ c.plan = exec.plan
    OBVIOUS
  <2>7. c = [kind |-> Kind, plan |-> exec.plan, from |-> project, to |-> Becomes(project, q),
             targets |-> runner.targets, by |-> runner.by, approved |-> exec.terms.approved]
    OBVIOUS
  <2> HIDE DEF c
  <2>8. ChangeInspected(c)
    BY <1>1, <2>3, <2>5, <2>6, RepairIsInspected
  <2>9. RepairJustified(c, reports)
    <3>1. /\ Evidence \in reports /\ Evidence.id = <<c.plan, "qa">> /\ Evidence.linked
          /\ Evidence.rev = c.from.rev /\ Evidence.source = c.from.rev
          /\ Evidence.status # "pass" /\ Evidence.actions = {"adjust-scene-timing"}
      BY <1>1, <2>1, <2>3, <2>6, LinkedEvidence
    <3>2. c.to.at = q.at /\ c.to.length = q.length
      <4>1. project \in Projects /\ q \in Projects /\ c.to = Becomes(project, q)
        BY <1>1, <2>5, <2>6
      <4>2. Becomes(project, q).at = q.at /\ Becomes(project, q).length = q.length
        BY <4>1, BecomesIs
      <4>3. QED
        BY <4>1, <4>2
    <3>3. Fits(c.to) /\ c.to.length = Target
      BY <2>4, <2>5, <3>2 DEF Fits
    <3>4. QED
      BY <3>1, <3>3 DEF RepairJustified
  <2>10. Fits(q) /\ Transact(q) /\ exec.step \in {1, 4}
    BY <1>1, <1>4, <2>4, <2>5
  <2>11. QED
    BY <1>1, <2>1, <2>7, <2>8, <2>9, <2>10, TransactKeeps
<1>5. QED
  BY <1>2, <1>3, <1>4 DEF ApplyRepair

-------------------------------------------------------------------------------
(* Users, and plans.                                                             *)

LEMMA RepairsUndisturbed ==
  ASSUME RepairIsDue, UNCHANGED <<exec, reports, changes>>
  PROVE  RepairIsDue'
BY ZenonT(30) DEF RepairIsDue

(* A project edited by someone else.                                             *)
LEMMA EditedKeeps ==
  ASSUME ProtectionInv, UNCHANGED <<records, exec, runner, reports, changes>>,
         used' \in [edits : Nat, marks : Nat, deaths : Nat],
         project' \in Projects, project'.rev = project.rev + 1, Fits(project')
  PROVE  ProtectionInv'
<1>1. project.rev \in Nat /\ exec.expected \in Nat /\ exec.expected <= project.rev
  BY DEF ProtectionInv, ProtectionTypeOK, Projects, Executions, RevisionsGrow
<1>2. ProtectionTypeOK' /\ Fits(project)'
  BY DEF ProtectionInv, ProtectionTypeOK, Fits
<1>3. RunnerInStep' /\ ReportIsLinked'
  BY DEF ProtectionInv, RunnerInStep, ReportIsLinked
<1>4. ReportsApart' /\ ChangesArePast'
  BY DEF ProtectionInv, ReportsApart, ChangesArePast
<1>5. RevisionsGrow'
  BY <1>1 DEF ProtectionInv, RevisionsGrow
<1>6. GuardIsCurrent'
  <2>1. project'.rev # exec'.expected
    BY <1>1
  <2>2. QED
    BY <2>1 DEF GuardIsCurrent
<1>7. EditsAreInspected'
  BY DEF ProtectionInv, AutonomyIsBounded, EditsAreInspected
<1>8. RepairIsDue'
  <2>1. RepairIsDue
    BY DEF ProtectionInv, AutonomyIsBounded
  <2>2. UNCHANGED <<exec, reports, changes>>
    OBVIOUS
  <2>3. QED
    BY <2>1, <2>2, RepairsUndisturbed
<1>9. QED
  BY <1>2, <1>3, <1>4, <1>5, <1>6, <1>7, <1>8 DEF ProtectionInv, AutonomyIsBounded

LEMMA UserEditKeeps ==
  ASSUME ProtectionInv, UserEdit
  PROVE  ProtectionInv'
<1>1. project \in Projects /\ used \in [edits : Nat, marks : Nat, deaths : Nat] /\ project.rev \in Nat
      /\ project.at \in [Things -> Nat \X Nat] /\ project.locked \in SUBSET Tracks
      /\ project.named \in SUBSET Scenes /\ project.told \in BOOLEAN
  BY DEF ProtectionInv, ProtectionTypeOK, Projects
<1>2. used' \in [edits : Nat, marks : Nat, deaths : Nat]
  <2>1. used' = [used EXCEPT !.edits = @ + 1]
    BY DEF UserEdit
  <2>2. QED
    BY <1>1, <2>1
<1>3. \E q \in Projects : q.rev = project.rev /\ project' = Becomes(project, q)
  <2>1. ASSUME NEW t \in Things, NEW s \in {<<0, 1>>, <<1, 3>>, <<2, 3>>, Gone},
               project' = Becomes(project, [project EXCEPT !.at[t] = s, !.named = IF s = Gone THEN @ \ {t} ELSE @])
        PROVE  \E q \in Projects : q.rev = project.rev /\ project' = Becomes(project, q)
    <3> DEFINE at == [project.at EXCEPT ![t] = s]
               named == IF s = Gone THEN project.named \ {t} ELSE project.named
               q == [project EXCEPT !.at = at, !.named = named]
    <3>1. at \in [Things -> Nat \X Nat] /\ named \in SUBSET Scenes
      BY <1>1 DEF Gone
    <3>2. [project EXCEPT !.at[t] = s, !.named = IF s = Gone THEN @ \ {t} ELSE @] = q
      BY <1>1 DEF Projects
    <3> HIDE DEF at, named
    <3>3. q \in Projects /\ q.rev = project.rev
      BY <1>1, <3>1 DEF Projects
    <3>4. QED
      BY <2>1, <3>2, <3>3
  <2>2. ASSUME NEW n \in {2, 3}, project' = Becomes(project, [project EXCEPT !.length = n])
        PROVE  \E q \in Projects : q.rev = project.rev /\ project' = Becomes(project, q)
    <3>1. [project EXCEPT !.length = n] \in Projects /\ [project EXCEPT !.length = n].rev = project.rev
      BY <1>1 DEF Projects
    <3>2. QED
      BY <2>2, <3>1
  <2>3. ASSUME NEW track \in Tracks,
               project' = Becomes(project, [project EXCEPT !.locked = IF track \in @ THEN @ \ {track} ELSE @ \union {track}])
        PROVE  \E q \in Projects : q.rev = project.rev /\ project' = Becomes(project, q)
    <3> DEFINE locked == IF track \in project.locked THEN project.locked \ {track} ELSE project.locked \union {track}
               q == [project EXCEPT !.locked = locked]
    <3>1. locked \in SUBSET Tracks
      BY <1>1
    <3>2. [project EXCEPT !.locked = IF track \in @ THEN @ \ {track} ELSE @ \union {track}] = q
      BY <1>1 DEF Projects
    <3> HIDE DEF locked
    <3>3. q \in Projects /\ q.rev = project.rev
      BY <1>1, <3>1 DEF Projects
    <3>4. QED
      BY <2>3, <3>2, <3>3
  <2>4. ASSUME project' = Becomes(project, [project EXCEPT !.told = ~@])
        PROVE  \E q \in Projects : q.rev = project.rev /\ project' = Becomes(project, q)
    <3>1. [project EXCEPT !.told = ~@] \in Projects /\ [project EXCEPT !.told = ~@].rev = project.rev
      BY <1>1 DEF Projects
    <3>2. QED
      BY <2>4, <3>1
  <2>5. QED
    BY <2>1, <2>2, <2>3, <2>4 DEF UserEdit
<1>4. project' \in Projects /\ project'.rev = project.rev + 1
  BY <1>1, <1>3, BecomesIs
<1>5. Fits(project') /\ UNCHANGED <<records, exec, runner, reports, changes>>
  BY DEF UserEdit
<1>6. QED
  BY <1>2, <1>4, <1>5, EditedKeeps

LEMMA MarkKeeps ==
  ASSUME ProtectionInv, Mark
  PROVE  ProtectionInv'
<1>1. UNCHANGED <<project, exec, runner, reports, changes>>
  BY DEF Mark
<1>2. records' \in [Keys -> States]
  BY DEF Mark, ProtectionInv, ProtectionTypeOK, States
<1>3. used' \in [edits : Nat, marks : Nat, deaths : Nat]
  BY DEF Mark, ProtectionInv, ProtectionTypeOK
<1>4. ProtectionTypeOK' /\ Fits(project)'
  BY <1>1, <1>2, <1>3 DEF ProtectionInv, ProtectionTypeOK, Fits
<1>5. RunnerInStep' /\ RevisionsGrow' /\ ReportsApart' /\ ReportIsLinked' /\ ChangesArePast'
  BY <1>1 DEF ProtectionInv, RunnerInStep, RevisionsGrow, ReportsApart, ReportIsLinked, ChangesArePast
<1>6. GuardIsCurrent'
  BY <1>1 DEF ProtectionInv, GuardIsCurrent, WasLetIn, IsDue, Passes, LetIn
<1>7. EditsAreInspected' /\ RepairIsDue'
  <2>1. EditsAreInspected /\ RepairIsDue
    BY DEF ProtectionInv, AutonomyIsBounded
  <2>2. EditsAreInspected'
    BY <1>1, <2>1 DEF EditsAreInspected
  <2>3. RepairIsDue'
    BY <1>1, <2>1, ZenonT(30) DEF RepairIsDue
  <2>4. QED
    BY <2>2, <2>3
<1>8. QED
  BY <1>4, <1>5, <1>6, <1>7 DEF ProtectionInv, AutonomyIsBounded

LEMMA NewExecution ==
  ASSUME NEW n \in Nat, NEW rev \in Nat, NEW st \in {"none", "running"}, NEW terms \in Offers
  PROVE  [plan |-> n, status |-> st, step |-> 1, expected |-> rev, begun |-> FALSE, render |-> NoRender,
          terms |-> terms] \in Executions
<1>1. NoRender \in [rev : Nat, length : Nat]
  BY DEF NoRender
<1> DEFINE Films == [rev : Nat, length : Nat]
<1>2. Executions = [plan : Nat, status : {"none", "running", "blocked", "completed"}, step : 1 .. 4,
                    expected : Nat, begun : BOOLEAN, render : Films, terms : Offers]
  BY DEF Executions
<1>3. NoRender \in Films
  BY <1>1
<1> HIDE DEF Films
<1>4. QED
  BY <1>2, <1>3

LEMMA PlanAnewKeeps ==
  ASSUME ProtectionInv, PlanAnew
  PROVE  ProtectionInv'
<1>1. /\ project \in Projects /\ exec \in Executions /\ exec.plan \in Nat /\ project.rev \in Nat
      /\ runner = Still /\ UNCHANGED <<project, records, runner, reports, used, changes>>
  BY DEF PlanAnew, ProtectionInv, ProtectionTypeOK, Projects, Executions
<1>2. PICK terms \in Plans[exec.plan + 1] :
        exec' = [plan |-> exec.plan + 1, status |-> "running", step |-> 1, expected |-> project.rev,
                 begun |-> FALSE, render |-> NoRender, terms |-> terms]
  BY DEF PlanAnew
<1>3. terms \in Offers
  <2>1. exec.plan + 1 \in 1 .. Len(Plans)
    BY <1>1, PlansAssumption DEF PlanAnew
  <2>2. QED
    BY <1>2, <2>1, PlansAssumption
<1>4. exec' \in Executions
  <2>1. exec.plan + 1 \in Nat /\ project.rev \in Nat /\ "running" \in {"none", "running"}
    BY <1>1
  <2>2. QED
    BY <1>2, <1>3, <2>1, NewExecution
<1>5. exec'.plan = exec.plan + 1 /\ exec'.status = "running" /\ exec'.step = 1 /\ exec'.expected = project.rev
  BY <1>2
<1>6. ProtectionTypeOK' /\ Fits(project)'
  BY <1>1, <1>4 DEF ProtectionInv, ProtectionTypeOK, Fits
<1>7. runner.at = "idle"
  BY <1>1, StillTyped
<1>8. RunnerInStep' /\ RevisionsGrow' /\ ReportIsLinked' /\ GuardIsCurrent'
  BY <1>1, <1>5, <1>7 DEF RunnerInStep, RevisionsGrow, ReportIsLinked, GuardIsCurrent, Still
<1>9. ReportsApart'
  <2>1. \A r \in reports : r.id[1] \in Nat
    BY DEF ProtectionInv, ProtectionTypeOK, Reports
  <2>2. QED
    BY <1>1, <1>5, <1>7, <2>1 DEF ProtectionInv, ReportsApart
<1>10. ChangesArePast'
  BY <1>1, <1>5, ChangesTyped DEF ProtectionInv, ChangesArePast
<1>11. EditsAreInspected'
  BY <1>1 DEF ProtectionInv, AutonomyIsBounded, EditsAreInspected
<1>12. RepairIsDue'
  BY <1>1, <1>5 DEF ProtectionInv, AutonomyIsBounded, RepairIsDue
<1>13. QED
  BY <1>6, <1>8, <1>9, <1>10, <1>11, <1>12 DEF ProtectionInv, AutonomyIsBounded

-------------------------------------------------------------------------------
LEMMA FirstFits == First \in Projects /\ Fits(First) /\ First.rev = 0
<1>1. First.at["clip"] = <<1, 3>> /\ First.at["new"] = Gone /\ First.at["intro"] = <<0, 2>>
      /\ First.at["outro"] = <<2, 3>> /\ First.at["marker"] = <<2, 3>> /\ First.length = 3 /\ First.rev = 0
  BY DEF First
<1>2. <<1, 3>> \in Spans(3) /\ <<0, 2>> \in Spans(3) /\ <<2, 3>> \in Spans(3)
  BY DEF Spans
<1>3. QED
  BY <1>1, <1>2, FirstTyped DEF Fits, Things, Clips, Scenes

LEMMA ProtectionInitSound ==
  ASSUME ProtectionInit
  PROVE  ProtectionInv
<1>1. project \in Projects /\ Fits(project) /\ project.rev = 0
  BY FirstFits, TrimmedIs DEF ProtectionInit
<1>2. PICK word \in {"none", "ai-owned"} : records = [k \in Keys |-> word]
  BY DEF ProtectionInit
<1>3. records \in [Keys -> States]
  BY <1>2 DEF States
<1>4. PICK terms \in Offers : terms = CHOOSE t \in Plans[1] : TRUE
  BY PlansAssumption
<1>5. exec = [plan |-> 0, status |-> "none", step |-> 1, expected |-> 0, begun |-> FALSE,
              render |-> NoRender, terms |-> terms]
  BY <1>4 DEF ProtectionInit
<1>6. exec \in Executions /\ exec.expected = 0 /\ exec.status = "none"
  BY <1>5, NewExecution
<1>7. runner = Still /\ runner \in Runners /\ runner.at = "idle" /\ reports = {} /\ changes = << >>
  BY StillTyped DEF ProtectionInit
<1>8. used \in [edits : Nat, marks : Nat, deaths : Nat]
  BY DEF ProtectionInit
<1>9. ProtectionTypeOK
  BY <1>1, <1>3, <1>6, <1>7, <1>8 DEF ProtectionTypeOK
<1>10. RunnerInStep /\ RevisionsGrow /\ ReportsApart /\ ReportIsLinked /\ GuardIsCurrent
  BY <1>1, <1>6, <1>7 DEF RunnerInStep, RevisionsGrow, ReportsApart, ReportIsLinked, GuardIsCurrent
<1>11. ChangesArePast /\ EditsAreInspected /\ RepairIsDue
  BY <1>6, <1>7 DEF ChangesArePast, EditsAreInspected, RepairIsDue
<1>12. QED
  BY <1>1, <1>9, <1>10, <1>11 DEF ProtectionInv, AutonomyIsBounded

LEMMA ProtectionNextKeeps ==
  ASSUME ProtectionInv, [ProtectionNext]_protectionVars
  PROVE  ProtectionInv'
<1>1. CASE UNCHANGED protectionVars
  <2>1. UNCHANGED <<project, records, exec, runner, reports, used, changes>>
    BY <1>1 DEF protectionVars
  <2>2. ProtectionTypeOK' /\ Fits(project)'
    BY <2>1 DEF ProtectionInv, ProtectionTypeOK, Fits
  <2>3. RunnerInStep' /\ RevisionsGrow' /\ ReportsApart' /\ ReportIsLinked' /\ ChangesArePast'
    BY <2>1 DEF ProtectionInv, RunnerInStep, RevisionsGrow, ReportsApart, ReportIsLinked, ChangesArePast
  <2>4. GuardIsCurrent'
    BY <2>1 DEF ProtectionInv, GuardIsCurrent, WasLetIn, IsDue, Passes, LetIn
  <2>5. EditsAreInspected'
    BY <2>1 DEF ProtectionInv, AutonomyIsBounded, EditsAreInspected
  <2>6. RepairIsDue'
    <3>1. RepairIsDue
      BY DEF ProtectionInv, AutonomyIsBounded
    <3>2. QED
      BY <2>1, <3>1, ZenonT(30) DEF RepairIsDue
  <2>7. QED
    BY <2>2, <2>3, <2>4, <2>5, <2>6 DEF ProtectionInv, AutonomyIsBounded
<1>2. CASE RunnerStep
  BY <1>2, ClaimStepKeeps, RenderKeeps, FindReportKeeps, EvaluateKeeps, LinkKeeps, ResolveEditKeeps,
     ResolveRepairKeeps, LoadProjectKeeps, InspectKeeps, ApplyEditKeeps, ApplyRepairKeeps DEF RunnerStep
<1>3. QED
  BY <1>1, <1>2, PlanAnewKeeps, RunnerDiesKeeps, UserEditKeeps, MarkKeeps DEF ProtectionNext

(* Whatever users edit and mark meanwhile, however often a runner dies and whatever *)
(* the plans declare, what an autonomous plan changes of a project was declared,    *)
(* neither locked nor protected, and the Agent's own, new or approved; a repair is  *)
(* made once and of what a linked report found (lib/production/autonomy/runner.ts,  *)
(* lib/production/execution/repair-step-port.ts).                                   *)
THEOREM AutonomyStaysBounded == ProtectionSpec => []AutonomyIsBounded
<1>1. ProtectionInv => AutonomyIsBounded
  BY DEF ProtectionInv
<1>2. QED
  BY <1>1, ProtectionInitSound, ProtectionNextKeeps, PTL DEF ProtectionSpec

(* The types of the project, its protection records, the execution and its reports. *)
THEOREM ProtectionTypeCorrect == ProtectionSpec => []ProtectionTypeOK
<1>1. ProtectionInv => ProtectionTypeOK
  BY DEF ProtectionInv
<1>2. QED
  BY <1>1, ProtectionInitSound, ProtectionNextKeeps, PTL DEF ProtectionSpec
================================================================================
