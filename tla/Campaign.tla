---------------------------------- MODULE Campaign ----------------------------------
(* lib/production/campaign: one Campaign, the runs of it in a server that may die,   *)
(* the workers of a run, and the requests of lib/production/campaign/service.ts.     *)
(* A change of the Campaign's file is one step, under its lock.                      *)
(*                                                                                  *)
(* Of a Mission's execution (MissionExecution) there is here the status that the     *)
(* executor leaves in the Mission's file, and who runs a step of it.  An execution   *)
(* never fails as such: a Mission of a Campaign fails when the executor throws.      *)
EXTENDS Naturals, FiniteSets

CONSTANTS
  Missions,        \* how many Missions the Campaign has
  Call,            \* requests to run the Campaign, in one server
  maxConcurrency,  \* workers of a run
  None, Dead,      \* nobody, and a process that has died
  MaxRequests,     \* bound: requests to resume, retry or cancel
  MaxFaults        \* bound: deaths of the server and changes that cannot be written

ASSUME SizeAssumption == Missions \in Nat \ {0}
ASSUME NobodyAssumption == None # Dead /\ {None, Dead} \intersect Call = {}
ASSUME BoundAssumption == maxConcurrency \in 1..8 /\ {MaxRequests, MaxFaults} \subseteq Nat

Index == 1..Missions
Slot  == 1..maxConcurrency

VARIABLES
  status,    \* the Campaign's
  missions,  \* in the Campaign's file: the status of each Mission, and whether it is to be cancelled
  claim,     \* the runner claim: the call that made it, or Dead
  truth,     \* of each Mission: the status in its own file
  stepper,   \* of each Mission: the worker that runs a step of it
  run,       \* of each call: how far its run is
  work,      \* of each call: what its workers do
  notices,   \* the executions a request to cancel has yet to stop
  requests, faults,
  earned     \* history: the Missions that a worker has completed

campaign == <<status, missions>>
mission  == <<truth, stepper>>
vars == <<status, missions, claim, truth, stepper, run, work, notices, requests, faults, earned>>

-------------------------------------------------------------------------------
Outcomes == {"waiting-review", "blocked", "completed", "cancelled", "failed"}
Over == [at |-> "over", i |-> 1, result |-> "none"]
Free == [at |-> "idle", next |-> 1]

Init ==
  /\ status = "draft"
  /\ missions = [i \in Index |-> [status |-> "pending", cancelled |-> FALSE]]
  /\ claim = None
  /\ truth \in [Index -> {"draft", "ready"}]
  /\ stepper = [i \in Index |-> None]
  /\ run = [c \in Call |-> Free]
  /\ work = [c \in Call |-> [s \in Slot |-> Over]]
  /\ notices = {}
  /\ requests = 0 /\ faults = 0
  /\ earned = {}

Fault == faults < MaxFaults /\ faults' = faults + 1
Request == requests < MaxRequests /\ requests' = requests + 1

Has(c, s, at) == work[c][s].at = at
Now(c, s, at) == work' = [work EXCEPT ![c][s].at = at]
Ends(c, s, result) == work' = [work EXCEPT ![c][s].at = "finishing", ![c][s].result = result]

(* aggregateCampaignStatus *)
Aggregate ==
  LET some(w) == \E i \in Index : missions[i].status = w
  IN  IF some("failed") THEN "failed"
      ELSE IF some("blocked") THEN "blocked"
      ELSE IF some("waiting-review") THEN "waiting-review"
      ELSE IF some("cancelled") THEN "cancelled"
      ELSE IF \A i \in Index : missions[i].status = "completed" THEN "completed"
      ELSE "blocked"

-------------------------------------------------------------------------------
(* The runs.                                                                        *)

(* claimRunner: a claim stands as long as the process that made it.  (Mutant: it    *)
(* never does.)                                                                     *)
ClaimAny(c) ==
  /\ run[c].at = "idle" /\ \A s \in Slot : Has(c, s, "over")
  /\ claim' = c
  /\ run' = [run EXCEPT ![c] = [at |-> "claimed", next |-> 1]]
  /\ UNCHANGED <<campaign, mission, work, notices, requests, faults, earned>>
Claim(c) ==
  /\ run[c].at = "idle" /\ \A s \in Slot : Has(c, s, "over")
  /\ claim \in {None, Dead}
  /\ claim' = c
  /\ run' = [run EXCEPT ![c] = [at |-> "claimed", next |-> 1]]
  /\ UNCHANGED <<campaign, mission, work, notices, requests, faults, earned>>

(* runOwned.                                                                        *)
Begin(c) ==
  /\ run[c].at = "claimed"
  /\ IF status \in {"draft", "queued", "running"}
     THEN /\ status' = "running"
          /\ run' = [run EXCEPT ![c].at = "working"]
          /\ work' = [work EXCEPT ![c] = [s \in Slot |-> [Over EXCEPT !.at = "taking"]]]
     ELSE /\ run' = [run EXCEPT ![c].at = "releasing"]
          /\ UNCHANGED <<status, work>>
  /\ UNCHANGED <<missions, claim, mission, notices, requests, faults, earned>>

(* The worker takes the next Mission of its run and prepares it.                     *)
Take(c, s) ==
  /\ Has(c, s, "taking") /\ run[c].next > Missions
  /\ work' = [work EXCEPT ![c][s] = Over]
  /\ UNCHANGED <<campaign, claim, mission, run, notices, requests, faults, earned>>

Preparation(i) ==
  CASE missions[i].status = "running" -> IF missions[i].cancelled THEN "cancelling" ELSE "advancing"
    [] missions[i].status = "pending" /\ ~missions[i].cancelled -> "advancing"
    [] OTHER -> "taking"

Prepare(c, s) ==
  /\ Has(c, s, "taking") /\ run[c].next <= Missions
  /\ LET i == run[c].next
     IN  /\ run' = [run EXCEPT ![c].next = i + 1]
         /\ work' = [work EXCEPT ![c][s].i = i, ![c][s].at = Preparation(i)]
         /\ missions' = IF Preparation(i) = "advancing"
                        THEN [missions EXCEPT ![i].status = "running"] ELSE missions
  /\ UNCHANGED <<status, claim, mission, notices, requests, faults, earned>>

(* A worker that throws is over, and its run is to fail.  The others work on.        *)
Throws(c, s) ==
  /\ work' = [work EXCEPT ![c][s] = Over]
  /\ run' = IF run[c].at = "working" THEN [run EXCEPT ![c].at = "releasing"] ELSE run

(* The executor's cancel: of a completed Mission it throws.                          *)
Stop(c, s) ==
  /\ Has(c, s, "cancelling")
  /\ LET i == work[c][s].i
     IN  IF truth[i] = "completed"
         THEN Throws(c, s) /\ UNCHANGED truth
         ELSE truth' = [truth EXCEPT ![i] = "cancelled"] /\ Ends(c, s, "cancelled") /\ UNCHANGED run
  /\ UNCHANGED <<campaign, claim, stepper, notices, requests, faults, earned>>

(* runMission: the executor is asked to advance for as long as the execution runs.   *)
(* First it claims a step, unless it throws or there is none to run.                 *)
Advance(c, s) ==
  LET i == work[c][s].i
      comesTo(word) == truth' = [truth EXCEPT ![i] = word] /\ Ends(c, s, word) /\ UNCHANGED stepper
  IN  /\ Has(c, s, "advancing")
      /\ \/ /\ truth[i] \in {"draft", "completed", "cancelled"}
            /\ Ends(c, s, "failed") /\ UNCHANGED <<truth, stepper>>
         \/ truth[i] \in {"waiting-review", "blocked"} /\ comesTo(truth[i])
         \/ /\ truth[i] \in {"ready", "running"} /\ stepper[i] = None
            /\ \/ \E word \in {"waiting-review", "blocked", "completed"} : comesTo(word)
               \/ /\ truth' = [truth EXCEPT ![i] = "running"]
                  /\ stepper' = [stepper EXCEPT ![i] = <<c, s>>]
                  /\ Now(c, s, "stepping")
      /\ earned' = earned \union {j \in Index : truth'[j] = "completed"}
      /\ UNCHANGED <<campaign, claim, run, notices, requests, faults>>

(* Another worker runs the step: the execution is asked again, until the limit.      *)
(* (Mutant: what has reached the limit counts as complete.)                          *)
SpinToTheEnd(c, s) ==
  /\ Has(c, s, "advancing")
  /\ stepper[work[c][s].i] # None
  /\ Ends(c, s, "completed")
  /\ UNCHANGED <<campaign, claim, mission, run, notices, requests, faults, earned>>
Spin(c, s) ==
  /\ Has(c, s, "advancing")
  /\ truth[work[c][s].i] = "running" /\ stepper[work[c][s].i] # None
  /\ Ends(c, s, "blocked")
  /\ UNCHANGED <<campaign, claim, mission, run, notices, requests, faults, earned>>

(* The runner of the step is done, and the executor looks at the Mission again.      *)
Step(c, s) ==
  LET i == work[c][s].i
  IN  /\ Has(c, s, "stepping")
      /\ stepper' = [stepper EXCEPT ![i] = None]
      /\ \/ truth[i] = "running" /\ Now(c, s, "advancing") /\ UNCHANGED truth
         \/ \E word \in {"blocked", "completed"} :
              truth[i] = "running" /\ truth' = [truth EXCEPT ![i] = word] /\ Ends(c, s, word)
         \/ truth[i] = "cancelled" /\ Ends(c, s, "cancelled") /\ UNCHANGED truth
      /\ earned' = earned \union {j \in Index : truth'[j] = "completed"}
      /\ UNCHANGED <<campaign, claim, run, notices, requests, faults>>

(* finishMission.                                                                     *)
Finished(i, result) ==
  LET word == IF missions[i].cancelled THEN "cancelled" ELSE result
  IN  [missions EXCEPT ![i] = [status |-> word, cancelled |-> word = "cancelled"]]

Finish(c, s) ==
  /\ Has(c, s, "finishing")
  /\ missions' = Finished(work[c][s].i, work[c][s].result)
  /\ work' = [work EXCEPT ![c][s] = [Over EXCEPT !.at = "taking"]]
  /\ UNCHANGED <<status, claim, mission, run, notices, requests, faults, earned>>

(* All workers are done.                                                             *)
Settle(c) ==
  /\ run[c].at = "working" /\ \A s \in Slot : Has(c, s, "over")
  /\ status' = Aggregate
  /\ run' = [run EXCEPT ![c].at = "releasing"]
  /\ UNCHANGED <<missions, claim, mission, work, notices, requests, faults, earned>>

(* releaseRunnerClaim: only the run's own claim.                                      *)
Release(c) ==
  /\ run[c].at = "releasing"
  /\ claim' = IF claim = c THEN None ELSE claim
  /\ run' = [run EXCEPT ![c].at = "idle"]
  /\ UNCHANGED <<campaign, mission, work, notices, requests, faults, earned>>

(* A change of the Campaign, or of the claim, cannot be written: what asked for it   *)
(* throws, and a claim that is not released stands until the server has died.        *)
WriteFails(c) ==
  /\ Fault
  /\ \/ /\ \/ run[c].at = "claimed"
           \/ run[c].at = "working" /\ \A s \in Slot : Has(c, s, "over")
        /\ run' = [run EXCEPT ![c].at = "releasing"] /\ UNCHANGED work
     \/ \E s \in Slot : work[c][s].at \in {"taking", "finishing"} /\ Throws(c, s)
     \/ /\ run[c].at = "releasing"
        /\ run' = [run EXCEPT ![c].at = "idle"] /\ UNCHANGED work
  /\ UNCHANGED <<campaign, claim, mission, notices, requests, earned>>

(* The server dies.                                                                   *)
Crash ==
  /\ Fault
  /\ claim' = IF claim = None THEN None ELSE Dead
  /\ stepper' = [i \in Index |-> None]
  /\ run' = [c \in Call |-> Free]
  /\ work' = [c \in Call |-> [s \in Slot |-> Over]]
  /\ notices' = {}
  /\ UNCHANGED <<campaign, truth, requests, earned>>

-------------------------------------------------------------------------------
(* The requests.                                                                      *)

Enqueue ==
  /\ status = "draft" /\ status' = "queued"
  /\ UNCHANGED <<missions, claim, mission, run, work, notices, requests, faults, earned>>

(* resume, retryFailed: Missions of these statuses are pending again.                 *)
Again(words, refused) ==
  /\ Request
  /\ status \notin refused
  /\ \E i \in Index : missions[i].status \in words
  /\ status' = "queued"
  /\ missions' = [i \in Index |-> IF missions[i].status \in words
                                  THEN [status |-> "pending", cancelled |-> FALSE] ELSE missions[i]]
  /\ UNCHANGED <<claim, mission, run, work, notices, faults, earned>>

Resume == Again({"waiting-review", "blocked"}, {"running", "queued", "archived", "draft"})
(* Mutant: a Mission that was cancelled is run again as well. *)
RetryCancelled == Again({"failed", "cancelled"}, {"running", "queued", "archived"})
RetryFailed == Again({"failed"}, {"running", "queued", "archived"})

Archive ==
  /\ status \notin {"running", "queued", "archived"} /\ status' = "archived"
  /\ UNCHANGED <<missions, claim, mission, run, work, notices, requests, faults, earned>>

(* cancelMission: at once, unless a worker has it; then its execution is stopped.      *)
CancelMission(i) ==
  /\ Request
  /\ missions[i].status \notin {"cancelled", "completed", "failed"}
  /\ IF missions[i].status = "running"
     THEN /\ missions' = [missions EXCEPT ![i].cancelled = TRUE]
          /\ notices' = notices \union {i}
     ELSE /\ missions' = [missions EXCEPT ![i] = [status |-> "cancelled", cancelled |-> TRUE]]
          /\ UNCHANGED notices
  /\ UNCHANGED <<status, claim, mission, run, work, faults, earned>>

Notify(i) ==
  /\ i \in notices /\ notices' = notices \ {i}
  /\ truth' = IF truth[i] = "completed" THEN truth ELSE [truth EXCEPT ![i] = "cancelled"]
  /\ UNCHANGED <<campaign, claim, stepper, run, work, requests, faults, earned>>

(* The Mission's own page: a plan, a review, a cancel.                                 *)
Plan(i) ==
  /\ truth[i] \in {"draft", "blocked"} /\ truth' = [truth EXCEPT ![i] = "ready"]
  /\ UNCHANGED <<campaign, claim, stepper, run, work, notices, requests, faults, earned>>

Review(i) ==
  /\ truth[i] = "waiting-review"
  /\ \E word \in {"running", "blocked"} : truth' = [truth EXCEPT ![i] = word]
  /\ UNCHANGED <<campaign, claim, stepper, run, work, notices, requests, faults, earned>>

CancelFromPage(i) ==
  /\ Request
  /\ truth[i] \notin {"completed", "cancelled"} /\ truth' = [truth EXCEPT ![i] = "cancelled"]
  /\ UNCHANGED <<campaign, claim, stepper, run, work, notices, faults, earned>>

Next ==
  \/ \E c \in Call : Claim(c) \/ Begin(c) \/ Settle(c) \/ Release(c) \/ WriteFails(c)
  \/ \E c \in Call, s \in Slot :
       Take(c, s) \/ Prepare(c, s) \/ Stop(c, s) \/ Advance(c, s) \/ Spin(c, s) \/ Step(c, s) \/ Finish(c, s)
  \/ \E i \in Index : CancelMission(i) \/ Notify(i) \/ Plan(i) \/ Review(i) \/ CancelFromPage(i)
  \/ Crash \/ Enqueue \/ Resume \/ RetryFailed \/ Archive

Spec == Init /\ [][Next]_vars

-------------------------------------------------------------------------------
Settled == {"waiting-review", "blocked", "completed", "cancelled", "failed"}

(* What each variable holds; and a Mission that is to be cancelled runs, or is        *)
(* cancelled (schema.ts).                                                             *)
CampaignStatus == Settled \union {"draft", "queued", "running", "archived"}
MissionRun     == [status : Outcomes \union {"pending", "running"}, cancelled : BOOLEAN]

TypeOK ==
  /\ status \in CampaignStatus
  /\ missions \in [Index -> MissionRun]
  /\ \A i \in Index :
       /\ missions[i].cancelled => missions[i].status \in {"running", "cancelled"}
       /\ missions[i].status = "cancelled" => missions[i].cancelled
  /\ claim \in Call \union {None, Dead}
  /\ truth \in [Index -> {"draft", "ready", "running", "waiting-review", "blocked", "completed", "cancelled"}]
  /\ stepper \in [Index -> (Call \X Slot) \union {None}]
  /\ run \in [Call -> [at : {"idle", "claimed", "working", "releasing"}, next : 1..(Missions + 1)]]
  /\ work \in [Call -> [Slot -> [at : {"over", "taking", "cancelling", "advancing", "stepping", "finishing"},
                                 i : Index, result : Outcomes \union {"none"}]]]
  /\ notices \subseteq Index /\ earned \subseteq Index
  /\ requests \in 0..MaxRequests /\ faults \in 0..MaxFaults

(* A second request to run the Campaign is turned away while a first one runs it,     *)
(* and a claim that a dead server has left is taken over (claimRunner).               *)
OneRunner == Cardinality({c \in Call : run[c].at # "idle"}) <= 1

(* The Campaign reports a Mission as completed only if its execution is complete,     *)
(* whoever worked on it and in whatever order their results were recorded.  And one   *)
(* that has come to rest has no Mission that is still to be run: not after a crash in *)
(* the middle of a run, nor after a run whose workers outlived it.                    *)
ReportIsTrue ==
  \A i \in Index :
    /\ missions[i].status = "completed" => truth[i] = "completed"
    /\ status \in Settled => missions[i].status \notin {"pending", "running"}

(* What was cancelled stays so: no late result of a worker, restart, resume or retry  *)
(* brings a Mission back, once its cancellation was asked for.                        *)
CancelHolds ==
  [][\A i \in Index : missions[i].cancelled =>
       /\ missions'[i].cancelled
       /\ missions[i].status = "cancelled" => missions'[i].status = "cancelled"]_vars

(* "retries durable Campaign Mission finalization after the external Mission already   *)
(* succeeded": a Mission that a worker has completed is not recorded as failed.        *)
CompletionIsRecorded == \A i \in earned : missions[i].status # "failed"
================================================================================
