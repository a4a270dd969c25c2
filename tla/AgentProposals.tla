----------------------------- MODULE AgentProposals -----------------------------
(* lib/ai/application.ts, with workflow-application.ts and                       *)
(* durable-job-proposal.ts: proposals of an Agent session are reviewed,         *)
(* rejected and applied.                                                        *)
(*                                                                             *)
(* What applying a proposal does lies outside the session: a transaction of the *)
(* project, a workflow, a job.  Each confirmation claims its operation in the   *)
(* session's file, does it, and marks it; the process may die between any two.  *)
(* An operation is a proposal with a choice of its changes (the choice matters   *)
(* to a visual plan only): its id is a digest of both.                          *)
EXTENDS AgentSession

CONSTANTS
  Call,     \* processes that serve a confirmation, one at a time
  Choice,   \* the choices of a visual plan's changes
  MaxServed, \* bound: confirmations
  Mortal    \* bound: processes that may die, once

ASSUME CallAssumption == Choice # {} /\ Mortal \subseteq Call /\ MaxServed \in Nat

VARIABLES
  claims,    \* the session's operationClaims: <<operation, owner>>
  approved,  \* its approvedOperations
  logged,    \* operations in the project's log
  started,   \* operations whose workflow exists: <<operation, "pending" or "started">>
  jobs,      \* operations whose job exists: <<operation, "half" or "queued">>
  call,      \* of each process: the confirmation it serves
  life,      \* of each process: which of its lives this is
  served,    \* how many confirmations there have been
  effects,   \* history: what was done, <<operation, revision it was done at>>, in order
  rejected,  \* history: proposals rejected while no operation of theirs was claimed
  automatic  \* history: proposals that a turn's route has gone on to apply

outside == <<logged, started, jobs>>
ledger  == <<claims, approved>>
history == <<effects, rejected, automatic>>
vars    == <<turnVars, ledger, outside, call, life, served, history>>

-------------------------------------------------------------------------------
Idle  == [at |-> "idle", op |-> <<0, "">>, seen |-> "", prior |-> FALSE]
Me(c) == <<c, life[c]>>

Init ==
  /\ TurnsInit
  /\ claims = {} /\ approved = {} /\ logged = {} /\ started = {} /\ jobs = {}
  /\ call = [c \in Call |-> Idle]
  /\ life = [c \in Call |-> 1] /\ served = 0
  /\ effects = << >> /\ rejected = {} /\ automatic = {}

Choices(p)    == IF proposals[p].kind = "plan" THEN Choice ELSE {CHOOSE x \in Choice : TRUE}
Operations(p) == {<<p, x>> : x \in Choices(p)}
Op(c)         == call[c].op
Of(c)         == proposals[Op(c)[1]]
Holder(o)     == {h[2] : h \in {g \in claims : g[1] = o}}
Owned(o)      == Holder(o) # {}
Mine(c)       == Holder(Op(c)) = {Me(c)}
Alive(owner)  == \E c \in Call : owner = Me(c)
Unclaimed(o)  == {h \in claims : h[1] # o}
Marked(p, s)  == [proposals EXCEPT ![p].status = s]
(* saveStale *)
Staled(p)     == IF proposals[p].status \in Undecided THEN Marked(p, "stale") ELSE proposals

At(c, place) == call[c].at = place
To(c, place) == call' = [call EXCEPT ![c].at = place]
End(c)       == call' = [call EXCEPT ![c] = Idle]
Enter(c, place) == call' = [call EXCEPT ![c] = [Idle EXCEPT !.at = place, !.op = Op(c)]]

SameTurns   == UNCHANGED <<session, turns, run, edits>>
SameWorld   == UNCHANGED <<revision, version, outside, effects>>
SameSession == UNCHANGED <<proposals, ledger>>
SameRest    == UNCHANGED <<life, served, rejected, automatic>>

-------------------------------------------------------------------------------
(* preview: a stale proposal is marked so, a draft becomes reviewed, by the     *)
(* revision and the workflow that were read before.                             *)
Review(p) ==
  LET x == proposals[p] IN
  /\ x.status \in Undecided
  /\ \E r \in x.base..revision, v \in x.expects..version :
       proposals' = IF x.base # r \/ (x.kind = "action" /\ x.expects # v)
                    THEN Staled(p) ELSE Marked(p, "reviewed")
  /\ UNCHANGED <<ledger, call>> /\ SameTurns /\ SameWorld /\ SameRest

(* reject: the claims are not looked at.                                        *)
Reject(p) ==
  /\ proposals[p].status \notin {"applied", "rejected"}
  /\ proposals' = Marked(p, "rejected")
  /\ rejected' = IF \E o \in Operations(p) : Owned(o) THEN rejected ELSE rejected \union {p}
  /\ UNCHANGED <<ledger, call, life, served, automatic>> /\ SameTurns /\ SameWorld

-------------------------------------------------------------------------------
(* apply.  The session is read,                                                 *)
Begins(c, o) ==
  /\ At(c, "idle") /\ served < MaxServed
  /\ served' = served + 1
  /\ call' = [call EXCEPT ![c] = [at |-> "look", op |-> o, seen |-> proposals[o[1]].status,
                                  prior |-> o \in approved]]
  /\ SameWorld /\ SameSession

Begin(c, p) ==
  /\ \E o \in Operations(p) : Begins(c, o)
  /\ UNCHANGED <<life, rejected, automatic>> /\ SameTurns

(* by a confirmation, or by the route of a turn.                                *)
BeginByItself(c, t) ==
  /\ run[t].at = "apply"
  /\ \E o \in Operations(run[t].made) : Begins(c, o)
  /\ automatic' = automatic \union {<<run[t].made, Mode[t]>>}
  /\ Leave(t)
  /\ UNCHANGED <<session, turns, edits, life, rejected>>

(* Then what the operation would have done is looked for: the project's log,    *)
(* the job of that id; a workflow's is not looked for.  (Mutant: a job's        *)
(* directory is proof enough.)                                                  *)
DoneHalf(c) ==
  CASE Of(c).kind \in {"plan", "edit"} -> Op(c) \in logged
    [] Of(c).kind = "job"              -> \E s \in {"half", "queued"} : <<Op(c), s>> \in jobs
    [] OTHER                           -> call[c].prior
Done(c) ==
  CASE Of(c).kind \in {"plan", "edit"} -> Op(c) \in logged
    [] Of(c).kind = "job"              -> <<Op(c), "queued">> \in jobs
    [] OTHER                           -> call[c].prior

Look(c) ==
  /\ At(c, "look")
  /\ CASE Done(c)                                 -> Enter(c, "prior")
       [] Of(c).kind = "job" /\ call[c].prior     -> End(c)
       [] OTHER                                   -> call' = [call EXCEPT ![c].at = "check", ![c].prior = FALSE]
  /\ SameTurns /\ SameWorld /\ SameSession /\ SameRest

(* Then the project is read.  The revision the caller names may be another.     *)
Check(c) ==
  /\ At(c, "check")
  /\ \E named \in BOOLEAN :
       IF call[c].seen = "stale" \/ Of(c).base # revision \/ ~named
       THEN IF call[c].seen \in Undecided THEN Enter(c, "stale") ELSE End(c)
       ELSE IF call[c].seen \in Undecided THEN Enter(c, "claim") ELSE End(c)
  /\ SameTurns /\ SameWorld /\ SameSession /\ SameRest

SaveStale(c) ==
  /\ At(c, "stale")
  /\ proposals' = Staled(Op(c)[1])
  /\ End(c)
  /\ UNCHANGED ledger /\ SameTurns /\ SameWorld /\ SameRest

(* claimApplyOperation.  (Mutants: as read before, it is not rejected; the      *)
(* owner of a claim is not looked for.)                                         *)
ClaimUnread(c) ==
  /\ At(c, "claim")
  /\ CASE Of(c).status = "applied" \/ Op(c) \in approved -> End(c) /\ UNCHANGED claims
       [] OTHER -> To(c, "work") /\ claims' = Unclaimed(Op(c)) \union {<<Op(c), Me(c)>>}
  /\ UNCHANGED <<proposals, approved>> /\ SameTurns /\ SameWorld /\ SameRest
Claim(c) ==
  /\ At(c, "claim")
  /\ CASE Of(c).status \in {"rejected", "applied"} \/ Op(c) \in approved -> End(c) /\ UNCHANGED claims
       [] \E h \in Holder(Op(c)) : Alive(h) -> To(c, "wait") /\ UNCHANGED claims
       [] OTHER -> To(c, "work") /\ claims' = Unclaimed(Op(c)) \union {<<Op(c), Me(c)>>}
  /\ UNCHANGED <<proposals, approved>> /\ SameTurns /\ SameWorld /\ SameRest

(* waitForApplyOperation: until it is approved, free, its owner dead, or the    *)
(* thirty seconds are over.                                                     *)
Wait(c) ==
  /\ At(c, "wait")
  /\ CASE Op(c) \in approved -> End(c) /\ UNCHANGED claims
       [] ~Owned(Op(c))      -> To(c, "claim") /\ UNCHANGED claims
       [] OTHER -> IF \A h \in Holder(Op(c)) : Alive(h)
                   THEN End(c) /\ UNCHANGED claims
                   ELSE claims' = Unclaimed(Op(c)) /\ UNCHANGED call
  /\ UNCHANGED <<proposals, approved>> /\ SameTurns /\ SameWorld /\ SameRest

-------------------------------------------------------------------------------
(* The operation itself, outside the session.                                   *)
Happens(c) == effects' = Append(effects, <<Op(c), revision>>)
(* What is done may still be answered by an error. *)
AnsweredOrNot(c) == To(c, "mark") \/ To(c, "release")

(* applyTransaction, or the visual plan's apply: once per operation id, and     *)
(* only at the revision the proposal was made for.  (Mutant: at any.)           *)
TransactAnywhere(c) ==
  /\ At(c, "work") /\ Of(c).kind \in {"plan", "edit"}
  /\ IF Op(c) \in logged
     THEN To(c, "mark") /\ UNCHANGED <<revision, logged, effects>>
     ELSE /\ revision' = revision + 1 /\ logged' = logged \union {Op(c)} /\ Happens(c)
          /\ To(c, "mark")
  /\ UNCHANGED <<version, started, jobs>> /\ SameTurns /\ SameSession /\ SameRest
Transact(c) ==
  /\ At(c, "work") /\ Of(c).kind \in {"plan", "edit"}
  /\ CASE Op(c) \in logged -> To(c, "mark") /\ UNCHANGED <<revision, logged, effects>>
       [] Op(c) \notin logged /\ Of(c).base # revision ->
            To(c, "release, stale") /\ UNCHANGED <<revision, logged, effects>>
       [] OTHER -> /\ revision' = revision + 1 /\ logged' = logged \union {Op(c)} /\ Happens(c)
                   /\ AnsweredOrNot(c)
  /\ UNCHANGED <<version, started, jobs>> /\ SameTurns /\ SameSession /\ SameRest

(* create_first_draft: a workflow of an id that the operation determines, at    *)
(* the proposal's revision; then it is started, unless that was done.  (Mutant: *)
(* the id is a new one each time.)                                              *)
CreateAnew(c) ==
  /\ At(c, "work") /\ Of(c).kind = "create"
  /\ IF Of(c).base # revision
     THEN To(c, "release") /\ UNCHANGED <<started, effects>>
     ELSE started' = started \union {<<Op(c), "pending">>} /\ Happens(c) /\ To(c, "start")
  /\ UNCHANGED <<revision, version, logged, jobs>> /\ SameTurns /\ SameSession /\ SameRest
CreateWorkflow(c) ==
  /\ At(c, "work") /\ Of(c).kind = "create"
  /\ CASE <<Op(c), "started">> \in started -> To(c, "mark") /\ UNCHANGED <<started, effects>>
       [] <<Op(c), "pending">> \in started -> To(c, "start") /\ UNCHANGED <<started, effects>>
       [] OTHER -> IF Of(c).base # revision
                   THEN To(c, "release") /\ UNCHANGED <<started, effects>>
                   ELSE started' = started \union {<<Op(c), "pending">>} /\ Happens(c) /\ To(c, "start")
  /\ UNCHANGED <<revision, version, logged, jobs>> /\ SameTurns /\ SameSession /\ SameRest

StartWorkflow(c) ==
  /\ At(c, "start")
  /\ started' = started \union {<<Op(c), "started">>}
  /\ AnsweredOrNot(c)
  /\ UNCHANGED <<revision, version, logged, jobs, effects>> /\ SameTurns /\ SameSession /\ SameRest

(* An action of a workflow that exists, on the version it was proposed for.     *)
(* If that has changed since it was read, the runtime may refuse the action.    *)
ReadWorkflow(c) ==
  /\ At(c, "work") /\ Of(c).kind = "action"
  /\ To(c, IF Of(c).expects = version THEN "act" ELSE "release, stale")
  /\ SameTurns /\ SameWorld /\ SameSession /\ SameRest

ActOnWorkflow(c) ==
  /\ At(c, "act")
  /\ \/ version' = version + 1 /\ Happens(c) /\ AnsweredOrNot(c)
     \/ /\ Of(c).expects # version
        /\ To(c, "release, stale")
        /\ UNCHANGED <<version, effects>>
  /\ UNCHANGED <<revision, outside>> /\ SameTurns /\ SameSession /\ SameRest

(* jobs.create: a job of an id that the operation determines.  Its directory    *)
(* comes first, and one without a record is in the way for good.                *)
CreateJob(c) ==
  /\ At(c, "work") /\ Of(c).kind = "job"
  /\ CASE <<Op(c), "queued">> \in jobs -> To(c, "mark") /\ UNCHANGED <<jobs, effects>>
       [] <<Op(c), "half">> \in jobs   -> To(c, "release") /\ UNCHANGED <<jobs, effects>>
       [] OTHER -> jobs' = jobs \union {<<Op(c), "queued">>} /\ Happens(c) /\ AnsweredOrNot(c)
  /\ UNCHANGED <<revision, version, logged, started>> /\ SameTurns /\ SameSession /\ SameRest

(* It fails, before it has done anything.                                       *)
WorkFails(c) ==
  /\ call[c].at \in {"work", "start", "act"}
  /\ To(c, "release")
  /\ SameTurns /\ SameWorld /\ SameSession /\ SameRest

-------------------------------------------------------------------------------
(* markApplied, with the claim's token after the work, or without on the        *)
(* evidence of it.  (Mutant: whoever holds the claim now.)                      *)
MarkWhoever(c) ==
  /\ call[c].at \in {"mark", "prior"}
  /\ IF Of(c).status = "rejected" THEN To(c, "release") /\ SameSession
     ELSE /\ proposals' = Marked(Op(c)[1], "applied")
          /\ approved' = approved \union {Op(c)}
          /\ End(c) /\ UNCHANGED claims
  /\ SameTurns /\ SameWorld /\ SameRest
Mark(c) ==
  /\ call[c].at \in {"mark", "prior"}
  /\ IF \/ Of(c).status = "rejected"
        \/ At(c, "mark") /\ ~Mine(c) /\ Op(c) \notin approved
     THEN To(c, "release") /\ SameSession
     ELSE /\ proposals' = Marked(Op(c)[1], "applied")
          /\ approved' = approved \union {Op(c)}
          /\ claims' = Unclaimed(Op(c))
          /\ End(c)
  /\ SameTurns /\ SameWorld /\ SameRest

(* The session cannot be written.                                               *)
MarkFails(c) ==
  /\ call[c].at \in {"mark", "prior"}
  /\ To(c, "release")
  /\ SameTurns /\ SameWorld /\ SameSession /\ SameRest

(* releaseApplyOperation: its own claim only; saveStale follows a conflict.     *)
Release(c) ==
  /\ call[c].at \in {"release", "release, stale"}
  /\ claims' = IF Mine(c) THEN Unclaimed(Op(c)) ELSE claims
  /\ IF At(c, "release") THEN End(c) ELSE To(c, "stale")
  /\ UNCHANGED <<proposals, approved>> /\ SameTurns /\ SameWorld /\ SameRest

(* The process dies, at any place; as it creates a job, perhaps half way.       *)
Die(c) ==
  /\ ~At(c, "idle") /\ c \in Mortal /\ life[c] = 1
  /\ life' = [life EXCEPT ![c] = 2]
  /\ End(c)
  /\ \/ UNCHANGED jobs
     \/ /\ At(c, "work") /\ Of(c).kind = "job" /\ ~ \E s \in {"half", "queued"} : <<Op(c), s>> \in jobs
        /\ jobs' = jobs \union {<<Op(c), "half">>}
  /\ UNCHANGED <<revision, version, logged, started, effects, served, rejected, automatic>>
  /\ SameTurns /\ SameSession

CallStep(c) ==
  \/ Look(c) \/ Check(c) \/ SaveStale(c) \/ Claim(c) \/ Wait(c)
  \/ Transact(c) \/ CreateWorkflow(c) \/ StartWorkflow(c)
  \/ ReadWorkflow(c) \/ ActOnWorkflow(c) \/ CreateJob(c) \/ WorkFails(c)
  \/ Mark(c) \/ MarkFails(c) \/ Release(c)

(* A turn, and what others do, leave alone what belongs to the confirmations.   *)
TurnStep ==
  /\ \/ \E t \in Turn : Ground(t) \/ RunnerStep(t) \/ RunnerDies(t)
     \/ Reopen \/ Close \/ Closed \/ OtherEdit \/ OtherAction
  /\ UNCHANGED <<ledger, outside, call, life, served, history>>

Next ==
  \/ TurnStep
  \/ \E p \in Proposal : Review(p) \/ Reject(p) \/ \E c \in Call : Begin(c, p)
  \/ \E c \in Call : CallStep(c) \/ Die(c) \/ \E t \in Turn : BeginByItself(c, t)

Spec == Init /\ [][Next]_vars

-------------------------------------------------------------------------------
ApprovedOperation == Proposal \X Choice
OperationClaim    == ApprovedOperation \X (Call \X (1..2))

TypeOK ==
  /\ {revision, edits, version} \subseteq Nat /\ session \in {"active", "closing", "closed"}
  /\ turns \in Seq(TurnRecord) /\ proposals \in Seq(ProposalRecord)
  /\ approved \union logged \subseteq ApprovedOperation
  /\ claims \subseteq OperationClaim
  /\ \A h, g \in claims : h[1] = g[1] => h = g

(* Whatever the confirmations, the retries and the deaths between the work and  *)
(* its mark: a proposal takes effect at most once, with one choice of changes.  *)
OneEffect ==
  \A i, j \in DOMAIN effects : effects[i][1][1] = effects[j][1][1] => i = j

(* A change of the project is made at the very revision it was proposed for.    *)
AtItsRevision ==
  \A i \in DOMAIN effects :
    LET p == proposals[effects[i][1][1]] IN p.kind \in {"plan", "edit", "create"} => effects[i][2] = p.base

(* A proposal that reads applied has been: what the session approves exists.    *)
AppliedIsTrue ==
  /\ \A p \in Proposal : proposals[p].status = "applied" => \E o \in approved : o[1] = p
  /\ \A o \in approved : \E i \in DOMAIN effects : effects[i][1] = o

(* What was rejected while nobody was applying it never takes effect, although  *)
(* a confirmation may have read it before it was rejected.                      *)
RejectionStands ==
  [][\A p \in rejected : effects' # effects => effects'[Len(effects')][1][1] # p]_vars

(* Project changes of a turn sent in review-first mode are not made by          *)
(* themselves (docs/prd V2.5 Master PRD, 10.1).                                 *)
ReviewFirst ==
  \A a \in automatic : \A i \in DOMAIN turns :
    a[1] \in turns[i].made => Mode[turns[i].of] = "apply-safe-edits"
===============================================================================
