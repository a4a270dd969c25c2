------------------------------ MODULE AgentSession ------------------------------
(* lib/ai/runner.ts and service.ts over session/repository.ts: one Agent        *)
(* session of one project, its turns, and the proposals the turns make; and    *)
(* the turn's route, which applies a proposal by itself when the execution      *)
(* mode allows it.  What becomes of a proposal is in AgentProposals.            *)
(*                                                                             *)
(* The session is one file that is read, changed and replaced under a lock, so  *)
(* that every change of it is one step, made to the file as it is then.  What a *)
(* runner knows besides the file (the revision its context was built at) may be *)
(* old by that time.                                                           *)
EXTENDS Naturals, Sequences, FiniteSets

CONSTANTS
  Turn,          \* requests of a turn, each made at most once
  Mode,          \* of each: the execution mode it was sent with
  Kinds,         \* the kinds of proposals that are made
  MaxRounds,     \* budget.maxProviderRoundTrips
  MaxProposals,  \* bound: proposals that are made
  MaxEdits,      \* bound: edits of the project by others
  Nobody         \* no turn

Modes == {"review-first", "apply-safe-edits", "plan-only"}

ASSUME TurnAssumption == Mode \in [Turn -> Modes] /\ Nobody \notin Turn
ASSUME KindAssumption == Kinds \subseteq {"plan", "edit", "create", "action", "job"}
ASSUME RoundAssumption == {MaxRounds, MaxProposals, MaxEdits} \subseteq Nat

VARIABLES
  revision,   \* the project's revision
  edits,      \* how many edits others have made
  version,    \* the version (updatedAt) of the workflow that "action" proposals name
  session,    \* active, closing (still active in the file) or closed
  turns,      \* the session's turns, in their order: whose, base, status, proposals
  proposals,  \* its proposals: kind, base, status, and the version an action expects
  run         \* of each request: where its runner is

file     == <<session, turns, proposals>>
world    == <<revision, edits, version>>
turnVars == <<revision, edits, version, session, turns, proposals, run>>

-------------------------------------------------------------------------------
Out  == [at |-> "out", rev |-> 0, saw |-> 0, rounds |-> 0, kind |-> "", made |-> 0]
Open == session # "closed"

TurnRecord     == [of : Turn, base : Nat, made : SUBSET (1..MaxProposals),
                   status : {"running", "completed", "failed", "interrupted"}]
ProposalRecord == [kind : Kinds, base : Nat, expects : Nat,
                   status : {"draft", "reviewed", "applied", "rejected", "stale"}]

TurnsInit ==
  /\ revision = 0 /\ edits = 0 /\ version = 0
  /\ session = "active"
  /\ turns = << >> /\ proposals = << >>
  /\ run = [t \in Turn |-> Out]

Proposal    == DOMAIN proposals
Undecided   == {"draft", "reviewed"}
Draft(k, r, v) == [kind |-> k, base |-> r, expects |-> v, status |-> "draft"]

(* reconcileStaleProposals: by the revision the caller has read, old or not.    *)
Reconciled(r) ==
  [p \in Proposal |-> IF proposals[p].status \in Undecided /\ proposals[p].base # r
                      THEN [proposals[p] EXCEPT !.status = "stale"] ELSE proposals[p]]

(* updateTurn: of the turn of a request, whatever has become of it.             *)
Updated(t, F(_)) == [i \in DOMAIN turns |-> IF turns[i].of = t THEN F(turns[i]) ELSE turns[i]]
Ended(t, status) == LET end(x) == [x EXCEPT !.status = status] IN Updated(t, end)

Go(t, place) == run' = [run EXCEPT ![t].at = place]
Leave(t)     == run' = [run EXCEPT ![t] = [Out EXCEPT !.at = "end"]]

-------------------------------------------------------------------------------
(* runTurn, up to the step that appends the turn: the context is built first,   *)
(* and only then is the session written.                                        *)
Ground(t) ==
  /\ run[t].at = "out" /\ Open
  /\ run' = [run EXCEPT ![t].at = "start", ![t].rev = revision]
  /\ UNCHANGED <<world, file>>

StartTurn(t) ==
  /\ run[t].at = "start"
  /\ IF Open
     THEN /\ proposals' = Reconciled(run[t].rev)
          /\ turns' = Append(turns, [of |-> t, base |-> run[t].rev, status |-> "running", made |-> {}])
          /\ Go(t, "ask")
     ELSE /\ Leave(t)
          /\ UNCHANGED <<turns, proposals>>
  /\ UNCHANGED <<world, session>>

(* A round with the provider.  It asks for a tool that only reads, that the     *)
(* mode refuses, or whose call it has made before: nothing but messages change. *)
AskToRead(t) ==
  /\ run[t].at = "ask" /\ run[t].rounds < MaxRounds
  /\ run' = [run EXCEPT ![t].rounds = @ + 1]
  /\ UNCHANGED <<world, file>>

AskToPropose(t) ==
  /\ run[t].at = "ask" /\ run[t].rounds < MaxRounds
  /\ \E k \in Kinds : run' = [run EXCEPT ![t].rounds = @ + 1, ![t].kind = k, ![t].at = "tool"]
  /\ UNCHANGED <<world, file>>

(* The tool.  create_edit_proposal writes the proposal into the session by      *)
(* itself; a visual plan, or the action of a workflow, is only returned.        *)
Returned == {"plan", "create", "action"}

UseTool(t) ==
  /\ run[t].at = "tool" /\ Len(proposals) < MaxProposals
  /\ IF run[t].kind \in Returned
     THEN /\ run' = [run EXCEPT ![t].at = "record", ![t].made = 0, ![t].saw = version]
          /\ UNCHANGED proposals
     ELSE /\ proposals' = Append(proposals, Draft(run[t].kind, run[t].rev, version))
          /\ run' = [run EXCEPT ![t].at = "record", ![t].made = Len(proposals) + 1]
  /\ UNCHANGED <<world, session, turns>>

(* The execution is recorded in the turn, with the proposal.                    *)
Record(t) ==
  /\ run[t].at = "record"
  /\ run[t].made = 0 => Len(proposals) < MaxProposals
  /\ LET p == IF run[t].made = 0 THEN Len(proposals) + 1 ELSE run[t].made
         add(x) == [x EXCEPT !.made = @ \union {p}]
     IN  /\ turns' = Updated(t, add)
         /\ proposals' = IF run[t].made = 0
                         THEN Append(proposals, Draft(run[t].kind, run[t].rev, run[t].saw)) ELSE proposals
  /\ Go(t, "ask")
  /\ UNCHANGED <<world, session>>

(* attemptAgentProposalAutoApply, by the turn's route when the turn has ended:  *)
(* the last turn of the session as it is then, taken for the one that was run,  *)
(* has completed with one proposal, of one safe transaction, and the request's  *)
(* mode is to apply.                                                            *)
ToApply(t, read) ==
  LET x == read[Len(read)]
  IN  {p \in x.made : /\ x.status = "completed" /\ Cardinality(x.made) = 1
                      /\ Mode[t] = "apply-safe-edits" /\ proposals[p].kind = "edit"}

EndTurn(t, status) ==
  /\ turns' = Ended(t, status)
  /\ IF ToApply(t, turns') = {}
     THEN Leave(t)
     ELSE run' = [run EXCEPT ![t].at = "apply", ![t].made = CHOOSE p \in ToApply(t, turns') : TRUE]
  /\ UNCHANGED <<world, session, proposals>>

(* The provider has no more calls.                                              *)
Finish(t) == run[t].at = "ask" /\ EndTurn(t, "completed")

(* The provider fails, the request is aborted, a tool finds no room, or the     *)
(* budget of rounds, calls or time is spent: failed stands for cancelled and    *)
(* budget-exhausted as well.                                                    *)
Fail(t) == run[t].at \in {"ask", "tool", "record"} /\ EndTurn(t, "failed")

-------------------------------------------------------------------------------
(* open, by any window that shows the session: a turn that reads running is     *)
(* taken for one whose process died.                                            *)
Interrupted ==
  [i \in DOMAIN turns |-> IF turns[i].status = "running"
                          THEN [turns[i] EXCEPT !.status = "interrupted"] ELSE turns[i]]

(* The project's revision was read before, at some moment of the request.       *)
Shown ==
  /\ turns' = Interrupted
  /\ \E r \in 0..revision : proposals' = Reconciled(r)

Reopen == Shown /\ UNCHANGED <<world, session, run>>

(* close: the session is opened once more, and then closed, whatever has begun  *)
(* meanwhile.                                                                   *)
Close ==
  /\ session = "active" /\ session' = "closing"
  /\ Shown
  /\ UNCHANGED <<world, run>>

Closed ==
  /\ session = "closing" /\ session' = "closed"
  /\ UNCHANGED <<world, turns, proposals, run>>

(* The process of a runner dies: its turn stays running in the file.            *)
RunnerDies(t) ==
  /\ run[t].at \notin {"out", "end"}
  /\ Leave(t)
  /\ UNCHANGED <<world, file>>

(* The project is edited, and the workflow advances, by others.                 *)
OtherEdit ==
  /\ edits < MaxEdits
  /\ edits' = edits + 1 /\ revision' = revision + 1
  /\ UNCHANGED <<version, file, run>>

OtherAction ==
  /\ edits < MaxEdits
  /\ edits' = edits + 1 /\ version' = version + 1
  /\ UNCHANGED <<revision, file, run>>

RunnerStep(t) ==
  \/ StartTurn(t) \/ AskToRead(t) \/ AskToPropose(t) \/ UseTool(t) \/ Record(t)
  \/ Finish(t) \/ Fail(t)
===============================================================================
