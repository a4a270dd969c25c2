-------------------------- MODULE AgentProposalsProofs --------------------------
(* Proofs about AgentProposals, for any number of turns, proposals, processes   *)
(* that serve confirmations and deaths of them, and any choices of changes; of  *)
(* AgentPanel, for any targets and turns; and of McpBridge and ConnectionPage,  *)
(* for any numbers of requests, credentials, servers and projects.              *)
EXTENDS MCAgentProposals, AgentPanel, FiniteSetTheorems, TLAPS

-------------------------------------------------------------------------------
(* What the runners of turns know is past, and what they name is there.         *)
RunPlaces == {"out", "start", "ask", "tool", "record", "apply", "end"}
RunState(n) == [at : RunPlaces, rev : Nat, saw : Nat, rounds : Nat, kind : Kinds \cup {""}, made : 0 .. n]

RunnerKnows(r, n) ==
  /\ r.at \in {"ask", "tool", "record"} => turns # << >>
  /\ r.at \in {"tool", "record"} => r.kind \in Kinds
  /\ r.at = "apply" => r.made \in 1 .. n
  /\ r.rev <= revision /\ r.saw <= version

ProposalIsPast(p) == p.base <= revision /\ p.expects <= version

TurnInv ==
  /\ revision \in Nat /\ version \in Nat /\ edits \in Nat
  /\ session \in {"active", "closing", "closed"}
  /\ turns \in Seq(TurnRecord) /\ proposals \in Seq(ProposalRecord)
  /\ Len(proposals) <= MaxProposals
  /\ run \in [Turn -> RunState(Len(proposals))]
  /\ \A i \in DOMAIN turns : turns[i].made \subseteq 1 .. Len(proposals)
  /\ \A t \in Turn : RunnerKnows(run[t], Len(proposals))
  /\ \A p \in Proposal : ProposalIsPast(proposals[p])

-------------------------------------------------------------------------------
(* What is known of an operation: its proposal and a choice, which is the only   *)
(* one unless the proposal is a visual plan.                                     *)
Whole == CHOOSE x \in Choice : TRUE
KindOf(o) == proposals[o[1]].kind
Known(o)  == o \in ApprovedOperation /\ (KindOf(o) # "plan" => o[2] = Whole)

Effective(o) == \E i \in DOMAIN effects : effects[i][1] = o

(* The evidence of an effect outside the session; an action leaves none.        *)
Evident(o) ==
  \/ KindOf(o) \in {"plan", "edit"} /\ o \in logged
  \/ KindOf(o) = "job" /\ <<o, "queued">> \in jobs
  \/ KindOf(o) = "create" /\ \E s \in {"pending", "started"} : <<o, s>> \in started
  \/ KindOf(o) = "action" /\ Effective(o)

LedgerTyped ==
  /\ approved \subseteq ApprovedOperation /\ logged \subseteq ApprovedOperation
  /\ claims \subseteq OperationClaim
  /\ started \subseteq ApprovedOperation \X {"pending", "started"}
  /\ jobs \subseteq ApprovedOperation \X {"half", "queued"}
  /\ effects \in Seq(ApprovedOperation \X Nat)
  /\ rejected \subseteq Proposal

OneOwner == \A h, g \in claims : h[1] = g[1] => h = g

EvidenceIsTrue == \A o \in ApprovedOperation : Evident(o) <=> Effective(o)

(* An effect is of an operation of its proposal, and its proposal's revision, or *)
(* its workflow's version, is past.                                              *)
Spent ==
  \A i \in DOMAIN effects :
    /\ Known(effects[i][1])
    /\ KindOf(effects[i][1]) \in {"plan", "edit"} => proposals[effects[i][1][1]].base < revision
    /\ KindOf(effects[i][1]) = "action" => proposals[effects[i][1][1]].expects < version

RejectedStays == \A p \in rejected : proposals[p].status = "rejected"

-------------------------------------------------------------------------------
(* What a confirmation knows at its place. *)
Places == {"idle", "look", "check", "stale", "claim", "wait", "work", "start", "act", "mark", "prior",
           "release", "release, stale"}
Statuses == {"draft", "reviewed", "applied", "rejected", "stale"}
CallState == [at : Places, op : Nat \X (Choice \cup {""}), seen : Statuses \cup {""}, prior : BOOLEAN]

Doing == {"work", "start", "act"}

(* A confirmation of the operation o, whose token is m, at the place a.  It     *)
(* works under a claim of its own; if another has marked the operation as done  *)
(* and taken the claim away, the evidence is there and it does nothing.         *)
Stands(a, o, m, prior) ==
  /\ a # "idle" => Known(o)
  /\ a \in Doing => <<o, m>> \in claims \/ (KindOf(o) \in {"plan", "edit", "job"} /\ Evident(o))
  /\ (a \in Doing /\ KindOf(o) \in {"create", "action"}) => o \notin approved
  /\ a = "start" => KindOf(o) = "create" /\ Evident(o)
  /\ a = "act" => KindOf(o) = "action" /\ ~Effective(o)
  /\ a \in {"mark", "prior"} => Effective(o)
  /\ (a = "prior" /\ KindOf(o) \in {"create", "action"}) => o \in approved
  /\ (a = "look" /\ prior) => o \in approved
  /\ (a \in Doing /\ o[1] \in rejected) => Evident(o)

Placed(c) == Stands(call[c].at, Op(c), Me(c), call[c].prior)

CallsTyped == call \in [Call -> CallState] /\ life \in [Call -> 1 .. 2]

ProposalsInv ==
  /\ TurnInv /\ LedgerTyped /\ CallsTyped
  /\ OneOwner /\ EvidenceIsTrue /\ Spent /\ RejectedStays
  /\ \A c \in Call : Placed(c)
  /\ OneEffect /\ AtItsRevision /\ AppliedIsTrue

-------------------------------------------------------------------------------

(* How the files change. *)
Same(x, y) ==
  /\ y.kind = x.kind /\ y.base = x.base /\ y.expects = x.expects
  /\ x.status = "rejected" => y.status = "rejected"
  /\ y.status = "applied" => x.status = "applied"

ProposalsCarry ==
  /\ proposals' \in Seq(ProposalRecord)
  /\ Len(proposals) <= Len(proposals') /\ Len(proposals') <= MaxProposals
  /\ \A p \in 1 .. Len(proposals) : Same(proposals[p], proposals'[p])
  /\ \A p \in 1 .. Len(proposals') :
       p \in 1 .. Len(proposals)
       \/ (proposals'[p].status = "draft" /\ proposals'[p].base <= revision /\ proposals'[p].expects <= version)

TurnsCarry ==
  /\ turns' \in Seq(TurnRecord) /\ (turns # << >> => turns' # << >>)
  /\ \A i \in DOMAIN turns' : turns'[i].made \subseteq 1 .. Len(proposals')

TimeGoesOn ==
  /\ revision' \in Nat /\ version' \in Nat /\ edits' \in Nat
  /\ revision <= revision' /\ version <= version'

LEMMA TurnFacts ==
  ASSUME TurnInv
  PROVE  /\ revision \in Nat /\ version \in Nat /\ edits \in Nat /\ MaxProposals \in Nat
         /\ Len(proposals) \in 0 .. MaxProposals /\ Proposal = 1 .. Len(proposals)
         /\ proposals \in Seq(ProposalRecord) /\ turns \in Seq(TurnRecord)
         /\ \A p \in Proposal : /\ proposals[p] \in ProposalRecord /\ ProposalIsPast(proposals[p])
                                /\ proposals[p].base \in Nat /\ proposals[p].expects \in Nat
         /\ run \in [Turn -> RunState(Len(proposals))]
         /\ \A t \in Turn : run[t].rev \in Nat /\ run[t].saw \in Nat /\ run[t].rev <= revision /\ run[t].saw <= version
<1>1. MaxProposals \in Nat
  BY RoundAssumption
<1>2. Proposal = 1 .. Len(proposals) /\ Len(proposals) \in Nat
  BY DEF TurnInv, Proposal
<1>3. \A p \in Proposal : proposals[p] \in ProposalRecord
  BY <1>2 DEF TurnInv
<1>4. \A p \in Proposal : proposals[p].base \in Nat /\ proposals[p].expects \in Nat
  BY <1>3 DEF ProposalRecord
<1>5. \A t \in Turn : run[t].rev \in Nat /\ run[t].saw \in Nat /\ run[t].rev <= revision /\ run[t].saw <= version
  BY DEF TurnInv, RunState, RunnerKnows
<1>6. QED
  BY <1>1, <1>2, <1>3, <1>4, <1>5 DEF TurnInv

LEMMA TurnInvNext ==
  ASSUME TurnInv, TimeGoesOn, session' \in {"active", "closing", "closed"}, ProposalsCarry, TurnsCarry,
         run' \in [Turn -> RunState(Len(proposals'))],
         \A t \in Turn : run'[t] = run[t] \/ RunnerKnows(run[t], Len(proposals))'
  PROVE  TurnInv'
<1>1. /\ Len(proposals) \in Nat /\ Len(proposals') \in Nat /\ Proposal = 1 .. Len(proposals)
      /\ Proposal' = 1 .. Len(proposals') /\ revision \in Nat /\ version \in Nat
  BY TurnFacts DEF ProposalsCarry, Proposal
<1>2. \A p \in 1 .. Len(proposals') : proposals'[p].base <= revision' /\ proposals'[p].expects <= version'
  <2> SUFFICES ASSUME NEW p \in 1 .. Len(proposals')
               PROVE  proposals'[p].base <= revision' /\ proposals'[p].expects <= version'
    OBVIOUS
  <2>1. proposals'[p].base <= revision /\ proposals'[p].expects <= version
    BY <1>1, TurnFacts DEF ProposalsCarry, Same, ProposalIsPast
  <2>2. proposals'[p].base \in Nat /\ proposals'[p].expects \in Nat
    <3>1. proposals'[p] \in ProposalRecord
      BY <1>1 DEF ProposalsCarry
    <3>2. QED
      BY <3>1 DEF ProposalRecord
  <2>3. QED
    BY <1>1, <2>1, <2>2 DEF TimeGoesOn
<1>3. \A t \in Turn : RunnerKnows(run[t], Len(proposals))'
  <2> SUFFICES ASSUME NEW t \in Turn, run'[t] = run[t] PROVE RunnerKnows(run[t], Len(proposals))'
    OBVIOUS
  <2>1. RunnerKnows(run[t], Len(proposals)) /\ run[t].rev \in Nat /\ run[t].saw \in Nat
    BY TurnFacts DEF TurnInv
  <2>2. run'[t].rev <= revision' /\ run'[t].saw <= version'
    BY <1>1, <2>1 DEF RunnerKnows, TimeGoesOn
  <2>3. 1 .. Len(proposals) \subseteq 1 .. Len(proposals')
    BY <1>1 DEF ProposalsCarry
  <2>4. QED
    BY <2>1, <2>2, <2>3 DEF RunnerKnows, TurnsCarry
<1>4. (\A p \in Proposal : ProposalIsPast(proposals[p]))'
  BY <1>1, <1>2 DEF ProposalIsPast
<1>5. (\A t \in Turn : RunnerKnows(run[t], Len(proposals)))'
  BY <1>3
<1>6. (\A i \in DOMAIN turns : turns[i].made \subseteq 1 .. Len(proposals))'
  BY DEF TurnsCarry
<1>7. QED
  BY <1>4, <1>5, <1>6, ZenonT(40) DEF TurnInv, TimeGoesOn, ProposalsCarry, TurnsCarry

LEMMA NothingCarries ==
  ASSUME TurnInv
  PROVE  /\ proposals' = proposals => ProposalsCarry
         /\ turns' = turns /\ ProposalsCarry => TurnsCarry
         /\ UNCHANGED world => TimeGoesOn
<1>1. ASSUME proposals' = proposals PROVE ProposalsCarry
  BY <1>1, TurnFacts DEF ProposalsCarry, Same, TurnInv
<1>2. ASSUME turns' = turns, ProposalsCarry PROVE TurnsCarry
  <2>1. 1 .. Len(proposals) \subseteq 1 .. Len(proposals')
    BY <1>2, TurnFacts DEF ProposalsCarry
  <2>2. QED
    BY <1>2, <2>1 DEF TurnsCarry, TurnInv
<1>3. ASSUME UNCHANGED world PROVE TimeGoesOn
  BY <1>3, TurnFacts DEF TimeGoesOn, world
<1>4. QED
  BY <1>1, <1>2, <1>3

LEMMA ReconciledCarries ==
  ASSUME TurnInv, NEW r, proposals' = Reconciled(r)
  PROVE  ProposalsCarry
<1>1. /\ Proposal = 1 .. Len(proposals) /\ Len(proposals) \in 0 .. MaxProposals /\ MaxProposals \in Nat
      /\ \A p \in Proposal : proposals[p] \in ProposalRecord
  BY TurnFacts
<1>2. \A p \in Proposal : proposals'[p] \in ProposalRecord /\ Same(proposals[p], proposals'[p])
  <2> SUFFICES ASSUME NEW p \in Proposal PROVE proposals'[p] \in ProposalRecord /\ Same(proposals[p], proposals'[p])
    OBVIOUS
  <2> DEFINE x == proposals[p]
             y == [x EXCEPT !.status = "stale"]
  <2>1. proposals'[p] = x \/ (x.status \in Undecided /\ proposals'[p] = y)
    BY DEF Reconciled
  <2>2. x \in ProposalRecord
    BY <1>1
  <2>3. y \in ProposalRecord /\ y.kind = x.kind /\ y.base = x.base /\ y.expects = x.expects /\ y.status = "stale"
    BY <2>2 DEF ProposalRecord
  <2> HIDE DEF x, y
  <2>4. proposals'[p] \in ProposalRecord /\ Same(x, proposals'[p])
    BY <2>1, <2>2, <2>3 DEF Same, Undecided
  <2>5. QED
    BY <2>4 DEF x
<1>3. proposals' \in [1 .. Len(proposals) -> ProposalRecord]
  BY <1>1, <1>2 DEF Reconciled
<1>4. proposals' \in Seq(ProposalRecord) /\ Len(proposals') = Len(proposals)
  BY <1>1, <1>3
<1>5. QED
  BY <1>1, <1>2, <1>4 DEF ProposalsCarry

LEMMA DraftCarries ==
  ASSUME TurnInv, NEW k \in Kinds, NEW r \in Nat, NEW v \in Nat, r <= revision, v <= version,
         Len(proposals) < MaxProposals, proposals' = Append(proposals, Draft(k, r, v))
  PROVE  ProposalsCarry /\ Len(proposals') = Len(proposals) + 1
<1>1. /\ Len(proposals) \in Nat /\ MaxProposals \in Nat /\ proposals \in Seq(ProposalRecord)
  BY TurnFacts
<1> DEFINE d == Draft(k, r, v)
<1>2. d \in ProposalRecord /\ d.status = "draft" /\ d.base = r /\ d.expects = v
  BY DEF Draft, ProposalRecord
<1> HIDE DEF d
<1>3. /\ proposals' \in Seq(ProposalRecord) /\ Len(proposals') = Len(proposals) + 1
      /\ \A p \in 1 .. Len(proposals) : proposals'[p] = proposals[p]
      /\ proposals'[Len(proposals) + 1] = d
  BY <1>1, <1>2 DEF d
<1>4. \A p \in 1 .. Len(proposals') : p \in 1 .. Len(proposals) \/ p = Len(proposals) + 1
  BY <1>1, <1>3
<1>5. QED
  BY <1>1, <1>2, <1>3, <1>4 DEF ProposalsCarry, Same

(* What a runner has to know after a step. *)
KnowsThen(r) ==
  /\ r.at \in {"ask", "tool", "record"} => turns' # << >>
  /\ r.at \in {"tool", "record"} => r.kind \in Kinds
  /\ r.at = "apply" => r.made \in 1 .. Len(proposals')
  /\ r.rev <= revision' /\ r.saw <= version'

RunMoves(t, x) == run' = [s \in Turn |-> IF s = t THEN x ELSE run[s]]

LEMMA RunnerMoves ==
  ASSUME TurnInv, TimeGoesOn, session' \in {"active", "closing", "closed"}, ProposalsCarry, TurnsCarry,
         NEW t \in Turn, NEW x \in RunState(Len(proposals')), KnowsThen(x), RunMoves(t, x)
  PROVE  TurnInv'
<1>1. /\ run \in [Turn -> RunState(Len(proposals))]
      /\ Len(proposals) \in Nat /\ Len(proposals') \in Nat /\ Len(proposals) <= Len(proposals')
  BY TurnFacts DEF ProposalsCarry
<1>2. RunState(Len(proposals)) \subseteq RunState(Len(proposals'))
  <2>1. 0 .. Len(proposals) \subseteq 0 .. Len(proposals')
    BY <1>1
  <2>2. QED
    BY <2>1 DEF RunState
<1>3. run' \in [Turn -> RunState(Len(proposals'))]
  BY <1>1, <1>2 DEF RunMoves
<1>4. \A s \in Turn : run'[s] = run[s] \/ RunnerKnows(run[s], Len(proposals))'
  <2> SUFFICES ASSUME NEW s \in Turn, run'[s] # run[s] PROVE RunnerKnows(run[s], Len(proposals))'
    OBVIOUS
  <2>1. run'[s] = x
    BY DEF RunMoves
  <2>2. QED
    BY <2>1 DEF RunnerKnows, KnowsThen
<1>5. QED
  BY <1>3, <1>4, TurnInvNext

LEMMA RunnerStays ==
  ASSUME TurnInv, TimeGoesOn, session' \in {"active", "closing", "closed"}, ProposalsCarry, TurnsCarry,
         UNCHANGED run
  PROVE  TurnInv'
<1>1. /\ run \in [Turn -> RunState(Len(proposals))]
      /\ Len(proposals) \in Nat /\ Len(proposals') \in Nat /\ Len(proposals) <= Len(proposals')
  BY TurnFacts DEF ProposalsCarry
<1>2. RunState(Len(proposals)) \subseteq RunState(Len(proposals'))
  <2>1. 0 .. Len(proposals) \subseteq 0 .. Len(proposals')
    BY <1>1
  <2>2. QED
    BY <2>1 DEF RunState
<1>3. run' \in [Turn -> RunState(Len(proposals'))] /\ \A s \in Turn : run'[s] = run[s]
  BY <1>1, <1>2
<1>4. QED
  BY <1>3, TurnInvNext

LEMMA Grounds ==
  ASSUME TurnInv, NEW t \in Turn, Ground(t)
  PROVE  TurnInv' /\ ProposalsCarry /\ TimeGoesOn
<1>1. ProposalsCarry /\ TurnsCarry /\ TimeGoesOn /\ session' \in {"active", "closing", "closed"}
  BY NothingCarries DEF Ground, file, TurnInv
<1> DEFINE x == [run[t] EXCEPT !.at = "start", !.rev = revision]
<1>2. run \in [Turn -> RunState(Len(proposals))] /\ revision \in Nat /\ run[t].saw <= version
  BY TurnFacts
<1>3. run[t] \in RunState(Len(proposals))
  BY <1>2
<1>4. RunMoves(t, x)
  BY <1>2 DEF Ground, RunMoves
<1>5. x \in RunState(Len(proposals)) /\ x.at = "start" /\ x.rev = revision /\ x.saw = run[t].saw
  BY <1>2, <1>3 DEF RunState, RunPlaces
<1> HIDE DEF x
<1>6. x \in RunState(Len(proposals')) /\ KnowsThen(x)
  BY <1>2, <1>5 DEF Ground, file, world, KnowsThen
<1>7. QED
  BY <1>1, <1>4, <1>6, RunnerMoves

LEMMA LeaveMoves ==
  ASSUME TurnInv, TimeGoesOn, session' \in {"active", "closing", "closed"}, ProposalsCarry, TurnsCarry,
         NEW t \in Turn, Leave(t)
  PROVE  TurnInv'
<1> DEFINE x == [Out EXCEPT !.at = "end"]
<1>1. /\ run \in [Turn -> RunState(Len(proposals))] /\ revision \in Nat /\ version \in Nat
      /\ Len(proposals') \in Nat
  BY TurnFacts DEF ProposalsCarry
<1>2. RunMoves(t, x)
  BY <1>1 DEF Leave, RunMoves
<1>3. x \in RunState(Len(proposals')) /\ x.at = "end" /\ x.rev = 0 /\ x.saw = 0
  <2>1. Out \in RunState(Len(proposals')) /\ Out.rev = 0 /\ Out.saw = 0
    <3>1. 0 \in 0 .. Len(proposals') /\ 0 \in Nat /\ "" \in Kinds \cup {""} /\ "out" \in RunPlaces
      BY <1>1 DEF RunPlaces
    <3>2. QED
      BY <3>1, Zenon DEF Out, RunState
  <2>2. QED
    BY <1>1, <2>1 DEF RunState, RunPlaces
<1> HIDE DEF x
<1>4. KnowsThen(x)
  BY <1>1, <1>3 DEF KnowsThen, TimeGoesOn
<1>5. QED
  BY <1>2, <1>3, <1>4, RunnerMoves

(* How a list of turns goes on: its turns are replaced one by one. *)
LEMMA ReplacedCarry ==
  ASSUME TurnInv, ProposalsCarry,
         DOMAIN turns' = DOMAIN turns, turns' = [i \in DOMAIN turns |-> turns'[i]],
         \A i \in DOMAIN turns :
           /\ turns'[i].of = turns[i].of /\ turns'[i].base = turns[i].base
           /\ turns'[i] \in TurnRecord /\ turns'[i].made \subseteq 1 .. Len(proposals')
  PROVE  TurnsCarry
<1>1. turns \in Seq(TurnRecord) /\ Len(turns) \in Nat /\ DOMAIN turns = 1 .. Len(turns)
  BY TurnFacts
<1>2. turns' \in [1 .. Len(turns) -> TurnRecord]
  BY <1>1
<1>3. turns' \in Seq(TurnRecord) /\ Len(turns') = Len(turns)
  BY <1>1, <1>2
<1>4. turns # << >> => turns' # << >>
  BY <1>1, <1>3
<1>5. QED
  BY <1>3, <1>4 DEF TurnsCarry

LEMMA StartsTurn ==
  ASSUME TurnInv, NEW t \in Turn, StartTurn(t)
  PROVE  TurnInv' /\ ProposalsCarry /\ TimeGoesOn
<1>1. TimeGoesOn /\ session' \in {"active", "closing", "closed"}
  BY NothingCarries DEF StartTurn, TurnInv
<1>2. CASE ~Open
  <2>1. ProposalsCarry /\ TurnsCarry /\ Leave(t)
    BY <1>2, NothingCarries DEF StartTurn
  <2>2. QED
    BY <1>1, <2>1, LeaveMoves
<1>3. CASE Open
  <2> DEFINE w == [of |-> t, base |-> run[t].rev, status |-> "running", made |-> {}]
             x == [run[t] EXCEPT !.at = "ask"]
  <2>1. /\ run \in [Turn -> RunState(Len(proposals))] /\ run[t].rev \in Nat
        /\ run[t].rev <= revision /\ run[t].saw <= version /\ turns \in Seq(TurnRecord)
        /\ \A i \in DOMAIN turns : turns[i].made \subseteq 1 .. Len(proposals)
    BY TurnFacts DEF TurnInv
  <2>2. ProposalsCarry
    BY <1>3, ReconciledCarries DEF StartTurn
  <2>3. Len(proposals) \in Nat /\ Len(proposals') \in Nat /\ Len(proposals) <= Len(proposals')
    BY <2>2, TurnFacts DEF ProposalsCarry
  <2>4. w \in TurnRecord /\ w.made = {}
    BY <2>1 DEF TurnRecord
  <2>5. turns' = Append(turns, w)
    BY <1>3 DEF StartTurn
  <2> HIDE DEF w
  <2>6. TurnsCarry
    <3>1. turns' \in Seq(TurnRecord) /\ Len(turns') = Len(turns) + 1 /\ turns' # << >>
      BY <2>1, <2>4, <2>5
    <3>2. \A i \in DOMAIN turns' : turns'[i] = w \/ (i \in DOMAIN turns /\ turns'[i] = turns[i])
      BY <2>1, <2>4, <2>5
    <3>3. 1 .. Len(proposals) \subseteq 1 .. Len(proposals')
      BY <2>3
    <3>4. QED
      BY <2>1, <2>4, <3>1, <3>2, <3>3 DEF TurnsCarry
  <2>7. RunMoves(t, x)
    BY <1>3, <2>1 DEF StartTurn, Go, RunMoves
  <2>8. run[t] \in RunState(Len(proposals'))
    <3>1. 0 .. Len(proposals) \subseteq 0 .. Len(proposals')
      BY <2>3
    <3>2. run[t] \in RunState(Len(proposals))
      BY <2>1
    <3>3. QED
      BY <3>1, <3>2 DEF RunState
  <2>9. x \in RunState(Len(proposals')) /\ x.at = "ask" /\ x.rev = run[t].rev /\ x.saw = run[t].saw
    BY <2>8 DEF RunState, RunPlaces
  <2> HIDE DEF x
  <2>10. turns' # << >>
    BY <2>1, <2>4, <2>5
  <2>11. KnowsThen(x)
    BY <2>1, <2>9, <2>10 DEF KnowsThen, StartTurn, world
  <2>12. QED
    BY <1>1, <2>2, <2>6, <2>7, <2>9, <2>11, RunnerMoves
<1>4. QED
  BY <1>2, <1>3

LEMMA AsksAgent ==
  ASSUME TurnInv, NEW t \in Turn, AskToRead(t) \/ AskToPropose(t)
  PROVE  TurnInv' /\ ProposalsCarry /\ TimeGoesOn
<1>1. ProposalsCarry /\ TurnsCarry /\ TimeGoesOn /\ session' \in {"active", "closing", "closed"}
  BY NothingCarries DEF AskToRead, AskToPropose, file, TurnInv
<1>2. /\ run \in [Turn -> RunState(Len(proposals))] /\ run[t] \in RunState(Len(proposals))
      /\ run[t].rev <= revision /\ run[t].saw <= version /\ run[t].rounds \in Nat
  BY TurnFacts DEF RunState
<1>3. RunnerKnows(run[t], Len(proposals)) /\ run[t].at = "ask" /\ turns # << >>
  BY DEF TurnInv, RunnerKnows, AskToRead, AskToPropose
<1>4. UNCHANGED <<turns, proposals, revision, version>>
  BY DEF AskToRead, AskToPropose, file, world
<1> DEFINE n == run[t].rounds + 1
<1>5. n \in Nat
  BY <1>2
<1>6. CASE AskToRead(t)
  <2> DEFINE x == [run[t] EXCEPT !.rounds = n]
  <2>1. RunMoves(t, x)
    BY <1>2, <1>6 DEF AskToRead, RunMoves
  <2> HIDE DEF n
  <2>2. x \in RunState(Len(proposals)) /\ x.at = "ask" /\ x.rev = run[t].rev /\ x.saw = run[t].saw
    BY <1>2, <1>3, <1>5 DEF RunState, RunPlaces
  <2> HIDE DEF x
  <2>3. x \in RunState(Len(proposals')) /\ KnowsThen(x)
    BY <1>2, <1>3, <1>4, <2>2 DEF KnowsThen
  <2>4. QED
    BY <1>1, <2>1, <2>3, RunnerMoves
<1>7. CASE AskToPropose(t)
  <2>1. PICK k \in Kinds : run' = [run EXCEPT ![t].rounds = @ + 1, ![t].kind = k, ![t].at = "tool"]
    BY <1>7 DEF AskToPropose
  <2> DEFINE x == [run[t] EXCEPT !.rounds = n, !.kind = k, !.at = "tool"]
  <2>2. RunMoves(t, x)
    BY <1>2, <2>1 DEF RunMoves
  <2> HIDE DEF n
  <2>3. x \in RunState(Len(proposals)) /\ x.at = "tool" /\ x.kind = k /\ x.rev = run[t].rev /\ x.saw = run[t].saw
    BY <1>2, <1>3, <1>5 DEF RunState, RunPlaces
  <2> HIDE DEF x
  <2>4. x \in RunState(Len(proposals')) /\ KnowsThen(x)
    BY <1>2, <1>3, <1>4, <2>3 DEF KnowsThen
  <2>5. QED
    BY <1>1, <2>2, <2>4, RunnerMoves
<1>8. QED
  BY <1>6, <1>7

LEMMA UsesTool ==
  ASSUME TurnInv, NEW t \in Turn, UseTool(t)
  PROVE  TurnInv' /\ ProposalsCarry /\ TimeGoesOn
<1>1. TimeGoesOn /\ session' \in {"active", "closing", "closed"} /\ UNCHANGED <<turns, revision, version>>
  BY NothingCarries DEF UseTool, TurnInv, world
<1>2. /\ run \in [Turn -> RunState(Len(proposals))] /\ run[t] \in RunState(Len(proposals))
      /\ run[t].rev \in Nat /\ run[t].rev <= revision /\ version \in Nat /\ revision \in Nat
      /\ Len(proposals) \in Nat
  BY TurnFacts
<1>3. run[t].kind \in Kinds /\ turns # << >>
  BY DEF TurnInv, RunnerKnows, UseTool
<1>4. CASE run[t].kind \in Returned
  <2> DEFINE x == [run[t] EXCEPT !.at = "record", !.made = 0, !.saw = version]
  <2>1. ProposalsCarry /\ TurnsCarry /\ proposals' = proposals
    BY <1>1, <1>4, NothingCarries DEF UseTool
  <2>2. RunMoves(t, x)
    BY <1>2, <1>4 DEF UseTool, RunMoves
  <2>3. 0 \in 0 .. Len(proposals)
    BY <1>2
  <2>4. x \in RunState(Len(proposals)) /\ x.at = "record" /\ x.rev = run[t].rev /\ x.saw = version /\ x.kind = run[t].kind
    BY <1>2, <2>3 DEF RunState, RunPlaces
  <2> HIDE DEF x
  <2>5. x \in RunState(Len(proposals')) /\ KnowsThen(x)
    BY <1>1, <1>2, <1>3, <2>1, <2>4 DEF KnowsThen
  <2>6. QED
    BY <1>1, <2>1, <2>2, <2>5, RunnerMoves
<1>5. CASE run[t].kind \notin Returned
  <2> DEFINE n == Len(proposals) + 1
             x == [run[t] EXCEPT !.at = "record", !.made = n]
  <2>1. ProposalsCarry /\ Len(proposals') = n
    BY <1>2, <1>3, <1>5, DraftCarries DEF UseTool
  <2>2. TurnsCarry
    BY <1>1, <2>1, NothingCarries
  <2>3. RunMoves(t, x)
    BY <1>2, <1>5 DEF UseTool, RunMoves
  <2>4. n \in 0 .. Len(proposals') /\ 0 .. Len(proposals) \subseteq 0 .. Len(proposals')
    BY <1>2, <2>1
  <2>5. run[t] \in RunState(Len(proposals'))
    BY <1>2, <2>4 DEF RunState
  <2> HIDE DEF n
  <2>6. x \in RunState(Len(proposals')) /\ x.at = "record" /\ x.rev = run[t].rev /\ x.saw = run[t].saw /\ x.kind = run[t].kind
    BY <2>4, <2>5 DEF RunState, RunPlaces
  <2> HIDE DEF x
  <2>7. KnowsThen(x)
    BY <1>1, <1>3, <2>6, TurnFacts DEF KnowsThen
  <2>8. QED
    BY <1>1, <2>1, <2>2, <2>3, <2>6, <2>7, RunnerMoves
<1>6. QED
  BY <1>4, <1>5

LEMMA Goes ==
  ASSUME TurnInv, TimeGoesOn, session' \in {"active", "closing", "closed"}, ProposalsCarry, TurnsCarry,
         NEW t \in Turn, Go(t, "ask"), turns' # << >>, UNCHANGED <<revision, version>>
  PROVE  TurnInv'
<1> DEFINE x == [run[t] EXCEPT !.at = "ask"]
<1>1. /\ run \in [Turn -> RunState(Len(proposals))] /\ run[t] \in RunState(Len(proposals))
      /\ run[t].rev <= revision /\ run[t].saw <= version
      /\ Len(proposals) \in Nat /\ Len(proposals') \in Nat /\ Len(proposals) <= Len(proposals')
  BY TurnFacts DEF ProposalsCarry
<1>2. 0 .. Len(proposals) \subseteq 0 .. Len(proposals')
  BY <1>1
<1>3. run[t] \in RunState(Len(proposals'))
  BY <1>1, <1>2 DEF RunState
<1>4. RunMoves(t, x)
  BY <1>1 DEF Go, RunMoves
<1>5. x \in RunState(Len(proposals')) /\ x.at = "ask" /\ x.rev = run[t].rev /\ x.saw = run[t].saw
  BY <1>3 DEF RunState, RunPlaces
<1> HIDE DEF x
<1>6. KnowsThen(x)
  BY <1>1, <1>5 DEF KnowsThen
<1>7. QED
  BY <1>4, <1>5, <1>6, RunnerMoves

LEMMA Records ==
  ASSUME TurnInv, NEW t \in Turn, Record(t)
  PROVE  TurnInv' /\ ProposalsCarry /\ TimeGoesOn
<1>1. TimeGoesOn /\ session' \in {"active", "closing", "closed"} /\ UNCHANGED <<revision, version>>
  BY NothingCarries DEF Record, TurnInv, world
<1>2. /\ run[t] \in RunState(Len(proposals))
      /\ run[t].rev \in Nat /\ run[t].rev <= revision /\ run[t].saw \in Nat /\ run[t].saw <= version
      /\ Len(proposals) \in Nat /\ turns \in Seq(TurnRecord) /\ MaxProposals \in Nat
      /\ Len(proposals) <= MaxProposals
      /\ \A i \in DOMAIN turns : turns[i] \in TurnRecord /\ turns[i].made \subseteq 1 .. Len(proposals)
  BY TurnFacts DEF TurnInv
<1>3. run[t].kind \in Kinds /\ turns # << >>
  BY DEF TurnInv, RunnerKnows, Record
<1>4. run[t].made \in 0 .. Len(proposals)
  BY <1>2 DEF RunState
<1> DEFINE p == IF run[t].made = 0 THEN Len(proposals) + 1 ELSE run[t].made
<1>5. ProposalsCarry /\ p \in 1 .. Len(proposals')
  <2>1. CASE run[t].made = 0
    BY <1>2, <1>3, <2>1, DraftCarries DEF Record
  <2>2. CASE run[t].made # 0
    BY <1>2, <1>4, <2>2, NothingCarries DEF Record
  <2>3. QED
    BY <2>1, <2>2
<1>6. /\ DOMAIN turns' = DOMAIN turns /\ turns' = [i \in DOMAIN turns |-> turns'[i]]
      /\ \A i \in DOMAIN turns :
           turns'[i] = IF turns[i].of = t THEN [turns[i] EXCEPT !.made = turns[i].made \cup {p}] ELSE turns[i]
  BY DEF Record, Updated
<1> HIDE DEF p
<1>7. /\ 1 .. Len(proposals') \subseteq 1 .. MaxProposals /\ 1 .. Len(proposals) \subseteq 1 .. Len(proposals')
  BY <1>2, <1>5 DEF ProposalsCarry
<1>8. ASSUME NEW i \in DOMAIN turns
      PROVE  /\ turns'[i].of = turns[i].of /\ turns'[i].base = turns[i].base
             /\ turns'[i] \in TurnRecord /\ turns'[i].made \subseteq 1 .. Len(proposals')
  <2> DEFINE m == turns[i].made \cup {p}
  <2>1. m \subseteq 1 .. Len(proposals') /\ m \in SUBSET (1 .. MaxProposals)
    BY <1>2, <1>5, <1>7
  <2> HIDE DEF m
  <2>2. turns[i] \in TurnRecord
    BY <1>2
  <2> DEFINE y == [turns[i] EXCEPT !.made = m]
  <2>3. y \in TurnRecord /\ y.of = turns[i].of /\ y.base = turns[i].base /\ y.made = m
    BY <2>1, <2>2 DEF TurnRecord
  <2>4. turns'[i] = y \/ turns'[i] = turns[i]
    BY <1>6 DEF m
  <2> HIDE DEF y
  <2>5. QED
    BY <1>2, <1>7, <2>1, <2>3, <2>4
<1>9. TurnsCarry
  BY <1>5, <1>6, <1>8, ReplacedCarry
<1>10. turns' # << >>
  BY <1>3, <1>9 DEF TurnsCarry
<1>11. QED
  BY <1>1, <1>5, <1>9, <1>10, Goes DEF Record

TurnEnds == {"running", "completed", "failed", "interrupted"}

(* Turns whose status alone changes. *)
LEMMA StatusCarry ==
  ASSUME TurnInv, ProposalsCarry,
         DOMAIN turns' = DOMAIN turns, turns' = [i \in DOMAIN turns |-> turns'[i]],
         NEW s \in TurnEnds,
         \A i \in DOMAIN turns : turns'[i] = turns[i] \/ turns'[i] = [turns[i] EXCEPT !.status = s]
  PROVE  TurnsCarry
<1>1. /\ Len(proposals) \in Nat /\ turns \in Seq(TurnRecord)
      /\ \A i \in DOMAIN turns : turns[i] \in TurnRecord /\ turns[i].made \subseteq 1 .. Len(proposals)
  BY TurnFacts DEF TurnInv
<1>2. 1 .. Len(proposals) \subseteq 1 .. Len(proposals')
  BY <1>1 DEF ProposalsCarry
<1>3. ASSUME NEW i \in DOMAIN turns
      PROVE  /\ turns'[i].of = turns[i].of /\ turns'[i].base = turns[i].base
             /\ turns'[i] \in TurnRecord /\ turns'[i].made \subseteq 1 .. Len(proposals')
  <2> DEFINE y == [turns[i] EXCEPT !.status = s]
  <2>1. turns[i] \in TurnRecord
    BY <1>1
  <2>2. y \in TurnRecord /\ y.of = turns[i].of /\ y.base = turns[i].base /\ y.made = turns[i].made
    BY <2>1 DEF TurnRecord, TurnEnds
  <2>3. turns'[i] = y \/ turns'[i] = turns[i]
    OBVIOUS
  <2> HIDE DEF y
  <2>4. QED
    BY <1>1, <1>2, <2>2, <2>3
<1>4. QED
  BY <1>3, ReplacedCarry

LEMMA EndsTurn ==
  ASSUME TurnInv, NEW t \in Turn, Finish(t) \/ Fail(t)
  PROVE  TurnInv' /\ ProposalsCarry /\ TimeGoesOn
<1>1. PICK s \in {"completed", "failed"} : EndTurn(t, s)
  BY DEF Finish, Fail
<1>2. /\ TimeGoesOn /\ session' \in {"active", "closing", "closed"} /\ UNCHANGED <<revision, version>>
      /\ ProposalsCarry /\ proposals' = proposals
  BY <1>1, NothingCarries DEF EndTurn, TurnInv, world
<1>3. turns # << >>
  BY DEF TurnInv, RunnerKnows, Finish, Fail
<1>4. /\ DOMAIN turns' = DOMAIN turns /\ turns' = [i \in DOMAIN turns |-> turns'[i]]
      /\ \A i \in DOMAIN turns :
           turns'[i] = IF turns[i].of = t THEN [turns[i] EXCEPT !.status = s] ELSE turns[i]
  BY <1>1 DEF EndTurn, Ended, Updated
<1>5. TurnsCarry
  BY <1>2, <1>4, StatusCarry DEF TurnEnds
<1>6. CASE ToApply(t, turns') = {}
  <2>1. Leave(t)
    BY <1>1, <1>6 DEF EndTurn
  <2>2. QED
    BY <1>2, <1>5, <2>1, LeaveMoves
<1>7. CASE ToApply(t, turns') # {}
  <2> DEFINE p == CHOOSE p \in ToApply(t, turns') : TRUE
             x == [run[t] EXCEPT !.at = "apply", !.made = p]
  <2>1. p \in ToApply(t, turns')
    BY <1>7
  <2>2. run' = [run EXCEPT ![t].at = "apply", ![t].made = p]
    BY <1>1, <1>7 DEF EndTurn
  <2> HIDE DEF p
  <2>3. p \in turns'[Len(turns')].made
    BY <2>1 DEF ToApply
  <2>4. Len(turns') \in DOMAIN turns'
    BY <1>3, <1>5 DEF TurnsCarry
  <2>5. p \in 1 .. Len(proposals')
    BY <1>5, <2>3, <2>4 DEF TurnsCarry
  <2>6. /\ run \in [Turn -> RunState(Len(proposals))] /\ run[t] \in RunState(Len(proposals))
        /\ run[t].rev <= revision /\ run[t].saw <= version
    BY TurnFacts
  <2>7. RunMoves(t, x)
    BY <2>2, <2>6 DEF RunMoves
  <2>8. p \in 0 .. Len(proposals)
    BY <1>2, <2>5
  <2>9. x \in RunState(Len(proposals)) /\ x.at = "apply" /\ x.made = p /\ x.rev = run[t].rev /\ x.saw = run[t].saw
    BY <2>6, <2>8 DEF RunState, RunPlaces
  <2> HIDE DEF x
  <2>10. x \in RunState(Len(proposals')) /\ KnowsThen(x)
    BY <1>2, <2>5, <2>6, <2>9 DEF KnowsThen
  <2>11. QED
    BY <1>2, <1>5, <2>7, <2>10, RunnerMoves
<1>8. QED
  BY <1>6, <1>7

LEMMA ShownCarries ==
  ASSUME TurnInv, Shown
  PROVE  ProposalsCarry /\ TurnsCarry
<1>1. PICK r \in 0 .. revision : proposals' = Reconciled(r)
  BY DEF Shown
<1>2. ProposalsCarry
  BY <1>1, ReconciledCarries
<1>3. /\ DOMAIN turns' = DOMAIN turns /\ turns' = [i \in DOMAIN turns |-> turns'[i]]
      /\ \A i \in DOMAIN turns : turns'[i] = turns[i] \/ turns'[i] = [turns[i] EXCEPT !.status = "interrupted"]
  BY DEF Shown, Interrupted
<1>4. QED
  BY <1>2, <1>3, StatusCarry DEF TurnEnds

(* What others do with the session and the world. *)
LEMMA OthersKeep ==
  ASSUME TurnInv, Reopen \/ Close \/ Closed \/ OtherEdit \/ OtherAction
  PROVE  TurnInv' /\ ProposalsCarry /\ TimeGoesOn
<1>1. UNCHANGED run /\ session' \in {"active", "closing", "closed"}
  BY DEF TurnInv, Reopen, Close, Closed, OtherEdit, OtherAction, file
<1>2. ProposalsCarry /\ TurnsCarry
  BY ShownCarries, NothingCarries DEF Reopen, Close, Closed, OtherEdit, OtherAction, file
<1>3. TimeGoesOn
  <2>1. CASE Reopen \/ Close \/ Closed
    BY <2>1, NothingCarries DEF Reopen, Close, Closed, world
  <2>2. CASE OtherEdit
    BY <2>2, TurnFacts DEF OtherEdit, TimeGoesOn
  <2>3. CASE OtherAction
    BY <2>3, TurnFacts DEF OtherAction, TimeGoesOn
  <2>4. QED
    BY <2>1, <2>2, <2>3
<1>4. QED
  BY <1>1, <1>2, <1>3, RunnerStays

LEMMA RunnerDiesKeeps ==
  ASSUME TurnInv, NEW t \in Turn, RunnerDies(t)
  PROVE  TurnInv' /\ ProposalsCarry /\ TimeGoesOn
<1>1. TimeGoesOn /\ session' \in {"active", "closing", "closed"} /\ ProposalsCarry /\ TurnsCarry /\ Leave(t)
  BY NothingCarries DEF RunnerDies, file, TurnInv
<1>2. QED
  BY <1>1, LeaveMoves

LEMMA TurnKeeps ==
  ASSUME TurnInv, TurnStep
  PROVE  TurnInv' /\ ProposalsCarry /\ TimeGoesOn
<1>1. CASE \E t \in Turn : Ground(t) \/ RunnerStep(t) \/ RunnerDies(t)
  <2>1. PICK t \in Turn : Ground(t) \/ RunnerStep(t) \/ RunnerDies(t)
    BY <1>1
  <2>2. QED
    BY <2>1, Grounds, StartsTurn, AsksAgent, UsesTool, Records, EndsTurn, RunnerDiesKeeps DEF RunnerStep
<1>2. CASE Reopen \/ Close \/ Closed \/ OtherEdit \/ OtherAction
  BY <1>2, OthersKeep
<1>3. QED
  BY <1>1, <1>2 DEF TurnStep

-------------------------------------------------------------------------------
(* The rest of the invariant.  An operation keeps its kind, and what is known    *)
(* of it, as long as nothing is done.                                            *)
KindsCarry == \A p \in Proposal : p \in Proposal' /\ proposals'[p].kind = proposals[p].kind

Carries(o) ==
  /\ o \in ApprovedOperation' /\ KindOf(o)' = KindOf(o) /\ (Known(o) => Known(o)')
  /\ (Evident(o)' <=> Evident(o)) /\ (Effective(o)' <=> Effective(o))

LEMMA EffectTyped ==
  ASSUME LedgerTyped, NEW i \in DOMAIN effects
  PROVE  /\ effects[i][1] \in ApprovedOperation /\ effects[i][2] \in Nat
         /\ effects[i][1][1] \in Proposal /\ Effective(effects[i][1])
<1>1. effects[i] \in ApprovedOperation \X Nat
  BY DEF LedgerTyped
<1>2. effects[i][1] \in ApprovedOperation /\ effects[i][2] \in Nat
  BY <1>1
<1>3. QED
  BY <1>2 DEF ApprovedOperation, Effective

LEMMA OperationsCarry ==
  ASSUME TurnInv, LedgerTyped, KindsCarry, UNCHANGED <<outside, effects>>
  PROVE  /\ \A o \in ApprovedOperation : Carries(o)
         /\ \A o : o \notin ApprovedOperation => ~Effective(o)' /\ ~Evident(o)'
<1>1. ASSUME NEW o \in ApprovedOperation PROVE Carries(o)
  <2>1. o[1] \in Proposal /\ o[2] \in Choice /\ o = <<o[1], o[2]>>
    BY DEF ApprovedOperation
  <2>2. KindOf(o)' = KindOf(o)
    BY <2>1 DEF KindOf, KindsCarry
  <2>3. o \in ApprovedOperation'
    BY <2>1 DEF ApprovedOperation, KindsCarry
  <2>4. Effective(o)' <=> Effective(o)
    BY DEF Effective
  <2>5. Evident(o)' <=> Evident(o)
    BY <2>2, <2>4, Zenon DEF Evident, outside
  <2>6. QED
    BY <2>2, <2>3, <2>4, <2>5 DEF Carries, Known
<1>2. ASSUME NEW o, o \notin ApprovedOperation PROVE ~Effective(o)' /\ ~Evident(o)'
  <2>1. ~Effective(o)'
    BY <1>2, EffectTyped DEF Effective
  <2>2. UNCHANGED <<logged, started, jobs>>
    BY DEF outside
  <2>3. o \notin logged' /\ \A s : <<o, s>> \notin started' /\ <<o, s>> \notin jobs'
    BY <1>2, <2>2 DEF LedgerTyped
  <2>4. QED
    BY <2>1, <2>3 DEF Evident
<1>3. QED
  BY <1>1, <1>2

LEMMA ProposalsCarryKinds ==
  ASSUME TurnInv, ProposalsCarry
  PROVE  KindsCarry
<1>1. Proposal = 1 .. Len(proposals) /\ Len(proposals) \in Nat
  BY TurnFacts
<1>2. Proposal' = 1 .. Len(proposals') /\ Len(proposals') \in Nat
  BY DEF ProposalsCarry, Proposal
<1>3. QED
  BY <1>1, <1>2 DEF ProposalsCarry, KindsCarry, Same

(* What is rejected while nobody works at it. *)
RejectsUnclaimed ==
  /\ rejected' \subseteq Proposal'
  /\ \A p \in rejected' : \/ p \in rejected
                          \/ /\ p \in Proposal /\ proposals'[p].status = "rejected"
                             /\ \A o \in Operations(p) : ~Owned(o)

LEMMA KnownIs ==
  ASSUME NEW o, Known(o)
  PROVE  o \in Operations(o[1]) /\ o[1] \in Proposal
<1>1. o[1] \in Proposal /\ o[2] \in Choice /\ o = <<o[1], o[2]>>
  BY DEF Known, ApprovedOperation
<1>2. o[2] \in Choices(o[1])
  BY <1>1 DEF Known, KindOf, Choices, Whole
<1>3. QED
  BY <1>1, <1>2 DEF Operations

LEMMA StandsOn ==
  ASSUME TurnInv, LedgerTyped, EvidenceIsTrue, KindsCarry, RejectsUnclaimed,
         UNCHANGED <<ledger, outside, effects>>,
         NEW a, NEW o, NEW m, NEW b, Stands(a, o, m, b)
  PROVE  Stands(a, o, m, b)'
<1>1. CASE a = "idle"
  BY <1>1 DEF Stands, Doing
<1>2. CASE a # "idle"
  <2>1. Known(o) /\ o \in ApprovedOperation
    BY <1>2 DEF Stands, Known
  <2>2. Carries(o)
    BY <2>1, OperationsCarry
  <2>3. ASSUME a \in Doing, o[1] \in rejected' PROVE Evident(o)'
    <3>1. CASE o[1] \in rejected
      BY <2>2, <2>3, <3>1 DEF Stands, Carries
    <3>2. CASE o[1] \notin rejected
      <4>1. ~Owned(o)
        BY <2>1, <2>3, <3>2, KnownIs DEF RejectsUnclaimed
      <4>2. <<o, m>> \notin claims
        BY <4>1 DEF Owned, Holder
      <4>3. QED
        BY <2>2, <2>3, <4>2 DEF Stands, Carries
    <3>3. QED
      BY <3>1, <3>2
  <2>4. UNCHANGED <<claims, approved>>
    BY DEF ledger
  <2>5. QED
    BY <1>2, <2>1, <2>2, <2>3, <2>4 DEF Stands, Carries
<1>3. QED
  BY <1>1, <1>2

(* The files and the world go on, the confirmations but for some stay. *)
LEMMA FilesKeep ==
  ASSUME ProposalsInv, TurnInv', ProposalsCarry, TimeGoesOn, RejectsUnclaimed, CallsTyped',
         UNCHANGED <<ledger, outside, effects>>,
         \A c \in Call : (call'[c] = call[c] /\ life'[c] = life[c]) \/ Placed(c)'
  PROVE  ProposalsInv'
<1>1. TurnInv /\ LedgerTyped /\ EvidenceIsTrue /\ KindsCarry
  BY ProposalsCarryKinds DEF ProposalsInv
<1>2. Proposal = 1 .. Len(proposals) /\ Proposal \subseteq Proposal'
  BY <1>1, TurnFacts DEF KindsCarry
<1>3. UNCHANGED <<claims, approved, logged, started, jobs, effects>>
  BY DEF ledger, outside
<1>4. ApprovedOperation \subseteq ApprovedOperation' /\ OperationClaim \subseteq OperationClaim'
  BY <1>2 DEF ApprovedOperation, OperationClaim
<1>5. LedgerTyped'
  BY <1>1, <1>3, <1>4 DEF LedgerTyped, RejectsUnclaimed
<1>6. OneOwner'
  BY <1>3 DEF ProposalsInv, OneOwner
<1>7. EvidenceIsTrue'
  BY <1>1, OperationsCarry DEF EvidenceIsTrue, Carries
<1>8. ASSUME NEW i \in DOMAIN effects
      PROVE  /\ effects[i][1] \in ApprovedOperation /\ effects[i][1][1] \in Proposal
             /\ Carries(effects[i][1])
             /\ Same(proposals[effects[i][1][1]], proposals'[effects[i][1][1]])
             /\ proposals[effects[i][1][1]].base \in Nat /\ proposals[effects[i][1][1]].expects \in Nat
  BY <1>1, <1>2, EffectTyped, OperationsCarry, TurnFacts DEF ProposalsCarry
<1>9. Spent'
  <2> SUFFICES ASSUME NEW i \in DOMAIN effects
               PROVE  /\ Known(effects[i][1])'
                      /\ KindOf(effects[i][1])' \in {"plan", "edit"} => proposals'[effects[i][1][1]].base < revision'
                      /\ KindOf(effects[i][1])' = "action" => proposals'[effects[i][1][1]].expects < version'
    BY <1>3 DEF Spent
  <2> PICK o : o = effects[i][1]
    OBVIOUS
  <2>1. Known(o) /\ Carries(o)
    BY <1>8 DEF ProposalsInv, Spent
  <2>2. /\ KindOf(o) \in {"plan", "edit"} => proposals[o[1]].base < revision
        /\ KindOf(o) = "action" => proposals[o[1]].expects < version
    BY DEF ProposalsInv, Spent
  <2>3. Same(proposals[o[1]], proposals'[o[1]]) /\ proposals[o[1]].base \in Nat /\ proposals[o[1]].expects \in Nat
    BY <1>8
  <2>4. Known(o)' /\ KindOf(o)' = KindOf(o)
    BY <2>1 DEF Carries
  <2>5. o = effects'[i][1]
    BY <1>3
  <2>6. /\ KindOf(o)' \in {"plan", "edit"} => proposals'[o[1]].base < revision'
        /\ KindOf(o)' = "action" => proposals'[o[1]].expects < version'
    <3> PICK k, b, x : k = KindOf(o) /\ b = proposals[o[1]].base /\ x = proposals[o[1]].expects
      OBVIOUS
    <3> DEFINE now == revision' then == version'
    <3>1. /\ now \in Nat /\ then \in Nat /\ revision \in Nat /\ version \in Nat /\ revision <= now /\ version <= then
      BY <1>1, TurnFacts DEF TimeGoesOn
    <3>2. b \in Nat /\ x \in Nat /\ (k \in {"plan", "edit"} => b < revision) /\ (k = "action" => x < version)
      BY <2>2, <2>3
    <3>3. (k \in {"plan", "edit"} => b < now) /\ (k = "action" => x < then)
      <4> HIDE DEF now, then
      <4> QED
        BY <3>1, <3>2, SMTT(30)
    <3>4. KindOf(o)' = k /\ proposals'[o[1]].base = b /\ proposals'[o[1]].expects = x
      BY <2>3, <2>4 DEF Same
    <3>5. QED
      BY <3>3, <3>4
  <2>7. QED
    BY <1>3, <2>4, <2>5, <2>6
<1>10. RejectedStays'
  <2> SUFFICES ASSUME NEW p \in rejected' PROVE proposals'[p].status = "rejected"
    BY DEF RejectedStays
  <2>1. CASE p \in rejected
    <3>1. p \in 1 .. Len(proposals) /\ proposals[p].status = "rejected"
      BY <1>1, <1>2, <2>1 DEF ProposalsInv, RejectedStays, LedgerTyped
    <3>2. QED
      BY <3>1 DEF ProposalsCarry, Same
  <2>2. CASE p \notin rejected
    BY <2>2 DEF RejectsUnclaimed
  <2>3. QED
    BY <2>1, <2>2
<1>11. OneEffect'
  BY <1>3 DEF ProposalsInv, OneEffect
<1>12. AtItsRevision'
  <2> SUFFICES ASSUME NEW i \in DOMAIN effects, proposals'[effects[i][1][1]].kind \in {"plan", "edit", "create"}
               PROVE  effects[i][2] = proposals'[effects[i][1][1]].base
    BY <1>3 DEF AtItsRevision
  <2>1. Same(proposals[effects[i][1][1]], proposals'[effects[i][1][1]])
    BY <1>8
  <2>2. QED
    BY <2>1 DEF ProposalsInv, AtItsRevision, Same
<1>13. AppliedIsTrue'
  <2>1. ASSUME NEW p \in Proposal', proposals'[p].status = "applied"
        PROVE  \E o \in approved : o[1] = p
    <3>1. p \in 1 .. Len(proposals')
      BY DEF Proposal, ProposalsCarry
    <3>2. p \in Proposal /\ proposals[p].status = "applied"
      BY <1>2, <2>1, <3>1 DEF ProposalsCarry, Same
    <3>3. QED
      BY <3>2 DEF ProposalsInv, AppliedIsTrue
  <2>2. \A o \in approved : \E i \in DOMAIN effects : effects[i][1] = o
    BY DEF ProposalsInv, AppliedIsTrue
  <2>3. QED
    BY <1>3, <2>1, <2>2 DEF AppliedIsTrue
<1>14. ASSUME NEW c \in Call PROVE Placed(c)'
  <2>1. CASE Placed(c)'
    BY <2>1
  <2>2. CASE call'[c] = call[c] /\ life'[c] = life[c]
    <3> PICK a, o, m, b : a = call[c].at /\ o = Op(c) /\ m = Me(c) /\ b = call[c].prior
      OBVIOUS
    <3>1. Stands(a, o, m, b)
      BY DEF ProposalsInv, Placed
    <3>2. Stands(a, o, m, b)'
      BY <1>1, <3>1, StandsOn
    <3>3. a = call'[c].at /\ o = Op(c)' /\ m = Me(c)' /\ b = call'[c].prior
      BY <2>2 DEF Op, Me
    <3>4. QED
      BY <3>2, <3>3 DEF Placed
  <2>3. QED
    BY <2>1, <2>2
<1>15. QED
  BY <1>5, <1>6, <1>7, <1>9, <1>10, <1>11, <1>12, <1>13, <1>14 DEF ProposalsInv

-------------------------------------------------------------------------------
(* How one confirmation moves. *)
Moves(c, x) == call' = [d \in Call |-> IF d = c THEN x ELSE call[d]]

LEMMA CallFacts ==
  ASSUME CallsTyped, NEW c \in Call
  PROVE  /\ call \in [Call -> CallState] /\ call[c] \in CallState /\ call[c].at \in Places
         /\ Op(c) \in Nat \X (Choice \cup {""}) /\ call[c].seen \in Statuses \cup {""}
         /\ call[c].prior \in BOOLEAN /\ Idle \in CallState /\ Idle.at = "idle"
<1>1. call \in [Call -> CallState] /\ call[c] \in CallState
  BY DEF CallsTyped
<1>2. call[c].at \in Places /\ call[c].op \in Nat \X (Choice \cup {""})
      /\ call[c].seen \in Statuses \cup {""} /\ call[c].prior \in BOOLEAN
  BY <1>1 DEF CallState
<1>3. "idle" \in Places /\ "" \in Choice \cup {""} /\ <<0, "">> \in Nat \X (Choice \cup {""})
      /\ "" \in Statuses \cup {""} /\ FALSE \in BOOLEAN
  BY DEF Places
<1>4. Idle \in CallState /\ Idle.at = "idle"
  BY <1>3, Zenon DEF CallState, Idle
<1>5. QED
  BY <1>1, <1>2, <1>4 DEF Op

LEMMA MovesTyped ==
  ASSUME CallsTyped, NEW c \in Call, NEW x \in CallState, Moves(c, x), UNCHANGED life
  PROVE  /\ CallsTyped' /\ call'[c] = x
         /\ \A d \in Call : d # c => call'[d] = call[d] /\ life'[d] = life[d]
BY DEF CallsTyped, Moves

LEMMA EndMoves ==
  ASSUME CallsTyped, NEW c \in Call, End(c)
  PROVE  Moves(c, Idle) /\ Idle \in CallState /\ Idle.at = "idle"
<1>1. call \in [Call -> CallState] /\ Idle \in CallState /\ Idle.at = "idle"
  BY CallFacts
<1>2. QED
  BY <1>1 DEF End, Moves

LEMMA ToMoves ==
  ASSUME CallsTyped, NEW c \in Call, NEW place \in Places, To(c, place)
  PROVE  \E x \in CallState : /\ Moves(c, x) /\ x.at = place /\ x.op = Op(c)
                              /\ x.seen = call[c].seen /\ x.prior = call[c].prior
<1> DEFINE x == [call[c] EXCEPT !.at = place]
<1>1. call \in [Call -> CallState] /\ call[c] \in CallState
  BY CallFacts
<1>2. Moves(c, x)
  BY <1>1 DEF To, Moves
<1>3. x \in CallState /\ x.at = place /\ x.op = call[c].op /\ x.seen = call[c].seen /\ x.prior = call[c].prior
  BY <1>1 DEF CallState
<1> HIDE DEF x
<1>4. QED
  BY <1>2, <1>3 DEF Op

LEMMA EnterMoves ==
  ASSUME CallsTyped, NEW c \in Call, NEW place \in Places, Enter(c, place)
  PROVE  \E x \in CallState : Moves(c, x) /\ x.at = place /\ x.op = Op(c) /\ x.prior = FALSE
<1> DEFINE o == Op(c)
           x == [Idle EXCEPT !.at = place, !.op = o]
<1>1. call \in [Call -> CallState] /\ Idle \in CallState /\ o \in Nat \X (Choice \cup {""})
  BY CallFacts
<1>2. Idle.prior = FALSE
  BY DEF Idle
<1>3. Moves(c, x)
  BY <1>1 DEF Enter, Moves
<1> HIDE DEF o
<1>4. x \in CallState /\ x.at = place /\ x.op = o /\ x.prior = Idle.prior
  BY <1>1 DEF CallState
<1> HIDE DEF x
<1>5. QED
  BY <1>2, <1>3, <1>4 DEF o

LEMMA IdleStands ==
  ASSUME NEW c \in Call, call'[c].at = "idle"
  PROVE  Placed(c)'
BY DEF Placed, Stands, Doing

(* A confirmation moves, and nothing else happens. *)
LEMMA MoveKeeps ==
  ASSUME ProposalsInv, NEW c \in Call, NEW x \in CallState, Moves(c, x),
         Stands(x.at, x.op, Me(c), x.prior),
         SameTurns, SameWorld, SameSession, UNCHANGED <<life, rejected>>
  PROVE  ProposalsInv'
<1>1. TurnInv /\ LedgerTyped /\ EvidenceIsTrue /\ CallsTyped
  BY DEF ProposalsInv
<1>2. UNCHANGED <<revision, edits, version, session, turns, proposals, run>> /\ UNCHANGED <<ledger, outside, effects>>
  BY DEF SameTurns, SameWorld, SameSession
<1>3. ProposalsCarry /\ TimeGoesOn
  BY <1>1, <1>2, NothingCarries DEF world
<1>4. TurnInv'
  BY <1>1, <1>2, <1>3, NothingCarries, RunnerStays DEF TurnInv
<1>5. RejectsUnclaimed
  <2>1. Proposal' = Proposal
    BY <1>2 DEF Proposal
  <2>2. QED
    BY <1>1, <2>1 DEF RejectsUnclaimed, LedgerTyped
<1>6. CallsTyped' /\ call'[c] = x /\ \A d \in Call : d # c => call'[d] = call[d] /\ life'[d] = life[d]
  BY <1>1, MovesTyped
<1>7. Placed(c)'
  <2> PICK m : m = Me(c)
    OBVIOUS
  <2>1. KindsCarry
    BY <1>1, <1>3, ProposalsCarryKinds
  <2>2. Stands(x.at, x.op, m, x.prior)'
    BY <1>1, <1>2, <1>5, <2>1, StandsOn
  <2>3. Me(c)' = m
    BY DEF Me
  <2>4. QED
    BY <1>6, <2>2, <2>3 DEF Placed, Op
<1>8. QED
  BY <1>2, <1>3, <1>4, <1>5, <1>6, <1>7, FilesKeep

-------------------------------------------------------------------------------
(* The steps of the session's file. *)
LEMMA MarkedCarries ==
  ASSUME TurnInv, NEW p \in Proposal, NEW s \in {"reviewed", "stale", "rejected"},
         proposals[p].status # "rejected", proposals' = Marked(p, s)
  PROVE  ProposalsCarry /\ proposals'[p].status = s
<1>1. /\ Proposal = 1 .. Len(proposals) /\ Len(proposals) \in 0 .. MaxProposals /\ MaxProposals \in Nat
      /\ \A q \in Proposal : proposals[q] \in ProposalRecord
  BY TurnFacts
<1> DEFINE y == [proposals[p] EXCEPT !.status = s]
<1>2. /\ y \in ProposalRecord /\ y.kind = proposals[p].kind /\ y.base = proposals[p].base
      /\ y.expects = proposals[p].expects /\ y.status = s
  <2>1. proposals[p] \in ProposalRecord
    BY <1>1
  <2>2. QED
    BY <2>1 DEF ProposalRecord
<1>3. /\ proposals' = [q \in 1 .. Len(proposals) |-> proposals'[q]] /\ proposals'[p] = y
      /\ \A q \in Proposal : q # p => proposals'[q] = proposals[q]
  <2>1. proposals' = [proposals EXCEPT ![p] = y]
    BY DEF Marked
  <2>2. proposals \in [1 .. Len(proposals) -> ProposalRecord]
    BY <1>1, TurnFacts
  <2> HIDE DEF y
  <2>3. QED
    BY <1>1, <2>1, <2>2
<1> HIDE DEF y
<1>4. \A q \in Proposal : proposals'[q] \in ProposalRecord
  BY <1>1, <1>2, <1>3
<1>5. proposals' \in [1 .. Len(proposals) -> ProposalRecord]
  BY <1>1, <1>3, <1>4
<1>6. proposals' \in Seq(ProposalRecord) /\ Len(proposals') = Len(proposals)
  BY <1>1, <1>5
<1>7. \A q \in 1 .. Len(proposals) : Same(proposals[q], proposals'[q])
  BY <1>1, <1>2, <1>3 DEF Same
<1>8. QED
  BY <1>1, <1>2, <1>3, <1>6, <1>7 DEF ProposalsCarry

LEMMA SessionWritten ==
  ASSUME ProposalsInv, ProposalsCarry, SameTurns, SameWorld, UNCHANGED <<ledger, life>>,
         RejectsUnclaimed, CallsTyped',
         \A c \in Call : call'[c] = call[c] \/ call'[c].at = "idle"
  PROVE  ProposalsInv'
<1>1. TurnInv
  BY DEF ProposalsInv
<1>2. UNCHANGED <<revision, edits, version, session, turns, run>> /\ UNCHANGED <<outside, effects>>
  BY DEF SameTurns, SameWorld
<1>3. TimeGoesOn /\ TurnsCarry
  BY <1>1, <1>2, NothingCarries DEF world
<1>4. TurnInv'
  BY <1>1, <1>2, <1>3, RunnerStays DEF TurnInv
<1>5. \A c \in Call : (call'[c] = call[c] /\ life'[c] = life[c]) \/ Placed(c)'
  BY IdleStands
<1>6. QED
  BY <1>2, <1>3, <1>4, <1>5, FilesKeep

LEMMA SameRejects ==
  ASSUME TurnInv, LedgerTyped, ProposalsCarry, UNCHANGED rejected
  PROVE  RejectsUnclaimed
<1>1. Proposal \subseteq Proposal'
  BY ProposalsCarryKinds DEF KindsCarry
<1>2. QED
  BY <1>1 DEF RejectsUnclaimed, LedgerTyped

LEMMA StaledCarries ==
  ASSUME TurnInv, NEW p \in Proposal, proposals' = Staled(p)
  PROVE  ProposalsCarry
<1>1. CASE proposals[p].status \in Undecided
  BY <1>1, MarkedCarries DEF Staled, Undecided
<1>2. CASE proposals[p].status \notin Undecided
  BY <1>2, NothingCarries DEF Staled
<1>3. QED
  BY <1>1, <1>2

LEMMA ReviewKeeps ==
  ASSUME ProposalsInv, NEW p \in Proposal, Review(p)
  PROVE  ProposalsInv'
<1>1. TurnInv /\ LedgerTyped /\ CallsTyped
  BY DEF ProposalsInv
<1>2. proposals[p].status # "rejected" /\ (proposals' = Staled(p) \/ proposals' = Marked(p, "reviewed"))
  BY DEF Review, Undecided
<1>3. ProposalsCarry
  BY <1>1, <1>2, StaledCarries, MarkedCarries
<1>4. SameTurns /\ SameWorld /\ UNCHANGED <<ledger, life, rejected, call>>
  BY DEF Review, SameRest
<1>5. RejectsUnclaimed /\ CallsTyped'
  BY <1>1, <1>3, <1>4, SameRejects DEF CallsTyped
<1>6. QED
  BY <1>3, <1>4, <1>5, SessionWritten

LEMMA RejectKeeps ==
  ASSUME ProposalsInv, NEW p \in Proposal, Reject(p)
  PROVE  ProposalsInv'
<1>1. TurnInv /\ LedgerTyped /\ CallsTyped
  BY DEF ProposalsInv
<1>2. ProposalsCarry /\ proposals'[p].status = "rejected"
  BY <1>1, MarkedCarries DEF Reject
<1>3. SameTurns /\ SameWorld /\ UNCHANGED <<ledger, life, call>>
  BY DEF Reject
<1>4. RejectsUnclaimed
  <2>1. CASE \E o \in Operations(p) : Owned(o)
    BY <1>1, <1>2, <2>1, SameRejects DEF Reject
  <2>2. CASE ~ \E o \in Operations(p) : Owned(o)
    <3>1. rejected' = rejected \cup {p}
      BY <2>2 DEF Reject
    <3>2. Proposal \subseteq Proposal' /\ rejected \subseteq Proposal
      BY <1>1, <1>2, ProposalsCarryKinds DEF KindsCarry, LedgerTyped
    <3>3. QED
      BY <1>2, <2>2, <3>1, <3>2 DEF RejectsUnclaimed
  <2>3. QED
    BY <2>1, <2>2
<1>5. CallsTyped'
  BY <1>1, <1>3 DEF CallsTyped
<1>6. QED
  BY <1>2, <1>3, <1>4, <1>5, SessionWritten

LEMMA KnownHere ==
  ASSUME ProposalsInv, NEW c \in Call, call[c].at # "idle"
  PROVE  /\ Known(Op(c)) /\ Op(c) \in ApprovedOperation /\ Op(c)[1] \in Proposal
         /\ KindOf(Op(c)) \in {"plan", "edit", "create", "action", "job"} /\ Of(c).kind = KindOf(Op(c))
         /\ Of(c) \in ProposalRecord
<1>1. Known(Op(c))
  BY DEF ProposalsInv, Placed, Stands
<1>2. Op(c) \in ApprovedOperation /\ Op(c)[1] \in Proposal
  BY <1>1 DEF Known, ApprovedOperation
<1>3. proposals[Op(c)[1]] \in ProposalRecord
  BY <1>2, TurnFacts DEF ProposalsInv
<1>4. proposals[Op(c)[1]].kind \in Kinds
  BY <1>3 DEF ProposalRecord
<1>5. QED
  BY <1>1, <1>2, <1>3, <1>4, KindAssumption DEF KindOf, Of

LEMMA SaveStaleKeeps ==
  ASSUME ProposalsInv, NEW c \in Call, SaveStale(c)
  PROVE  ProposalsInv'
<1>1. TurnInv /\ LedgerTyped /\ CallsTyped
  BY DEF ProposalsInv
<1>2. Op(c)[1] \in Proposal
  BY KnownHere DEF SaveStale, At
<1>3. ProposalsCarry
  BY <1>1, <1>2, StaledCarries DEF SaveStale
<1>4. SameTurns /\ SameWorld /\ UNCHANGED <<ledger, life, rejected>>
  BY DEF SaveStale, SameRest
<1>5. CallsTyped' /\ \A d \in Call : call'[d] = call[d] \/ call'[d].at = "idle"
  BY <1>1, <1>4, EndMoves, MovesTyped DEF SaveStale
<1>6. RejectsUnclaimed
  BY <1>1, <1>3, <1>4, SameRejects
<1>7. QED
  BY <1>3, <1>4, <1>5, <1>6, SessionWritten

LEMMA TurnStepKeeps ==
  ASSUME ProposalsInv, TurnStep
  PROVE  ProposalsInv'
<1>1. TurnInv /\ LedgerTyped /\ CallsTyped
  BY DEF ProposalsInv
<1>2. TurnInv' /\ ProposalsCarry /\ TimeGoesOn
  BY <1>1, TurnKeeps
<1>3. UNCHANGED <<ledger, outside, effects>> /\ UNCHANGED <<call, life, rejected>>
  BY DEF TurnStep, history
<1>4. RejectsUnclaimed /\ CallsTyped'
  BY <1>1, <1>2, <1>3, SameRejects DEF CallsTyped
<1>5. QED
  BY <1>2, <1>3, <1>4, FilesKeep

-------------------------------------------------------------------------------
(* The steps of a confirmation that only look. *)
LEMMA BeginsPlaced ==
  ASSUME ProposalsInv, NEW c \in Call, NEW p \in Proposal, NEW o \in Operations(p), Begins(c, o)
  PROVE  \E x \in CallState : Moves(c, x) /\ Stands(x.at, x.op, Me(c), x.prior)
<1> DEFINE s == proposals[o[1]].status
           b == o \in approved
           x == [at |-> "look", op |-> o, seen |-> s, prior |-> b]
<1>1. PICK y \in Choices(p) : o = <<p, y>>
  BY DEF Operations
<1>2. y \in Choice /\ (proposals[p].kind # "plan" => y = Whole)
  <2>1. Whole \in Choice
    BY CallAssumption DEF Whole
  <2>2. QED
    BY <2>1 DEF Choices, Whole
<1>3. p \in Nat /\ o[1] = p /\ o[2] = y /\ proposals[p] \in ProposalRecord
  BY <1>1, TurnFacts DEF ProposalsInv
<1>4. Known(o)
  BY <1>1, <1>2, <1>3 DEF Known, ApprovedOperation, KindOf
<1>5. o \in Nat \X (Choice \cup {""}) /\ s \in Statuses \cup {""} /\ b \in BOOLEAN /\ "look" \in Places
  <2>1. o \in Nat \X (Choice \cup {""})
    BY <1>1, <1>2, <1>3
  <2>2. s \in Statuses
    BY <1>3 DEF ProposalRecord, Statuses
  <2>3. b \in BOOLEAN
    BY SMT
  <2>4. QED
    BY <2>1, <2>2, <2>3 DEF Places
<1>6. Moves(c, x)
  <2>1. call \in [Call -> CallState]
    BY CallFacts DEF ProposalsInv
  <2>2. QED
    BY <2>1 DEF Begins, Moves
<1> HIDE DEF s
<1>7. x \in CallState
  BY <1>5, Zenon DEF CallState
<1>8. x.at = "look" /\ x.op = o /\ x.prior = b
  OBVIOUS
<1> HIDE DEF x
<1>9. Stands(x.at, x.op, Me(c), x.prior)
  BY <1>4, <1>8 DEF Stands, Doing
<1>10. QED
  BY <1>6, <1>7, <1>9

LEMMA BeginKeeps ==
  ASSUME ProposalsInv, NEW c \in Call, NEW p \in Proposal, Begin(c, p)
  PROVE  ProposalsInv'
<1>1. PICK o \in Operations(p) : Begins(c, o)
  BY DEF Begin
<1>2. PICK x \in CallState : Moves(c, x) /\ Stands(x.at, x.op, Me(c), x.prior)
  BY <1>1, BeginsPlaced
<1>3. SameTurns /\ SameWorld /\ SameSession /\ UNCHANGED <<life, rejected>>
  BY <1>1 DEF Begin, Begins
<1>4. QED
  BY <1>2, <1>3, MoveKeeps

LEMMA BeginByItselfKeeps ==
  ASSUME ProposalsInv, NEW c \in Call, NEW t \in Turn, BeginByItself(c, t)
  PROVE  ProposalsInv'
<1> DEFINE p == run[t].made
<1>1. TurnInv /\ LedgerTyped /\ EvidenceIsTrue /\ CallsTyped
  BY DEF ProposalsInv
<1>2. p \in Proposal
  BY <1>1, TurnFacts DEF TurnInv, RunnerKnows, BeginByItself
<1>3. PICK o \in Operations(p) : Begins(c, o)
  BY DEF BeginByItself
<1> HIDE DEF p
<1>4. PICK x \in CallState : Moves(c, x) /\ Stands(x.at, x.op, Me(c), x.prior)
  BY <1>2, <1>3, BeginsPlaced
<1>5. UNCHANGED <<revision, edits, version, session, turns, proposals>> /\ UNCHANGED <<ledger, outside, effects>>
      /\ UNCHANGED <<life, rejected>> /\ Leave(t)
  BY <1>3 DEF BeginByItself, Begins, SameWorld, SameSession
<1>6. ProposalsCarry /\ TurnsCarry /\ TimeGoesOn
  BY <1>1, <1>5, NothingCarries DEF world
<1>7. TurnInv'
  BY <1>1, <1>5, <1>6, LeaveMoves DEF TurnInv
<1>8. RejectsUnclaimed
  BY <1>1, <1>5, <1>6, SameRejects
<1>9. CallsTyped' /\ call'[c] = x /\ \A d \in Call : d # c => call'[d] = call[d] /\ life'[d] = life[d]
  BY <1>1, <1>4, <1>5, MovesTyped
<1>10. Placed(c)'
  <2> PICK m : m = Me(c)
    OBVIOUS
  <2>1. KindsCarry
    BY <1>1, <1>6, ProposalsCarryKinds
  <2>2. Stands(x.at, x.op, m, x.prior)'
    BY <1>1, <1>4, <1>5, <1>8, <2>1, StandsOn
  <2>3. Me(c)' = m
    BY <1>5 DEF Me
  <2>4. QED
    BY <1>9, <2>2, <2>3 DEF Placed, Op
<1>11. QED
  BY <1>5, <1>6, <1>7, <1>8, <1>9, <1>10, FilesKeep

LEMMA ToKeeps ==
  ASSUME ProposalsInv, NEW c \in Call, NEW place \in Places, To(c, place),
         Stands(place, Op(c), Me(c), call[c].prior),
         SameTurns, SameWorld, SameSession, UNCHANGED <<life, rejected>>
  PROVE  ProposalsInv'
<1>1. PICK x \in CallState : Moves(c, x) /\ x.at = place /\ x.op = Op(c) /\ x.prior = call[c].prior
  BY ToMoves DEF ProposalsInv
<1>2. QED
  BY <1>1, MoveKeeps

LEMMA EnterKeeps ==
  ASSUME ProposalsInv, NEW c \in Call, NEW place \in Places, Enter(c, place),
         Stands(place, Op(c), Me(c), FALSE),
         SameTurns, SameWorld, SameSession, UNCHANGED <<life, rejected>>
  PROVE  ProposalsInv'
<1>1. PICK x \in CallState : Moves(c, x) /\ x.at = place /\ x.op = Op(c) /\ x.prior = FALSE
  BY EnterMoves DEF ProposalsInv
<1>2. QED
  BY <1>1, MoveKeeps

LEMMA EndKeeps ==
  ASSUME ProposalsInv, NEW c \in Call, End(c),
         SameTurns, SameWorld, SameSession, UNCHANGED <<life, rejected>>
  PROVE  ProposalsInv'
<1>1. Moves(c, Idle) /\ Idle \in CallState /\ Idle.at = "idle"
  BY EndMoves DEF ProposalsInv
<1>2. Stands(Idle.at, Idle.op, Me(c), Idle.prior)
  BY <1>1 DEF Stands, Doing
<1>3. QED
  BY <1>1, <1>2, MoveKeeps

(* Places at which only the operation is known. *)
Waiting == {"idle", "check", "stale", "claim", "wait", "release", "release, stale"}

LEMMA WaitingStands ==
  ASSUME ProposalsInv, NEW c \in Call, call[c].at # "idle", NEW place \in Waiting, NEW b
  PROVE  Stands(place, Op(c), Me(c), b) /\ place \in Places
BY KnownHere DEF Waiting, Places, Stands, Doing

LEMMA EffectiveIs ==
  ASSUME ProposalsInv, NEW o \in ApprovedOperation
  PROVE  (Evident(o) <=> Effective(o)) /\ (o \in approved => Effective(o))
BY DEF ProposalsInv, EvidenceIsTrue, AppliedIsTrue, Effective

LEMMA LookKeeps ==
  ASSUME ProposalsInv, NEW c \in Call, Look(c)
  PROVE  ProposalsInv'
<1>1. SameTurns /\ SameWorld /\ SameSession /\ UNCHANGED <<life, rejected>> /\ call[c].at = "look"
  BY DEF Look, SameRest, At
<1>2. /\ Known(Op(c)) /\ Op(c) \in ApprovedOperation /\ Of(c).kind = KindOf(Op(c))
      /\ KindOf(Op(c)) \in {"plan", "edit", "create", "action", "job"}
  BY <1>1, KnownHere
<1>3. CASE Done(c) /\ Enter(c, "prior")
  <2>1. call[c].prior => Op(c) \in approved
    BY <1>1 DEF ProposalsInv, Placed, Stands
  <2>2. Effective(Op(c)) /\ (KindOf(Op(c)) \in {"create", "action"} => Op(c) \in approved)
    BY <1>2, <1>3, <2>1, EffectiveIs DEF Done, Evident
  <2>3. Stands("prior", Op(c), Me(c), FALSE) /\ "prior" \in Places
    BY <1>2, <2>2 DEF Stands, Doing, Places
  <2>4. QED
    BY <1>1, <1>3, <2>3, EnterKeeps
<1>4. CASE End(c)
  BY <1>1, <1>4, EndKeeps
<1>5. CASE call' = [call EXCEPT ![c].at = "check", ![c].prior = FALSE]
  <2> DEFINE x == [call[c] EXCEPT !.at = "check", !.prior = FALSE]
  <2>1. call \in [Call -> CallState] /\ call[c] \in CallState
    BY CallFacts DEF ProposalsInv
  <2>2. Moves(c, x)
    BY <1>5, <2>1 DEF Moves
  <2>3. x \in CallState /\ x.at = "check" /\ x.op = call[c].op
    BY <2>1 DEF CallState, Places
  <2> HIDE DEF x
  <2>4. Stands(x.at, x.op, Me(c), x.prior)
    BY <1>2, <2>3 DEF Stands, Doing, Op
  <2>5. QED
    BY <1>1, <2>2, <2>3, <2>4, MoveKeeps
<1>6. (Done(c) /\ Enter(c, "prior")) \/ End(c) \/ call' = [call EXCEPT ![c].at = "check", ![c].prior = FALSE]
  BY DEF Look
<1>7. QED
  BY <1>3, <1>4, <1>5, <1>6

LEMMA CheckKeeps ==
  ASSUME ProposalsInv, NEW c \in Call, Check(c)
  PROVE  ProposalsInv'
<1>1. SameTurns /\ SameWorld /\ SameSession /\ UNCHANGED <<life, rejected>> /\ call[c].at = "check"
  BY DEF Check, SameRest, At
<1>2. Enter(c, "stale") \/ Enter(c, "claim") \/ End(c)
  BY DEF Check
<1>3. \A place \in {"stale", "claim"} : Stands(place, Op(c), Me(c), FALSE) /\ place \in Places
  BY <1>1, WaitingStands DEF Waiting
<1>4. QED
  BY <1>1, <1>2, <1>3, EnterKeeps, EndKeeps

LEMMA ReadWorkflowKeeps ==
  ASSUME ProposalsInv, NEW c \in Call, ReadWorkflow(c)
  PROVE  ProposalsInv'
<1>1. SameTurns /\ SameWorld /\ SameSession /\ UNCHANGED <<life, rejected>> /\ call[c].at = "work"
      /\ Of(c).kind = "action"
  BY DEF ReadWorkflow, SameRest, At
<1>2. (Of(c).expects = version /\ To(c, "act")) \/ To(c, "release, stale")
  BY DEF ReadWorkflow
<1>3. Stands("release, stale", Op(c), Me(c), call[c].prior) /\ "release, stale" \in Places
  BY <1>1, WaitingStands DEF Waiting
<1>4. ASSUME Of(c).expects = version
      PROVE  Stands("act", Op(c), Me(c), call[c].prior) /\ "act" \in Places
  <2>1. Known(Op(c)) /\ Op(c) \in ApprovedOperation /\ KindOf(Op(c)) = "action"
    BY <1>1, KnownHere
  <2>2. Stands("work", Op(c), Me(c), call[c].prior)
    BY <1>1 DEF ProposalsInv, Placed
  <2>3. ~Effective(Op(c))
    <3>1. ASSUME NEW i \in DOMAIN effects, effects[i][1] = Op(c) PROVE Of(c).expects < version
      BY <2>1, <3>1 DEF ProposalsInv, Spent, Of
    <3>2. version \in Nat
      BY TurnFacts DEF ProposalsInv
    <3>3. QED
      BY <1>4, <3>1, <3>2 DEF Effective
  <2>4. QED
    BY <2>1, <2>2, <2>3 DEF Stands, Doing, Places
<1>5. QED
  BY <1>1, <1>2, <1>3, <1>4, ToKeeps

LEMMA FailsKeep ==
  ASSUME ProposalsInv, NEW c \in Call, WorkFails(c) \/ MarkFails(c)
  PROVE  ProposalsInv'
<1>1. SameTurns /\ SameWorld /\ SameSession /\ UNCHANGED <<life, rejected>> /\ call[c].at # "idle" /\ To(c, "release")
  BY DEF WorkFails, MarkFails, SameRest
<1>2. Stands("release", Op(c), Me(c), call[c].prior) /\ "release" \in Places
  BY <1>1, WaitingStands DEF Waiting
<1>3. QED
  BY <1>1, <1>2, ToKeeps

-------------------------------------------------------------------------------
(* The claims. *)
LEMMA ClaimsStandOn ==
  ASSUME UNCHANGED <<proposals, approved, rejected, outside, effects>>,
         NEW a, NEW o, NEW m, NEW b, Stands(a, o, m, b),
         (a \in Doing /\ <<o, m>> \in claims) => <<o, m>> \in claims'
  PROVE  Stands(a, o, m, b)'
<1>1. (Known(o)' <=> Known(o)) /\ KindOf(o)' = KindOf(o) /\ (Evident(o)' <=> Evident(o)) /\ (Effective(o)' <=> Effective(o))
  BY DEF Known, KindOf, Evident, Effective, outside, ApprovedOperation, Proposal
<1>2. QED
  BY <1>1 DEF Stands

(* The claims change; who works keeps what it has. *)
LEMMA ClaimsKeep ==
  ASSUME ProposalsInv, SameTurns, SameWorld, UNCHANGED <<proposals, approved, rejected>>,
         claims' \subseteq OperationClaim, OneOwner', CallsTyped', \A c \in Call : Placed(c)'
  PROVE  ProposalsInv'
<1>1. TurnInv'
  BY Zenon DEF ProposalsInv, SameTurns, SameWorld, TurnInv, RunnerKnows, ProposalIsPast, Proposal
<1>2. UNCHANGED <<logged, started, jobs, effects>> /\ UNCHANGED <<revision, version>>
  BY DEF SameWorld, outside
<1>3. OperationClaim' = OperationClaim /\ ApprovedOperation' = ApprovedOperation
  BY DEF OperationClaim, ApprovedOperation, Proposal
<1>4. LedgerTyped'
  BY <1>2, <1>3, Zenon DEF ProposalsInv, LedgerTyped, Proposal
<1>5. /\ EvidenceIsTrue' /\ Spent' /\ RejectedStays'
      /\ OneEffect' /\ AtItsRevision' /\ AppliedIsTrue'
  <2>1. EvidenceIsTrue'
    BY <1>2, <1>3, ZenonT(40) DEF ProposalsInv, EvidenceIsTrue, Evident, Effective, KindOf, Known, Proposal
  <2>2. Spent' /\ RejectedStays'
    BY <1>2, <1>3, ZenonT(40) DEF ProposalsInv, Spent, RejectedStays, KindOf, Known, Proposal
  <2>3. OneEffect' /\ AtItsRevision'
    BY <1>2, <1>3, ZenonT(40) DEF ProposalsInv, OneEffect, AtItsRevision, KindOf
  <2>4. AppliedIsTrue'
    BY <1>2, ZenonT(40) DEF ProposalsInv, AppliedIsTrue, Proposal
  <2>5. QED
    BY <2>1, <2>2, <2>3, <2>4
<1>6. QED
  BY <1>1, <1>4, <1>5 DEF ProposalsInv

LEMMA OthersStand ==
  ASSUME ProposalsInv, UNCHANGED <<proposals, approved, rejected, outside, effects>>,
         NEW d \in Call, call'[d] = call[d], life'[d] = life[d],
         (call[d].at \in Doing /\ <<Op(d), Me(d)>> \in claims) => <<Op(d), Me(d)>> \in claims'
  PROVE  Placed(d)'
<1> PICK a, o, m, b : a = call[d].at /\ o = Op(d) /\ m = Me(d) /\ b = call[d].prior
  OBVIOUS
<1>1. Stands(a, o, m, b)
  BY DEF ProposalsInv, Placed
<1>2. Stands(a, o, m, b)'
  BY <1>1, ClaimsStandOn
<1>3. a = call'[d].at /\ o = Op(d)' /\ m = Me(d)' /\ b = call'[d].prior
  BY DEF Op, Me
<1>4. QED
  BY <1>2, <1>3 DEF Placed

LEMMA OwnerIs ==
  ASSUME ProposalsInv, NEW o, NEW m, <<o, m>> \in claims
  PROVE  Holder(o) = {m} /\ o \in ApprovedOperation /\ Unclaimed(o) = claims \ {<<o, m>>}
<1>1. \A h, g \in claims : h[1] = g[1] => h = g
  BY DEF ProposalsInv, OneOwner
<1>2. \A h \in claims : h[1] = o => h = <<o, m>>
  BY <1>1
<1>3. Holder(o) = {m}
  BY <1>2 DEF Holder
<1>4. Unclaimed(o) = claims \ {<<o, m>>}
  BY <1>2 DEF Unclaimed
<1>5. o \in ApprovedOperation
  BY DEF ProposalsInv, LedgerTyped, OperationClaim
<1>6. QED
  BY <1>3, <1>4, <1>5

LEMMA MineIs ==
  ASSUME NEW c \in Call, NEW d \in Call, Me(c) = Me(d)
  PROVE  c = d
BY DEF Me

LEMMA ReleaseKeeps ==
  ASSUME ProposalsInv, NEW c \in Call, Release(c)
  PROVE  ProposalsInv'
<1>1. /\ SameTurns /\ SameWorld /\ UNCHANGED <<proposals, approved, rejected, life>>
      /\ call[c].at \in {"release", "release, stale"}
      /\ claims' = IF Mine(c) THEN Unclaimed(Op(c)) ELSE claims
  BY DEF Release, SameRest
<1>2. claims' \subseteq claims
  BY <1>1 DEF Unclaimed
<1>3. claims' \subseteq OperationClaim /\ OneOwner'
  BY <1>2 DEF ProposalsInv, LedgerTyped, OneOwner
<1>4. PICK x \in CallState : Moves(c, x) /\ x.at \in {"idle", "stale"} /\ (x.at = "stale" => x.op = Op(c))
  <2>1. End(c) \/ To(c, "stale")
    BY DEF Release
  <2>2. CallsTyped /\ "stale" \in Places
    BY DEF ProposalsInv, Places
  <2>3. CASE End(c)
    <3>1. Moves(c, Idle) /\ Idle \in CallState /\ Idle.at = "idle"
      BY <2>2, <2>3, EndMoves
    <3>2. QED
      BY <3>1
  <2>4. CASE To(c, "stale")
    <3>1. \E x \in CallState : /\ Moves(c, x) /\ x.at = "stale" /\ x.op = Op(c)
                              /\ x.seen = call[c].seen /\ x.prior = call[c].prior
      BY <2>2, <2>4, ToMoves
    <3>2. QED
      BY <3>1
  <2>5. QED
    BY <2>1, <2>3, <2>4
<1>5. CallsTyped' /\ call'[c] = x /\ \A d \in Call : d # c => call'[d] = call[d] /\ life'[d] = life[d]
  BY <1>1, <1>4, MovesTyped DEF ProposalsInv
<1>6. ASSUME NEW d \in Call, d # c PROVE Placed(d)'
  <2>1. ASSUME <<Op(d), Me(d)>> \in claims PROVE <<Op(d), Me(d)>> \in claims'
    <3>1. CASE ~Mine(c)
      BY <1>1, <2>1, <3>1
    <3>2. CASE Mine(c) /\ Op(d) = Op(c)
      <4>1. Holder(Op(d)) = {Me(d)}
        BY <2>1, OwnerIs
      <4>2. Me(d) = Me(c)
        BY <3>2, <4>1 DEF Mine
      <4>3. QED
        BY <1>6, <4>2, MineIs
    <3>3. CASE Mine(c) /\ Op(d) # Op(c)
      BY <1>1, <2>1, <3>3 DEF Unclaimed
    <3>4. QED
      BY <3>1, <3>2, <3>3
  <2>2. UNCHANGED <<outside, effects>>
    BY <1>1 DEF SameWorld
  <2>3. QED
    BY <1>1, <1>5, <1>6, <2>1, <2>2, OthersStand
<1>7. Placed(c)'
  <2>1. Known(Op(c))
    BY <1>1, KnownHere
  <2> PICK o : o = Op(c)
    OBVIOUS
  <2>2. Known(o)'
    BY <1>1, <2>1 DEF Known, KindOf, ApprovedOperation, Proposal
  <2>3. x.at = "stale" => Op(c)' = o
    BY <1>4, <1>5 DEF Op
  <2>4. CASE x.at = "idle"
    BY <1>5, <2>4, IdleStands
  <2>5. CASE x.at = "stale"
    BY <1>5, <2>2, <2>3, <2>5 DEF Placed, Stands, Doing
  <2>6. QED
    BY <1>4, <2>4, <2>5
<1>8. QED
  BY <1>1, <1>3, <1>5, <1>6, <1>7, ClaimsKeep

(* A claim is made where there is none, or none of the living. *)
LEMMA ClaimMade ==
  ASSUME ProposalsInv, NEW c \in Call, call[c].at = "claim", To(c, "work"),
         claims' = Unclaimed(Op(c)) \cup {<<Op(c), Me(c)>>},
         Of(c).status # "rejected", Op(c) \notin approved, ~ \E h \in Holder(Op(c)) : Alive(h),
         SameTurns, SameWorld, UNCHANGED <<proposals, approved, rejected, life>>
  PROVE  ProposalsInv'
<1>1. Known(Op(c)) /\ Op(c) \in ApprovedOperation
  BY KnownHere
<1>2. Me(c) \in Call \X (1 .. 2)
  BY DEF ProposalsInv, CallsTyped, Me
<1>3. claims' \subseteq OperationClaim /\ OneOwner'
  BY <1>1, <1>2 DEF ProposalsInv, LedgerTyped, OneOwner, Unclaimed, OperationClaim
<1>4. "work" \in Places
  BY DEF Places
<1>5. PICK x \in CallState : Moves(c, x) /\ x.at = "work" /\ x.op = Op(c) /\ x.prior = call[c].prior
  BY <1>4, ToMoves DEF ProposalsInv
<1>6. CallsTyped' /\ call'[c] = x /\ \A d \in Call : d # c => call'[d] = call[d] /\ life'[d] = life[d]
  BY <1>5, MovesTyped DEF ProposalsInv
<1>7. UNCHANGED <<outside, effects>>
  BY DEF SameWorld
<1>8. ASSUME NEW d \in Call, d # c PROVE Placed(d)'
  <2>1. ASSUME <<Op(d), Me(d)>> \in claims PROVE <<Op(d), Me(d)>> \in claims'
    <3>1. CASE Op(d) = Op(c)
      <4>1. Me(d) \in Holder(Op(c))
        BY <2>1, <3>1 DEF Holder
      <4>2. QED
        BY <4>1 DEF Alive
    <3>2. CASE Op(d) # Op(c)
      BY <2>1, <3>2 DEF Unclaimed
    <3>3. QED
      BY <3>1, <3>2
  <2>2. QED
    BY <1>6, <1>7, <1>8, <2>1, OthersStand
<1>9. Placed(c)'
  <2> PICK o, m, b : o = Op(c) /\ m = Me(c) /\ b = call[c].prior
    OBVIOUS
  <2>1. Known(o)' /\ o \notin approved' /\ <<o, m>> \in claims'
    BY <1>1 DEF Known, KindOf, ApprovedOperation, Proposal
  <2>2. o[1] \notin rejected'
    BY DEF ProposalsInv, RejectedStays, Of
  <2>3. Stands("work", o, m, b)'
    BY <2>1, <2>2 DEF Stands, Doing
  <2>4. call'[c].at = "work" /\ Op(c)' = o /\ Me(c)' = m /\ call'[c].prior = b
    BY <1>5, <1>6 DEF Op, Me
  <2>5. QED
    BY <2>3, <2>4 DEF Placed
<1>10. QED
  BY <1>3, <1>6, <1>8, <1>9, ClaimsKeep

LEMMA ClaimKeeps ==
  ASSUME ProposalsInv, NEW c \in Call, Claim(c)
  PROVE  ProposalsInv'
<1>1. /\ call[c].at = "claim" /\ SameTurns /\ SameWorld /\ UNCHANGED <<proposals, approved, rejected, life>>
  BY DEF Claim, SameRest, At
<1>2. \/ (End(c) \/ To(c, "wait")) /\ UNCHANGED claims
      \/ /\ Of(c).status # "rejected" /\ Op(c) \notin approved /\ ~ \E h \in Holder(Op(c)) : Alive(h)
         /\ To(c, "work") /\ claims' = Unclaimed(Op(c)) \cup {<<Op(c), Me(c)>>}
  BY DEF Claim
<1>3. CASE (End(c) \/ To(c, "wait")) /\ UNCHANGED claims
  <2>1. SameSession
    BY <1>1, <1>3 DEF SameSession, ledger
  <2>2. Stands("wait", Op(c), Me(c), call[c].prior) /\ "wait" \in Places
    BY <1>1, WaitingStands DEF Waiting
  <2>3. QED
    BY <1>1, <1>3, <2>1, <2>2, EndKeeps, ToKeeps
<1>4. QED
  BY <1>1, <1>2, <1>3, ClaimMade

LEMMA WaitKeeps ==
  ASSUME ProposalsInv, NEW c \in Call, Wait(c)
  PROVE  ProposalsInv'
<1>1. /\ call[c].at = "wait" /\ SameTurns /\ SameWorld /\ UNCHANGED <<proposals, approved, rejected, life>>
  BY DEF Wait, SameRest, At
<1>2. \/ (End(c) \/ To(c, "claim")) /\ UNCHANGED claims
      \/ ~(\A h \in Holder(Op(c)) : Alive(h)) /\ claims' = Unclaimed(Op(c)) /\ UNCHANGED call
  BY DEF Wait
<1>3. CASE (End(c) \/ To(c, "claim")) /\ UNCHANGED claims
  <2>1. SameSession
    BY <1>1, <1>3 DEF SameSession, ledger
  <2>2. Stands("claim", Op(c), Me(c), call[c].prior) /\ "claim" \in Places
    BY <1>1, WaitingStands DEF Waiting
  <2>3. QED
    BY <1>1, <1>3, <2>1, <2>2, EndKeeps, ToKeeps
<1>4. CASE ~(\A h \in Holder(Op(c)) : Alive(h)) /\ claims' = Unclaimed(Op(c)) /\ UNCHANGED call
  <2>1. claims' \subseteq claims
    BY <1>4 DEF Unclaimed
  <2>2. claims' \subseteq OperationClaim /\ OneOwner' /\ CallsTyped'
    BY <1>1, <1>4, <2>1 DEF ProposalsInv, LedgerTyped, OneOwner, CallsTyped
  <2>3. UNCHANGED <<outside, effects>>
    BY <1>1 DEF SameWorld
  <2>4. ASSUME NEW d \in Call PROVE Placed(d)'
    <3>1. ASSUME <<Op(d), Me(d)>> \in claims PROVE <<Op(d), Me(d)>> \in claims'
      <4>1. CASE Op(d) = Op(c)
        <5>1. Holder(Op(c)) = {Me(d)}
          BY <3>1, <4>1, OwnerIs
        <5>2. QED
          BY <1>4, <5>1 DEF Alive
      <4>2. CASE Op(d) # Op(c)
        BY <1>4, <3>1, <4>2 DEF Unclaimed
      <4>3. QED
        BY <4>1, <4>2
    <3>2. QED
      BY <1>1, <1>4, <2>3, <3>1, OthersStand
  <2>5. QED
    BY <1>1, <2>2, <2>4, ClaimsKeep
<1>5. QED
  BY <1>2, <1>3, <1>4

-------------------------------------------------------------------------------
(* An operation is marked. *)
LEMMA Marks ==
  ASSUME ProposalsInv, NEW c \in Call, call[c].at \in {"mark", "prior"},
         Of(c).status # "rejected", call[c].at = "prior" \/ Mine(c) \/ Op(c) \in approved,
         proposals' = Marked(Op(c)[1], "applied"), approved' = approved \cup {Op(c)},
         claims' = Unclaimed(Op(c)), End(c),
         SameTurns, SameWorld, UNCHANGED <<life, rejected>>
  PROVE  ProposalsInv'
<1> PICK o : o = Op(c)
  OBVIOUS
<1>1. /\ Known(o) /\ o \in ApprovedOperation /\ o[1] \in Proposal /\ Effective(o)
      /\ KindOf(o) \in {"plan", "edit", "create", "action", "job"}
      /\ (call[c].at = "prior" /\ KindOf(o) \in {"create", "action"} => o \in approved)
  <2>1. call[c].at # "idle"
    OBVIOUS
  <2>2. Stands(call[c].at, o, Me(c), call[c].prior)
    BY DEF ProposalsInv, Placed
  <2>3. QED
    BY <2>1, <2>2, KnownHere DEF Stands
<1>2. /\ Proposal = 1 .. Len(proposals) /\ Len(proposals) \in 0 .. MaxProposals /\ MaxProposals \in Nat
      /\ \A q \in Proposal : proposals[q] \in ProposalRecord
      /\ proposals \in [1 .. Len(proposals) -> ProposalRecord]
  BY TurnFacts DEF ProposalsInv
<1> DEFINE p == o[1]
           y == [proposals[p] EXCEPT !.status = "applied"]
<1>3. /\ y \in ProposalRecord /\ y.kind = proposals[p].kind /\ y.base = proposals[p].base
      /\ y.expects = proposals[p].expects /\ y.status = "applied"
  <2>1. proposals[p] \in ProposalRecord
    BY <1>1, <1>2
  <2>2. QED
    BY <2>1 DEF ProposalRecord
<1>4. proposals' = [proposals EXCEPT ![p] = y]
  BY DEF Marked
<1> HIDE DEF y
<1>5. /\ proposals' \in [1 .. Len(proposals) -> ProposalRecord] /\ proposals'[p] = y
      /\ \A q \in Proposal : q # p => proposals'[q] = proposals[q]
  BY <1>1, <1>2, <1>3, <1>4
<1>6. proposals' \in Seq(ProposalRecord) /\ Len(proposals') = Len(proposals) /\ Proposal' = Proposal
  BY <1>2, <1>5 DEF Proposal
<1>7. \A q \in Proposal : /\ proposals'[q].kind = proposals[q].kind /\ proposals'[q].base = proposals[q].base
                          /\ proposals'[q].expects = proposals[q].expects
                          /\ q # p => proposals'[q].status = proposals[q].status
  BY <1>3, <1>5
<1> HIDE DEF p
<1>8. UNCHANGED <<revision, edits, version, session, turns, run>> /\ UNCHANGED <<outside, effects>>
      /\ UNCHANGED <<logged, started, jobs>>
  BY DEF SameTurns, SameWorld, outside
<1>9. TurnInv'
  <2>1. \A q \in Proposal' : ProposalIsPast(proposals[q])'
    BY <1>6, <1>7, <1>8 DEF ProposalsInv, TurnInv, ProposalIsPast
  <2>2. \A t \in Turn : RunnerKnows(run[t], Len(proposals))'
    BY <1>6, <1>8 DEF ProposalsInv, TurnInv, RunnerKnows
  <2>3. QED
    BY <1>2, <1>6, <1>8, <2>1, <2>2 DEF ProposalsInv, TurnInv
<1>10. KindsCarry /\ TurnInv /\ LedgerTyped /\ EvidenceIsTrue
  BY <1>6, <1>7 DEF KindsCarry, ProposalsInv
<1>11. \A q \in ApprovedOperation : Carries(q)
  BY <1>8, <1>10, OperationsCarry
<1>12. ApprovedOperation' = ApprovedOperation /\ OperationClaim' = OperationClaim
  BY <1>6 DEF ApprovedOperation, OperationClaim
<1>13. claims' \subseteq claims
  BY DEF Unclaimed
<1>14. LedgerTyped' /\ OneOwner'
  BY <1>1, <1>6, <1>8, <1>10, <1>12, <1>13 DEF LedgerTyped, OneOwner, ProposalsInv
<1>15. EvidenceIsTrue'
  BY <1>10, <1>11, <1>12 DEF EvidenceIsTrue, Carries
<1>16. \A i \in DOMAIN effects : effects[i][1] \in ApprovedOperation /\ effects[i][1][1] \in Proposal
  BY <1>10, EffectTyped
<1>17. Spent'
  <2> SUFFICES ASSUME NEW i \in DOMAIN effects
               PROVE  /\ Known(effects[i][1])'
                      /\ KindOf(effects[i][1])' \in {"plan", "edit"} => proposals'[effects[i][1][1]].base < revision'
                      /\ KindOf(effects[i][1])' = "action" => proposals'[effects[i][1][1]].expects < version'
    BY <1>8 DEF Spent
  <2> PICK q : q = effects[i][1]
    OBVIOUS
  <2>1. Known(q) /\ Carries(q) /\ q[1] \in Proposal
    BY <1>11, <1>16 DEF ProposalsInv, Spent
  <2>2. /\ KindOf(q) \in {"plan", "edit"} => proposals[q[1]].base < revision
        /\ KindOf(q) = "action" => proposals[q[1]].expects < version
    BY DEF ProposalsInv, Spent
  <2>3. Known(q)' /\ KindOf(q)' = KindOf(q) /\ q = effects'[i][1]
    BY <1>8, <2>1 DEF Carries
  <2>4. /\ KindOf(q)' \in {"plan", "edit"} => proposals'[q[1]].base < revision'
        /\ KindOf(q)' = "action" => proposals'[q[1]].expects < version'
    BY <1>7, <1>8, <2>1, <2>2, <2>3
  <2>5. QED
    BY <1>8, <2>3, <2>4
<1>18. RejectedStays'
  <2>1. p \notin rejected
    BY DEF ProposalsInv, RejectedStays, Of, p
  <2>2. QED
    BY <1>7, <1>10, <2>1 DEF ProposalsInv, RejectedStays, LedgerTyped
<1>19. OneEffect' /\ AtItsRevision'
  BY <1>7, <1>8, <1>16 DEF ProposalsInv, OneEffect, AtItsRevision
<1>20. AppliedIsTrue'
  <2>1. ASSUME NEW q \in Proposal, proposals'[q].status = "applied" PROVE \E r \in approved' : r[1] = q
    <3>1. CASE q = p
      BY <3>1 DEF p
    <3>2. CASE q # p
      BY <1>7, <2>1, <3>2 DEF ProposalsInv, AppliedIsTrue
    <3>3. QED
      BY <3>1, <3>2
  <2>2. \A r \in approved' : \E i \in DOMAIN effects : effects[i][1] = r
    BY <1>1 DEF ProposalsInv, AppliedIsTrue, Effective
  <2>3. QED
    BY <1>6, <1>8, <2>1, <2>2 DEF AppliedIsTrue
<1>21. CallsTyped' /\ call'[c] = Idle /\ Idle.at = "idle"
       /\ \A d \in Call : d # c => call'[d] = call[d] /\ life'[d] = life[d]
  BY EndMoves, MovesTyped DEF ProposalsInv
<1>22. ASSUME NEW d \in Call, d # c PROVE Placed(d)'
  <2> PICK a, q, m, b : a = call[d].at /\ q = Op(d) /\ m = Me(d) /\ b = call[d].prior
    OBVIOUS
  <2>1. Stands(a, q, m, b)
    BY DEF ProposalsInv, Placed
  <2>2. ASSUME a # "idle" PROVE Carries(q) /\ Known(q) /\ q \in ApprovedOperation
    BY <1>11, <2>1, <2>2 DEF Stands, Known
  <2>3. ASSUME a \in Doing, q = o
        PROVE  KindOf(o) \in {"plan", "edit", "job"} /\ Evident(o)
    <3>1. CASE KindOf(o) \in {"plan", "edit", "job"}
      BY <1>1, <1>10, <3>1 DEF EvidenceIsTrue
    <3>2. CASE KindOf(o) \in {"create", "action"}
      <4>1. <<o, m>> \in claims /\ o \notin approved
        BY <2>1, <2>3, <3>2 DEF Stands
      <4>2. Mine(c)
        BY <1>1, <3>2, <4>1
      <4>3. Me(d) = Me(c)
        BY <4>1, <4>2, OwnerIs DEF Mine
      <4>4. QED
        BY <1>22, <4>3, MineIs
    <3>3. QED
      BY <1>1, <3>1, <3>2
  <2>4. ASSUME q # o, <<q, m>> \in claims PROVE <<q, m>> \in claims'
    BY <2>4 DEF Unclaimed
  <2>5. Stands(a, q, m, b)'
    <3>1. CASE a = "idle"
      BY <3>1 DEF Stands, Doing
    <3>2. CASE a # "idle" /\ q = o
      BY <2>1, <2>2, <2>3, <3>2 DEF Stands, Carries
    <3>3. CASE a # "idle" /\ q # o
      BY <2>1, <2>2, <2>4, <3>3 DEF Stands, Carries
    <3>4. QED
      BY <3>1, <3>2, <3>3
  <2>6. a = call'[d].at /\ q = Op(d)' /\ m = Me(d)' /\ b = call'[d].prior
    BY <1>21, <1>22 DEF Op, Me
  <2>7. QED
    BY <2>5, <2>6 DEF Placed
<1>23. Placed(c)'
  BY <1>21, IdleStands
<1>24. QED
  BY <1>9, <1>14, <1>15, <1>17, <1>18, <1>19, <1>20, <1>21, <1>22, <1>23 DEF ProposalsInv

LEMMA MarkKeeps ==
  ASSUME ProposalsInv, NEW c \in Call, Mark(c)
  PROVE  ProposalsInv'
<1>1. /\ call[c].at \in {"mark", "prior"} /\ call[c].at # "idle"
      /\ SameTurns /\ SameWorld /\ UNCHANGED <<life, rejected>>
  BY DEF Mark, SameRest
<1>2. CASE Of(c).status = "rejected" \/ (At(c, "mark") /\ ~Mine(c) /\ Op(c) \notin approved)
  <2>1. To(c, "release") /\ SameSession
    BY <1>2 DEF Mark
  <2>2. Stands("release", Op(c), Me(c), call[c].prior) /\ "release" \in Places
    BY <1>1, WaitingStands DEF Waiting
  <2>3. QED
    BY <1>1, <2>1, <2>2, ToKeeps
<1>3. CASE ~(Of(c).status = "rejected" \/ (At(c, "mark") /\ ~Mine(c) /\ Op(c) \notin approved))
  BY <1>1, <1>3, Marks DEF Mark, At
<1>4. QED
  BY <1>2, <1>3

-------------------------------------------------------------------------------
(* What is done outside the session. *)
FilesStay    == UNCHANGED <<session, turns, run, proposals>> /\ UNCHANGED <<ledger, rejected>>
SessionStays == FilesStay /\ UNCHANGED life

LEMMA WorldKeeps ==
  ASSUME ProposalsInv, FilesStay, TimeGoesOn, LedgerTyped', EvidenceIsTrue', Spent', OneEffect', AtItsRevision',
         \A q : Effective(q) => Effective(q)', CallsTyped', \A d \in Call : Placed(d)'
  PROVE  ProposalsInv'
<1>1. TurnInv
  BY DEF ProposalsInv
<1>2. UNCHANGED <<session, turns, run, proposals, claims, approved, rejected>>
  BY DEF FilesStay, ledger
<1>3. ProposalsCarry /\ TurnsCarry
  BY <1>1, <1>2, NothingCarries
<1>4. TurnInv'
  BY <1>1, <1>2, <1>3, RunnerStays DEF TurnInv
<1>5. OneOwner' /\ RejectedStays'
  BY <1>2 DEF ProposalsInv, OneOwner, RejectedStays
<1>6. AppliedIsTrue'
  <2>1. \A q \in approved : Effective(q)'
    BY DEF ProposalsInv, AppliedIsTrue, Effective
  <2>2. \A p \in Proposal : proposals[p].status = "applied" => \E o \in approved : o[1] = p
    BY DEF ProposalsInv, AppliedIsTrue
  <2>3. QED
    BY <1>2, <2>1, <2>2 DEF AppliedIsTrue, Effective, Proposal
<1>7. QED
  BY <1>4, <1>5, <1>6 DEF ProposalsInv

LEMMA OthersWorkOn ==
  ASSUME ProposalsInv, FilesStay, NEW S,
         \A q : (Effective(q) => Effective(q)') /\ (Evident(q) => Evident(q)') /\ (Effective(q)' => Effective(q) \/ q \in S),
         NEW d \in Call, call'[d] = call[d], life'[d] = life[d], call[d].at = "act" => Op(d) \notin S
  PROVE  Placed(d)'
<1> PICK a, q, m, b : a = call[d].at /\ q = Op(d) /\ m = Me(d) /\ b = call[d].prior
  OBVIOUS
<1>1. Stands(a, q, m, b)
  BY DEF ProposalsInv, Placed
<1>2. UNCHANGED <<proposals, claims, approved, rejected>>
  BY DEF FilesStay, ledger
<1>3. (Known(q)' <=> Known(q)) /\ KindOf(q)' = KindOf(q)
  BY <1>2 DEF Known, KindOf, ApprovedOperation, Proposal
<1>4. a = "act" => ~Effective(q)'
  BY <1>1 DEF Stands
<1>5. (Effective(q) => Effective(q)') /\ (Evident(q) => Evident(q)')
  OBVIOUS
<1>6. Stands(a, q, m, b)'
  BY <1>1, <1>2, <1>3, <1>4, <1>5 DEF Stands
<1>7. a = call'[d].at /\ q = Op(d)' /\ m = Me(d)' /\ b = call'[d].prior
  BY DEF Op, Me
<1>8. QED
  BY <1>6, <1>7 DEF Placed

LEMMA OthersActElsewhere ==
  ASSUME ProposalsInv, NEW c \in Call, call[c].at \in Doing, NEW d \in Call, d # c, call[d].at = "act"
  PROVE  Op(d) # Op(c)
<1> SUFFICES ASSUME Op(d) = Op(c) PROVE FALSE
  OBVIOUS
<1>1. KindOf(Op(d)) = "action" /\ <<Op(d), Me(d)>> \in claims
  BY DEF ProposalsInv, Placed, Stands, Doing
<1>2. <<Op(c), Me(c)>> \in claims
  BY <1>1 DEF ProposalsInv, Placed, Stands
<1>3. Me(c) = Me(d)
  BY <1>1, <1>2, OwnerIs
<1>4. QED
  BY <1>3, MineIs

LEMMA NotYet ==
  ASSUME ProposalsInv, NEW o, Known(o),
         \/ KindOf(o) \in {"plan", "edit"} /\ proposals[o[1]].base = revision
         \/ KindOf(o) # "plan" /\ ~Effective(o)
  PROVE  \A i \in DOMAIN effects : effects[i][1][1] # o[1]
<1> SUFFICES ASSUME NEW i \in DOMAIN effects, effects[i][1][1] = o[1] PROVE FALSE
  OBVIOUS
<1>1. Known(effects[i][1]) /\ KindOf(effects[i][1]) = KindOf(o)
  BY DEF ProposalsInv, Spent, KindOf
<1>2. CASE KindOf(o) \in {"plan", "edit"} /\ proposals[o[1]].base = revision
  <2>1. proposals[o[1]].base < revision /\ revision \in Nat
    BY <1>1, <1>2, TurnFacts DEF ProposalsInv, Spent
  <2>2. QED
    BY <1>2, <2>1
<1>3. CASE KindOf(o) # "plan" /\ ~Effective(o)
  <2>1. effects[i][1][2] = Whole /\ o[2] = Whole
    BY <1>1, <1>3 DEF Known
  <2>2. effects[i][1] = <<effects[i][1][1], effects[i][1][2]>> /\ o = <<o[1], o[2]>>
    BY <1>1 DEF Known, ApprovedOperation
  <2>3. effects[i][1] = o
    BY <2>1, <2>2
  <2>4. QED
    BY <1>3, <2>3 DEF Effective
<1>4. QED
  BY <1>2, <1>3

LEMMA EffectIs ==
  ASSUME ProposalsInv, NEW o, Known(o), \A i \in DOMAIN effects : effects[i][1][1] # o[1],
         effects' = Append(effects, <<o, revision>>), UNCHANGED proposals, TimeGoesOn,
         KindOf(o) \in {"plan", "edit"} => proposals[o[1]].base < revision',
         KindOf(o) = "action" => proposals[o[1]].expects < version',
         KindOf(o) \in {"plan", "edit", "create"} => proposals[o[1]].base = revision
  PROVE  /\ Spent' /\ OneEffect' /\ AtItsRevision'
         /\ \A q : Effective(q)' <=> (Effective(q) \/ q = o)
         /\ effects' \in Seq(ApprovedOperation \X Nat)
<1> DEFINE n == Len(effects) + 1
           e == <<o, revision>>
<1>1. effects \in Seq(ApprovedOperation \X Nat) /\ Len(effects) \in Nat /\ revision \in Nat /\ version \in Nat
  BY TurnFacts DEF ProposalsInv, LedgerTyped
<1>2. o \in ApprovedOperation /\ e \in ApprovedOperation \X Nat /\ e[1] = o /\ e[2] = revision
  BY <1>1 DEF Known
<1> HIDE DEF e
<1>3. /\ effects' \in Seq(ApprovedOperation \X Nat) /\ Len(effects') = n /\ effects'[n] = e
      /\ DOMAIN effects' = DOMAIN effects \cup {n} /\ n \notin DOMAIN effects
      /\ \A i \in DOMAIN effects : effects'[i] = effects[i]
  <2>1. effects' = Append(effects, e)
    BY DEF e
  <2>2. QED
    BY <1>1, <1>2, <2>1
<1> HIDE DEF n
<1>4. \A q : Effective(q)' <=> (Effective(q) \/ q = o)
  BY <1>2, <1>3 DEF Effective
<1>5. \A q : (Known(q)' <=> Known(q)) /\ KindOf(q)' = KindOf(q)
  BY DEF Known, KindOf, ApprovedOperation, Proposal
<1>6. OneEffect'
  BY <1>2, <1>3 DEF ProposalsInv, OneEffect
<1>7. AtItsRevision'
  <2>1. ASSUME NEW i \in DOMAIN effects'
        PROVE  proposals[effects'[i][1][1]].kind \in {"plan", "edit", "create"}
               => effects'[i][2] = proposals[effects'[i][1][1]].base
    <3>1. CASE i = n
      BY <1>2, <1>3, <3>1 DEF KindOf
    <3>2. CASE i \in DOMAIN effects
      BY <1>3, <3>2 DEF ProposalsInv, AtItsRevision
    <3>3. QED
      BY <1>3, <3>1, <3>2
  <2>2. QED
    BY <2>1 DEF AtItsRevision
<1>8. Spent'
  <2>1. ASSUME NEW i \in DOMAIN effects'
        PROVE  /\ Known(effects'[i][1])
               /\ KindOf(effects'[i][1]) \in {"plan", "edit"} => proposals[effects'[i][1][1]].base < revision'
               /\ KindOf(effects'[i][1]) = "action" => proposals[effects'[i][1][1]].expects < version'
    <3>1. CASE i = n
      BY <1>2, <1>3, <3>1
    <3>2. CASE i \in DOMAIN effects
      <4>1. effects'[i] = effects[i]
        BY <1>3, <3>2
      <4>2. proposals[effects[i][1][1]].base \in Nat /\ proposals[effects[i][1][1]].expects \in Nat
        BY <3>2, EffectTyped, TurnFacts DEF ProposalsInv
      <4>3. /\ Known(effects[i][1])
            /\ KindOf(effects[i][1]) \in {"plan", "edit"} => proposals[effects[i][1][1]].base < revision
            /\ KindOf(effects[i][1]) = "action" => proposals[effects[i][1][1]].expects < version
        BY <3>2 DEF ProposalsInv, Spent
      <4>4. Known(effects'[i][1])
        BY <4>1, <4>3
      <4>5. revision \in Nat /\ version \in Nat /\ revision <= revision' /\ version <= version'
        BY <1>1, TurnFacts DEF TimeGoesOn
      <4> PICK k, b, x : /\ k = KindOf(effects[i][1])
                         /\ b = proposals[effects[i][1][1]].base /\ x = proposals[effects[i][1][1]].expects
        OBVIOUS
      <4> DEFINE now == revision' then == version'
      <4>6. /\ now \in Nat /\ then \in Nat /\ revision <= now /\ version <= then
            /\ b \in Nat /\ x \in Nat
            /\ (k \in {"plan", "edit"} => b < revision) /\ (k = "action" => x < version)
        BY <1>1, <4>2, <4>3, <4>5 DEF TimeGoesOn
      <4>7. (k \in {"plan", "edit"} => b < now) /\ (k = "action" => x < then)
        <5> HIDE DEF now, then
        <5> QED
          BY <4>5, <4>6, SMTT(30)
      <4>8. /\ KindOf(effects'[i][1]) = k
            /\ proposals[effects'[i][1][1]].base = b /\ proposals[effects'[i][1][1]].expects = x
        BY <4>1 DEF KindOf
      <4>9. QED
        BY <4>4, <4>7, <4>8
    <3>3. QED
      BY <1>3, <3>1, <3>2
  <2>2. QED
    BY <1>5, <2>1 DEF Spent
<1>9. QED
  BY <1>3, <1>4, <1>6, <1>7, <1>8

(* The evidence that a step leaves of the operation o, and of no other. *)
OutsideTyped ==
  /\ logged' \subseteq ApprovedOperation
  /\ started' \subseteq ApprovedOperation \X {"pending", "started"}
  /\ jobs' \subseteq ApprovedOperation \X {"half", "queued"}

OutsideGrows(o) ==
  /\ logged \subseteq logged' /\ started \subseteq started' /\ jobs \subseteq jobs'
  /\ \A q : q # o => /\ q \in logged' => q \in logged
                     /\ \A s : (<<q, s>> \in started' => <<q, s>> \in started) /\ (<<q, s>> \in jobs' => <<q, s>> \in jobs)

LeavesEvidence(o) ==
  \/ KindOf(o) \in {"plan", "edit"} /\ o \in logged'
  \/ KindOf(o) = "job" /\ <<o, "queued">> \in jobs'
  \/ KindOf(o) = "create" /\ \E s \in {"pending", "started"} : <<o, s>> \in started'
  \/ KindOf(o) = "action"

DonePlaces == {"mark", "release", "start"}

LEMMA EffectKeeps ==
  ASSUME ProposalsInv, NEW c \in Call, call[c].at \in Doing, SessionStays, TimeGoesOn,
         Happens(c), \A i \in DOMAIN effects : effects[i][1][1] # Op(c)[1],
         KindOf(Op(c)) \in {"plan", "edit"} => Of(c).base < revision',
         KindOf(Op(c)) = "action" => Of(c).expects < version',
         KindOf(Op(c)) \in {"plan", "edit", "create"} => Of(c).base = revision,
         OutsideTyped, OutsideGrows(Op(c)), LeavesEvidence(Op(c)),
         NEW place \in DonePlaces, To(c, place), place = "start" => KindOf(Op(c)) = "create"
  PROVE  ProposalsInv'
<1> PICK o, m, b : o = Op(c) /\ m = Me(c) /\ b = call[c].prior
  OBVIOUS
<1>1. Known(o) /\ o \in ApprovedOperation
  BY KnownHere DEF Doing
<1>2. UNCHANGED <<session, turns, run, proposals, claims, approved, rejected, life>>
  BY DEF SessionStays, FilesStay, ledger
<1>3. /\ Spent' /\ OneEffect' /\ AtItsRevision'
      /\ \A q : Effective(q)' <=> (Effective(q) \/ q = o)
      /\ effects' \in Seq(ApprovedOperation \X Nat)
  BY <1>1, <1>2, EffectIs DEF Happens, Of
<1>4. \A q : KindOf(q)' = KindOf(q) /\ (Known(q)' <=> Known(q))
  BY <1>2 DEF KindOf, Known, ApprovedOperation, Proposal
<1>5. ApprovedOperation' = ApprovedOperation /\ OperationClaim' = OperationClaim /\ Proposal' = Proposal
  BY <1>2 DEF ApprovedOperation, OperationClaim, Proposal
<1>6. LedgerTyped'
  BY <1>2, <1>3, <1>5 DEF ProposalsInv, LedgerTyped, OutsideTyped
<1>7. Evident(o)'
  <2>1. Effective(o)'
    BY <1>3
  <2>2. QED
    BY <1>4, <2>1, Zenon DEF LeavesEvidence, Evident
<1>8. \A q : q # o => (Evident(q)' <=> Evident(q))
  <2> SUFFICES ASSUME NEW q, q # o PROVE Evident(q)' <=> Evident(q)
    OBVIOUS
  <2>1. /\ q \in logged' <=> q \in logged
        /\ \A s : (<<q, s>> \in started' <=> <<q, s>> \in started) /\ (<<q, s>> \in jobs' <=> <<q, s>> \in jobs)
    BY DEF OutsideGrows
  <2>2. (Effective(q)' <=> Effective(q)) /\ KindOf(q)' = KindOf(q)
    BY <1>3, <1>4
  <2>3. QED
    BY <2>1, <2>2, Zenon DEF Evident
<1>9. EvidenceIsTrue'
  BY <1>3, <1>5, <1>7, <1>8 DEF ProposalsInv, EvidenceIsTrue
<1>10. \A q : Evident(q) => Evident(q)'
  BY <1>7, <1>8
<1>11. PICK x \in CallState : Moves(c, x) /\ x.at = place /\ x.op = o /\ x.prior = b
  <2>1. CallsTyped /\ place \in Places
    BY DEF ProposalsInv, DonePlaces, Places
  <2>2. \E x \in CallState : /\ Moves(c, x) /\ x.at = place /\ x.op = Op(c)
                            /\ x.seen = call[c].seen /\ x.prior = call[c].prior
    BY <2>1, ToMoves
  <2>3. QED
    BY <2>2
<1>12. CallsTyped' /\ call'[c] = x /\ \A d \in Call : d # c => call'[d] = call[d]
  BY <1>2, <1>11, MovesTyped DEF ProposalsInv
<1>13. ASSUME NEW d \in Call, d # c PROVE Placed(d)'
  <2> DEFINE S == {o}
  <2>1. call[d].at = "act" => Op(d) \notin S
    BY <1>13, OthersActElsewhere
  <2>2. \A q : (Effective(q) => Effective(q)') /\ (Evident(q) => Evident(q)') /\ (Effective(q)' => Effective(q) \/ q \in S)
    BY <1>3, <1>10
  <2> HIDE DEF S
  <2>3. QED
    BY <1>2, <1>12, <1>13, <2>1, <2>2, OthersWorkOn DEF SessionStays
<1>14. Placed(c)'
  <2>1. place = "start" => KindOf(o) = "create" /\ <<o, m>> \in claims /\ o \notin approved
    BY DEF ProposalsInv, Placed, Stands
  <2>2. Stands(place, o, m, b)'
    BY <1>1, <1>2, <1>3, <1>4, <1>7, <2>1 DEF Stands, Doing, DonePlaces
  <2>3. call'[c].at = place /\ Op(c)' = o /\ Me(c)' = m /\ call'[c].prior = b
    BY <1>2, <1>11, <1>12 DEF Op, Me
  <2>4. QED
    BY <2>2, <2>3 DEF Placed
<1>15. QED
  BY <1>3, <1>6, <1>9, <1>12, <1>13, <1>14, WorldKeeps DEF SessionStays

LEMMA AtWork ==
  ASSUME ProposalsInv, NEW c \in Call, call[c].at \in Doing, SameTurns, SameSession, SameRest
  PROVE  /\ SessionStays /\ Known(Op(c)) /\ Op(c) \in ApprovedOperation /\ Of(c).kind = KindOf(Op(c))
         /\ KindOf(Op(c)) \in {"plan", "edit", "create", "action", "job"}
         /\ revision \in Nat /\ version \in Nat
         /\ Stands(call[c].at, Op(c), Me(c), call[c].prior)
         /\ Evident(Op(c)) <=> Effective(Op(c))
         /\ Of(c).expects <= version /\ Of(c).expects \in Nat /\ Of(c).base \in Nat
         /\ logged \subseteq ApprovedOperation /\ started \subseteq ApprovedOperation \X {"pending", "started"}
         /\ jobs \subseteq ApprovedOperation \X {"half", "queued"}
<1>1. call[c].at # "idle"
  BY DEF Doing
<1>2. SessionStays
  BY DEF SessionStays, FilesStay, SameTurns, SameSession, SameRest
<1>3. /\ Known(Op(c)) /\ Op(c) \in ApprovedOperation /\ Of(c).kind = KindOf(Op(c)) /\ Op(c)[1] \in Proposal
      /\ KindOf(Op(c)) \in {"plan", "edit", "create", "action", "job"}
  BY <1>1, KnownHere
<1>4. Evident(Op(c)) <=> Effective(Op(c))
  BY <1>3, EffectiveIs
<1>5. revision \in Nat /\ version \in Nat /\ Of(c).expects <= version /\ Of(c).expects \in Nat /\ Of(c).base \in Nat
  BY <1>3, TurnFacts DEF ProposalsInv, Of, ProposalIsPast
<1>6. QED
  BY <1>2, <1>3, <1>4, <1>5 DEF ProposalsInv, Placed, LedgerTyped

(* A step at work that changes nothing goes on to mark or to release. *)
LEMMA NothingDone ==
  ASSUME ProposalsInv, NEW c \in Call, call[c].at \in Doing, SameTurns, SameWorld, SameSession, SameRest,
         \/ To(c, "release") \/ To(c, "release, stale")
         \/ To(c, "mark") /\ Effective(Op(c))
  PROVE  ProposalsInv'
<1>1. Known(Op(c)) /\ UNCHANGED <<life, rejected>> /\ call[c].at # "idle"
  BY AtWork DEF SameRest, Doing
<1>2. \A place \in {"release", "release, stale"} : Stands(place, Op(c), Me(c), call[c].prior) /\ place \in Places
  BY <1>1, WaitingStands DEF Waiting
<1>3. Effective(Op(c)) => Stands("mark", Op(c), Me(c), call[c].prior) /\ "mark" \in Places
  BY <1>1 DEF Stands, Doing, Places
<1>4. QED
  BY <1>1, <1>2, <1>3, ToKeeps

LEMMA TransactKeeps ==
  ASSUME ProposalsInv, NEW c \in Call, Transact(c)
  PROVE  ProposalsInv'
<1>1. /\ call[c].at \in Doing /\ SameTurns /\ SameSession /\ SameRest /\ UNCHANGED <<version, started, jobs>>
      /\ Of(c).kind \in {"plan", "edit"}
  BY DEF Transact, At, Doing
<1>2. /\ SessionStays /\ Known(Op(c)) /\ Op(c) \in ApprovedOperation /\ Of(c).kind = KindOf(Op(c))
      /\ revision \in Nat /\ version \in Nat /\ Of(c).base \in Nat
      /\ Evident(Op(c)) <=> Effective(Op(c))
      /\ logged \subseteq ApprovedOperation /\ started \subseteq ApprovedOperation \X {"pending", "started"}
      /\ jobs \subseteq ApprovedOperation \X {"half", "queued"}
  BY <1>1, AtWork
<1>3. \/ Op(c) \in logged /\ To(c, "mark") /\ UNCHANGED <<revision, logged, effects>>
      \/ To(c, "release, stale") /\ UNCHANGED <<revision, logged, effects>>
      \/ /\ Op(c) \notin logged /\ Of(c).base = revision
         /\ revision' = revision + 1 /\ logged' = logged \cup {Op(c)} /\ Happens(c)
         /\ To(c, "mark") \/ To(c, "release")
  BY DEF Transact, AnsweredOrNot
<1>4. CASE Op(c) \in logged /\ To(c, "mark") /\ UNCHANGED <<revision, logged, effects>>
  <2>1. SameWorld /\ Effective(Op(c))
    BY <1>1, <1>2, <1>4 DEF SameWorld, outside, Evident
  <2>2. QED
    BY <1>1, <1>4, <2>1, NothingDone
<1>5. CASE To(c, "release, stale") /\ UNCHANGED <<revision, logged, effects>>
  <2>1. SameWorld
    BY <1>1, <1>5 DEF SameWorld, outside
  <2>2. QED
    BY <1>1, <1>5, <2>1, NothingDone
<1>6. CASE /\ Op(c) \notin logged /\ Of(c).base = revision
           /\ revision' = revision + 1 /\ logged' = logged \cup {Op(c)} /\ Happens(c)
           /\ To(c, "mark") \/ To(c, "release")
  <2>1. TimeGoesOn
    BY <1>1, <1>2, <1>6, TurnFacts DEF TimeGoesOn, ProposalsInv, SameTurns
  <2>2. \A i \in DOMAIN effects : effects[i][1][1] # Op(c)[1]
    BY <1>1, <1>2, <1>6, NotYet DEF Of
  <2>3. OutsideTyped /\ OutsideGrows(Op(c)) /\ LeavesEvidence(Op(c))
    BY <1>1, <1>2, <1>6 DEF OutsideTyped, OutsideGrows, LeavesEvidence
  <2>4. Of(c).base < revision'
    BY <1>2, <1>6
  <2>5. PICK place \in {"mark", "release"} : To(c, place)
    BY <1>6
  <2>6. place \in DonePlaces /\ place # "start" /\ KindOf(Op(c)) # "action"
    BY <1>1, <1>2 DEF DonePlaces
  <2>7. QED
    BY <1>1, <1>2, <1>6, <2>1, <2>2, <2>3, <2>4, <2>5, <2>6, EffectKeeps
<1>7. QED
  BY <1>3, <1>4, <1>5, <1>6

LEMMA CreateWorkflowKeeps ==
  ASSUME ProposalsInv, NEW c \in Call, CreateWorkflow(c)
  PROVE  ProposalsInv'
<1>1. /\ call[c].at = "work" /\ call[c].at \in Doing /\ SameTurns /\ SameSession /\ SameRest
      /\ UNCHANGED <<revision, version, logged, jobs>> /\ Of(c).kind = "create"
  BY DEF CreateWorkflow, At, Doing
<1>2. /\ SessionStays /\ Known(Op(c)) /\ Op(c) \in ApprovedOperation /\ Of(c).kind = KindOf(Op(c))
      /\ revision \in Nat /\ version \in Nat /\ Of(c).base \in Nat
      /\ Stands("work", Op(c), Me(c), call[c].prior)
      /\ Evident(Op(c)) <=> Effective(Op(c))
      /\ logged \subseteq ApprovedOperation /\ started \subseteq ApprovedOperation \X {"pending", "started"}
      /\ jobs \subseteq ApprovedOperation \X {"half", "queued"}
  BY <1>1, AtWork
<1>3. \/ <<Op(c), "started">> \in started /\ To(c, "mark") /\ UNCHANGED <<started, effects>>
      \/ <<Op(c), "pending">> \in started /\ To(c, "start") /\ UNCHANGED <<started, effects>>
      \/ To(c, "release") /\ UNCHANGED <<started, effects>>
      \/ /\ <<Op(c), "pending">> \notin started /\ <<Op(c), "started">> \notin started /\ Of(c).base = revision
         /\ started' = started \cup {<<Op(c), "pending">>} /\ Happens(c) /\ To(c, "start")
  BY DEF CreateWorkflow
<1>4. ASSUME UNCHANGED <<started, effects>> PROVE SameWorld
  BY <1>1, <1>4 DEF SameWorld, outside
<1>5. CASE <<Op(c), "started">> \in started /\ To(c, "mark") /\ UNCHANGED <<started, effects>>
  <2>1. Effective(Op(c))
    BY <1>1, <1>2, <1>5 DEF Evident
  <2>2. QED
    BY <1>1, <1>4, <1>5, <2>1, NothingDone
<1>6. CASE <<Op(c), "pending">> \in started /\ To(c, "start") /\ UNCHANGED <<started, effects>>
  <2>1. Evident(Op(c))
    BY <1>1, <1>2, <1>6 DEF Evident
  <2>2. Stands("start", Op(c), Me(c), call[c].prior) /\ "start" \in Places
    BY <1>1, <1>2, <2>1 DEF Stands, Doing, Places
  <2>3. UNCHANGED <<life, rejected>>
    BY <1>1 DEF SameRest
  <2>4. QED
    BY <1>1, <1>4, <1>6, <2>2, <2>3, ToKeeps
<1>7. CASE To(c, "release") /\ UNCHANGED <<started, effects>>
  BY <1>1, <1>4, <1>7, NothingDone
<1>8. CASE /\ <<Op(c), "pending">> \notin started /\ <<Op(c), "started">> \notin started /\ Of(c).base = revision
           /\ started' = started \cup {<<Op(c), "pending">>} /\ Happens(c) /\ To(c, "start")
  <2>1. TimeGoesOn
    BY <1>1, <1>2, TurnFacts DEF TimeGoesOn, ProposalsInv, SameTurns
  <2>2. ~Effective(Op(c))
    BY <1>1, <1>2, <1>8 DEF Evident
  <2>3. \A i \in DOMAIN effects : effects[i][1][1] # Op(c)[1]
    BY <1>1, <1>2, <2>2, NotYet
  <2>4. OutsideTyped /\ OutsideGrows(Op(c)) /\ LeavesEvidence(Op(c))
    BY <1>1, <1>2, <1>8 DEF OutsideTyped, OutsideGrows, LeavesEvidence
  <2>5. "start" \in DonePlaces
    BY DEF DonePlaces
  <2>6. QED
    BY <1>1, <1>2, <1>8, <2>1, <2>3, <2>4, <2>5, EffectKeeps
<1>9. QED
  BY <1>3, <1>5, <1>6, <1>7, <1>8

LEMMA CreateJobKeeps ==
  ASSUME ProposalsInv, NEW c \in Call, CreateJob(c)
  PROVE  ProposalsInv'
<1>1. /\ call[c].at \in Doing /\ SameTurns /\ SameSession /\ SameRest
      /\ UNCHANGED <<revision, version, logged, started>> /\ Of(c).kind = "job"
  BY DEF CreateJob, At, Doing
<1>2. /\ SessionStays /\ Known(Op(c)) /\ Op(c) \in ApprovedOperation /\ Of(c).kind = KindOf(Op(c))
      /\ revision \in Nat /\ version \in Nat
      /\ Evident(Op(c)) <=> Effective(Op(c))
      /\ logged \subseteq ApprovedOperation /\ started \subseteq ApprovedOperation \X {"pending", "started"}
      /\ jobs \subseteq ApprovedOperation \X {"half", "queued"}
  BY <1>1, AtWork
<1>3. \/ <<Op(c), "queued">> \in jobs /\ To(c, "mark") /\ UNCHANGED <<jobs, effects>>
      \/ To(c, "release") /\ UNCHANGED <<jobs, effects>>
      \/ /\ <<Op(c), "queued">> \notin jobs
         /\ jobs' = jobs \cup {<<Op(c), "queued">>} /\ Happens(c)
         /\ To(c, "mark") \/ To(c, "release")
  BY DEF CreateJob, AnsweredOrNot
<1>4. ASSUME UNCHANGED <<jobs, effects>> PROVE SameWorld
  BY <1>1, <1>4 DEF SameWorld, outside
<1>5. CASE <<Op(c), "queued">> \in jobs /\ To(c, "mark") /\ UNCHANGED <<jobs, effects>>
  <2>1. Effective(Op(c))
    BY <1>1, <1>2, <1>5 DEF Evident
  <2>2. QED
    BY <1>1, <1>4, <1>5, <2>1, NothingDone
<1>6. CASE To(c, "release") /\ UNCHANGED <<jobs, effects>>
  BY <1>1, <1>4, <1>6, NothingDone
<1>7. CASE /\ <<Op(c), "queued">> \notin jobs
           /\ jobs' = jobs \cup {<<Op(c), "queued">>} /\ Happens(c)
           /\ To(c, "mark") \/ To(c, "release")
  <2>1. TimeGoesOn
    BY <1>1, <1>2, TurnFacts DEF TimeGoesOn, ProposalsInv, SameTurns
  <2>2. ~Effective(Op(c))
    BY <1>1, <1>2, <1>7 DEF Evident
  <2>3. \A i \in DOMAIN effects : effects[i][1][1] # Op(c)[1]
    BY <1>1, <1>2, <2>2, NotYet
  <2>4. OutsideTyped /\ OutsideGrows(Op(c)) /\ LeavesEvidence(Op(c))
    BY <1>1, <1>2, <1>7 DEF OutsideTyped, OutsideGrows, LeavesEvidence
  <2>5. PICK place \in {"mark", "release"} : To(c, place)
    BY <1>7
  <2>6. place \in DonePlaces /\ place # "start"
    BY DEF DonePlaces
  <2>7. KindOf(Op(c)) = "job"
    BY <1>1, <1>2
  <2>8. QED
    BY <1>1, <1>2, <1>7, <2>1, <2>3, <2>4, <2>5, <2>6, <2>7, EffectKeeps
<1>8. QED
  BY <1>3, <1>5, <1>6, <1>7

LEMMA ActOnWorkflowKeeps ==
  ASSUME ProposalsInv, NEW c \in Call, ActOnWorkflow(c)
  PROVE  ProposalsInv'
<1>1. /\ call[c].at = "act" /\ call[c].at \in Doing /\ SameTurns /\ SameSession /\ SameRest
      /\ UNCHANGED <<revision, logged, started, jobs>>
  BY DEF ActOnWorkflow, At, Doing, outside
<1>2. /\ SessionStays /\ Known(Op(c)) /\ Op(c) \in ApprovedOperation /\ Of(c).kind = KindOf(Op(c))
      /\ revision \in Nat /\ version \in Nat /\ Of(c).expects \in Nat /\ Of(c).expects <= version
      /\ Stands("act", Op(c), Me(c), call[c].prior)
      /\ logged \subseteq ApprovedOperation /\ started \subseteq ApprovedOperation \X {"pending", "started"}
      /\ jobs \subseteq ApprovedOperation \X {"half", "queued"}
  BY <1>1, AtWork
<1>3. KindOf(Op(c)) = "action" /\ ~Effective(Op(c))
  BY <1>2 DEF Stands
<1>4. CASE To(c, "release, stale") /\ UNCHANGED <<version, effects>>
  <2>1. SameWorld
    BY <1>1, <1>4 DEF SameWorld, outside
  <2>2. QED
    BY <1>1, <1>4, <2>1, NothingDone
<1>5. CASE version' = version + 1 /\ Happens(c) /\ AnsweredOrNot(c)
  <2>1. TimeGoesOn
    BY <1>1, <1>2, <1>5, TurnFacts DEF TimeGoesOn, ProposalsInv, SameTurns
  <2>2. \A i \in DOMAIN effects : effects[i][1][1] # Op(c)[1]
    BY <1>2, <1>3, NotYet
  <2>3. OutsideTyped /\ OutsideGrows(Op(c)) /\ LeavesEvidence(Op(c))
    BY <1>1, <1>2, <1>3 DEF OutsideTyped, OutsideGrows, LeavesEvidence
  <2>4. Of(c).expects < version'
    BY <1>2, <1>5
  <2>5. PICK place \in {"mark", "release"} : To(c, place)
    BY <1>5 DEF AnsweredOrNot
  <2>6. place \in DonePlaces /\ place # "start"
    BY DEF DonePlaces
  <2>7. QED
    BY <1>1, <1>2, <1>3, <1>5, <2>1, <2>2, <2>3, <2>4, <2>5, <2>6, EffectKeeps
<1>6. QED
  BY <1>4, <1>5 DEF ActOnWorkflow

(* What leaves no new evidence. *)
LEMMA EvidenceStays ==
  ASSUME ProposalsInv, FilesStay, TimeGoesOn, OutsideTyped, UNCHANGED <<effects, logged>>,
         started \subseteq started', jobs \subseteq jobs',
         \A q : /\ <<q, "queued">> \in jobs' => <<q, "queued">> \in jobs
                /\ \A s : <<q, s>> \in started' => \E r \in {"pending", "started"} : <<q, r>> \in started,
         CallsTyped', NEW c \in Call, Placed(c)',
         \A d \in Call : d # c => call'[d] = call[d] /\ life'[d] = life[d]
  PROVE  ProposalsInv'
<1>1. UNCHANGED <<proposals, claims, approved, rejected>>
  BY DEF FilesStay, ledger
<1>2. /\ ApprovedOperation' = ApprovedOperation /\ OperationClaim' = OperationClaim /\ Proposal' = Proposal
      /\ \A q : KindOf(q)' = KindOf(q) /\ (Known(q)' <=> Known(q)) /\ (Effective(q)' <=> Effective(q))
  BY <1>1 DEF ApprovedOperation, OperationClaim, Proposal, KindOf, Known, Effective
<1>3. LedgerTyped'
  BY <1>1, <1>2 DEF ProposalsInv, LedgerTyped, OutsideTyped
<1>4. \A q : Evident(q)' <=> Evident(q)
  <2> SUFFICES ASSUME NEW q PROVE Evident(q)' <=> Evident(q)
    OBVIOUS
  <2>1. /\ q \in logged' <=> q \in logged
        /\ <<q, "queued">> \in jobs' <=> <<q, "queued">> \in jobs
        /\ (\E s \in {"pending", "started"} : <<q, s>> \in started') <=> (\E s \in {"pending", "started"} : <<q, s>> \in started)
    BY Zenon
  <2>2. QED
    BY <1>2, <2>1, Zenon DEF Evident
<1>5. EvidenceIsTrue'
  BY <1>2, <1>4 DEF ProposalsInv, EvidenceIsTrue
<1>6. OneEffect' /\ AtItsRevision'
  BY <1>1 DEF ProposalsInv, OneEffect, AtItsRevision
<1>7. Spent'
  <2> SUFFICES ASSUME NEW i \in DOMAIN effects
               PROVE  /\ Known(effects[i][1])
                      /\ KindOf(effects[i][1]) \in {"plan", "edit"} => proposals[effects[i][1][1]].base < revision'
                      /\ KindOf(effects[i][1]) = "action" => proposals[effects[i][1][1]].expects < version'
    BY <1>1, <1>2 DEF Spent
  <2>1. proposals[effects[i][1][1]].base \in Nat /\ proposals[effects[i][1][1]].expects \in Nat
        /\ revision \in Nat /\ version \in Nat
    BY EffectTyped, TurnFacts DEF ProposalsInv
  <2>2. /\ Known(effects[i][1])
        /\ KindOf(effects[i][1]) \in {"plan", "edit"} => proposals[effects[i][1][1]].base < revision
        /\ KindOf(effects[i][1]) = "action" => proposals[effects[i][1][1]].expects < version
    BY DEF ProposalsInv, Spent
  <2>3. QED
    BY <2>1, <2>2 DEF TimeGoesOn
<1>8. ASSUME NEW d \in Call PROVE Placed(d)'
  <2>1. CASE d = c
    BY <2>1
  <2>2. CASE d # c
    <3> DEFINE S == {}
    <3>1. \A q : (Effective(q) => Effective(q)') /\ (Evident(q) => Evident(q)') /\ (Effective(q)' => Effective(q) \/ q \in S)
      BY <1>2, <1>4
    <3>2. call[d].at = "act" => Op(d) \notin S
      OBVIOUS
    <3> HIDE DEF S
    <3>3. QED
      BY <2>2, <3>1, <3>2, OthersWorkOn
  <2>3. QED
    BY <2>1, <2>2
<1>9. QED
  BY <1>2, <1>3, <1>5, <1>6, <1>7, <1>8, WorldKeeps

LEMMA StartWorkflowKeeps ==
  ASSUME ProposalsInv, NEW c \in Call, StartWorkflow(c)
  PROVE  ProposalsInv'
<1> PICK o, m, b : o = Op(c) /\ m = Me(c) /\ b = call[c].prior
  OBVIOUS
<1>1. /\ call[c].at = "start" /\ call[c].at \in Doing /\ SameTurns /\ SameSession /\ SameRest
      /\ UNCHANGED <<revision, version, logged, jobs, effects>> /\ started' = started \cup {<<o, "started">>}
  BY DEF StartWorkflow, At, Doing
<1>2. /\ SessionStays /\ Known(o) /\ o \in ApprovedOperation
      /\ revision \in Nat /\ version \in Nat
      /\ Stands("start", o, m, b)
      /\ Evident(o) <=> Effective(o)
      /\ logged \subseteq ApprovedOperation /\ started \subseteq ApprovedOperation \X {"pending", "started"}
      /\ jobs \subseteq ApprovedOperation \X {"half", "queued"}
  BY <1>1, AtWork
<1>3. KindOf(o) = "create" /\ Evident(o) /\ Effective(o) /\ \E r \in {"pending", "started"} : <<o, r>> \in started
  BY <1>2 DEF Stands, Evident
<1>4. FilesStay /\ UNCHANGED <<proposals, life>>
  BY <1>2 DEF SessionStays, FilesStay
<1>5. TimeGoesOn
  BY <1>1, <1>2, TurnFacts DEF TimeGoesOn, ProposalsInv, SameTurns
<1>6. OutsideTyped /\ UNCHANGED <<effects, logged>> /\ started \subseteq started' /\ jobs \subseteq jobs'
  BY <1>1, <1>2 DEF OutsideTyped
<1>7. \A q : /\ <<q, "queued">> \in jobs' => <<q, "queued">> \in jobs
             /\ \A s : <<q, s>> \in started' => \E r \in {"pending", "started"} : <<q, r>> \in started
  <2> SUFFICES ASSUME NEW q, NEW s, <<q, s>> \in started'
               PROVE  \E r \in {"pending", "started"} : <<q, r>> \in started
    BY <1>1
  <2>1. CASE q = o
    BY <1>3, <2>1
  <2>2. CASE q # o
    <3>1. <<q, s>> \in started
      BY <1>1, <2>2
    <3>2. s \in {"pending", "started"}
      BY <1>2, <3>1
    <3>3. QED
      BY <3>1, <3>2
  <2>3. QED
    BY <2>1, <2>2
<1>8. PICK place \in {"mark", "release"} : To(c, place)
  BY DEF StartWorkflow, AnsweredOrNot
<1>9. PICK x \in CallState : Moves(c, x) /\ x.at = place /\ x.op = o /\ x.prior = b
  <2>1. CallsTyped /\ place \in Places
    BY DEF ProposalsInv, Places
  <2>2. \E x \in CallState : /\ Moves(c, x) /\ x.at = place /\ x.op = Op(c)
                            /\ x.seen = call[c].seen /\ x.prior = call[c].prior
    BY <1>8, <2>1, ToMoves
  <2>3. QED
    BY <2>2
<1>10. CallsTyped' /\ call'[c] = x /\ \A d \in Call : d # c => call'[d] = call[d] /\ life'[d] = life[d]
  BY <1>4, <1>9, MovesTyped DEF ProposalsInv
<1>11. Placed(c)'
  <2>1. Known(o)' /\ Effective(o)'
    BY <1>1, <1>2, <1>3, <1>4 DEF Known, KindOf, ApprovedOperation, Proposal, Effective
  <2>2. Stands(place, o, m, b)'
    BY <2>1 DEF Stands, Doing
  <2>3. call'[c].at = place /\ Op(c)' = o /\ Me(c)' = m /\ call'[c].prior = b
    BY <1>4, <1>9, <1>10 DEF Op, Me
  <2>4. QED
    BY <2>2, <2>3 DEF Placed
<1>12. QED
  BY <1>4, <1>5, <1>6, <1>7, <1>10, <1>11, EvidenceStays

LEMMA DieKeeps ==
  ASSUME ProposalsInv, NEW c \in Call, Die(c)
  PROVE  ProposalsInv'
<1>1. /\ SameTurns /\ SameSession /\ UNCHANGED <<revision, version, logged, started, effects, rejected>>
      /\ life' = [life EXCEPT ![c] = 2] /\ End(c) /\ call[c].at # "idle"
      /\ UNCHANGED jobs \/ (jobs' = jobs \cup {<<Op(c), "half">>})
  BY DEF Die, At
<1>2. FilesStay
  BY <1>1 DEF FilesStay, SameTurns, SameSession
<1>3. TimeGoesOn
  BY <1>1, TurnFacts DEF TimeGoesOn, ProposalsInv, SameTurns
<1>4. Op(c) \in ApprovedOperation
  BY <1>1, KnownHere
<1>5. OutsideTyped /\ UNCHANGED <<effects, logged>> /\ started \subseteq started' /\ jobs \subseteq jobs'
  BY <1>1, <1>4 DEF OutsideTyped, ProposalsInv, LedgerTyped
<1>6. \A q : /\ <<q, "queued">> \in jobs' => <<q, "queued">> \in jobs
             /\ \A s : <<q, s>> \in started' => \E r \in {"pending", "started"} : <<q, r>> \in started
  BY <1>1 DEF ProposalsInv, LedgerTyped
<1>7. Moves(c, Idle) /\ Idle \in CallState /\ Idle.at = "idle"
  BY <1>1, EndMoves DEF ProposalsInv
<1>8. CallsTyped' /\ call'[c] = Idle /\ \A d \in Call : d # c => call'[d] = call[d] /\ life'[d] = life[d]
  BY <1>1, <1>7 DEF ProposalsInv, CallsTyped, Moves
<1>9. Placed(c)'
  BY <1>7, <1>8, IdleStands
<1>10. QED
  BY <1>2, <1>3, <1>5, <1>6, <1>8, <1>9, EvidenceStays

-------------------------------------------------------------------------------
(* The invariant holds to begin with, and is kept. *)
LEMMA ProposalsInit ==
  ASSUME Init
  PROVE  ProposalsInv
<1>1. /\ revision = 0 /\ edits = 0 /\ version = 0 /\ session = "active" /\ turns = << >> /\ proposals = << >>
      /\ run = [t \in Turn |-> Out]
      /\ claims = {} /\ approved = {} /\ logged = {} /\ started = {} /\ jobs = {} /\ effects = << >> /\ rejected = {}
      /\ call = [c \in Call |-> Idle] /\ life = [c \in Call |-> 1]
  BY DEF Init, TurnsInit
<1>2. Len(proposals) = 0 /\ Proposal = {} /\ DOMAIN turns = {} /\ DOMAIN effects = {} /\ MaxProposals \in Nat
  BY <1>1, RoundAssumption DEF Proposal
<1>3. TurnInv
  <2>1. 0 \in 0 .. 0 /\ 0 \in Nat /\ "" \in Kinds \cup {""} /\ "out" \in RunPlaces
    BY DEF RunPlaces
  <2>2. Out \in RunState(0)
    BY <2>1, Zenon DEF Out, RunState
  <2>3. run \in [Turn -> RunState(Len(proposals))]
    BY <1>1, <1>2, <2>2
  <2>4. \A t \in Turn : run[t] = Out
    BY <1>1
  <2>5. Out.at = "out" /\ Out.rev = 0 /\ Out.saw = 0
    BY DEF Out
  <2>6. \A t \in Turn : RunnerKnows(run[t], Len(proposals))
    BY <1>1, <2>4, <2>5 DEF RunnerKnows
  <2>7. turns \in Seq(TurnRecord) /\ proposals \in Seq(ProposalRecord)
    BY <1>1
  <2>8. QED
    BY <1>1, <1>2, <2>3, <2>6, <2>7 DEF TurnInv
<1>4. LedgerTyped /\ OneOwner
  BY <1>1 DEF LedgerTyped, OneOwner
<1>5. \A o : ~Effective(o) /\ ~Evident(o)
  BY <1>1, <1>2 DEF Effective, Evident
<1>6. EvidenceIsTrue /\ Spent /\ RejectedStays /\ OneEffect /\ AtItsRevision /\ AppliedIsTrue
  BY <1>1, <1>2, <1>5 DEF EvidenceIsTrue, Spent, RejectedStays, OneEffect, AtItsRevision, AppliedIsTrue
<1>7. "idle" \in Places /\ "" \in Choice \cup {""} /\ <<0, "">> \in Nat \X (Choice \cup {""})
      /\ "" \in Statuses \cup {""} /\ FALSE \in BOOLEAN
  BY DEF Places
<1>8. Idle \in CallState /\ Idle.at = "idle"
  BY <1>7, Zenon DEF CallState, Idle
<1>9. CallsTyped
  BY <1>1, <1>8 DEF CallsTyped
<1>10. \A c \in Call : Placed(c)
  BY <1>1, <1>8 DEF Placed, Stands, Doing
<1>11. QED
  BY <1>3, <1>4, <1>6, <1>9, <1>10 DEF ProposalsInv

LEMMA CallStepKeeps ==
  ASSUME ProposalsInv, NEW c \in Call, CallStep(c)
  PROVE  ProposalsInv'
<1>1. CASE Look(c) \/ Check(c) \/ SaveStale(c) \/ Claim(c) \/ Wait(c)
  BY <1>1, LookKeeps, CheckKeeps, SaveStaleKeeps, ClaimKeeps, WaitKeeps
<1>2. CASE Transact(c) \/ CreateWorkflow(c) \/ StartWorkflow(c) \/ ReadWorkflow(c) \/ ActOnWorkflow(c)
  BY <1>2, TransactKeeps, CreateWorkflowKeeps, StartWorkflowKeeps, ReadWorkflowKeeps, ActOnWorkflowKeeps
<1>3. CASE CreateJob(c) \/ WorkFails(c) \/ Mark(c) \/ MarkFails(c) \/ Release(c)
  BY <1>3, CreateJobKeeps, FailsKeep, MarkKeeps, ReleaseKeeps
<1>4. QED
  BY <1>1, <1>2, <1>3 DEF CallStep

LEMMA ProposalsNext ==
  ASSUME ProposalsInv, Next
  PROVE  ProposalsInv'
<1>1. CASE TurnStep
  BY <1>1, TurnStepKeeps
<1>2. CASE \E p \in Proposal : Review(p) \/ Reject(p) \/ \E c \in Call : Begin(c, p)
  BY <1>2, ReviewKeeps, RejectKeeps, BeginKeeps
<1>3. CASE \E c \in Call : CallStep(c) \/ Die(c) \/ \E t \in Turn : BeginByItself(c, t)
  BY <1>3, CallStepKeeps, DieKeeps, BeginByItselfKeeps
<1>4. QED
  BY <1>1, <1>2, <1>3 DEF Next

LEMMA ProposalsStutter ==
  ASSUME ProposalsInv, UNCHANGED vars
  PROVE  ProposalsInv'
<1>1. UNCHANGED <<revision, edits, version, session, turns, proposals, run>> /\ UNCHANGED <<ledger, outside, effects>>
      /\ UNCHANGED <<call, life, rejected>>
  BY DEF vars, turnVars, history
<1>2. TurnInv /\ LedgerTyped /\ CallsTyped
  BY DEF ProposalsInv
<1>3. ProposalsCarry /\ TimeGoesOn
  BY <1>1, <1>2, NothingCarries DEF world
<1>4. TurnInv'
  BY <1>1, <1>2, <1>3, NothingCarries, RunnerStays DEF TurnInv
<1>5. RejectsUnclaimed /\ CallsTyped'
  BY <1>1, <1>2, <1>3, SameRejects DEF CallsTyped
<1>6. QED
  BY <1>1, <1>3, <1>4, <1>5, FilesKeep

(* In every state of a session: the types, who owns an operation, what evidence  *)
(* of it there is, and what each confirmation knows where it is.                 *)
THEOREM AlwaysSound == Spec => []ProposalsInv
<1>1. Init => ProposalsInv
  BY ProposalsInit
<1>2. ProposalsInv /\ [Next]_vars => ProposalsInv'
  BY ProposalsNext, ProposalsStutter
<1>3. QED
  BY <1>1, <1>2, PTL DEF Spec

LEMMA WorkIsNew ==
  ASSUME ProposalsInv, NEW c \in Call, CallStep(c), effects' # effects
  PROVE  /\ call[c].at \in Doing /\ Happens(c) /\ ~Effective(Op(c))
<1>1. Transact(c) \/ CreateWorkflow(c) \/ ActOnWorkflow(c) \/ CreateJob(c)
  BY DEF CallStep, Look, Check, SaveStale, Claim, Wait, StartWorkflow, ReadWorkflow, WorkFails, Mark, MarkFails,
    Release, SameWorld
<1>2. /\ call[c].at \in Doing /\ call[c].at # "idle" /\ Happens(c)
  BY <1>1 DEF Transact, CreateWorkflow, ActOnWorkflow, CreateJob, At, Doing
<1>3. Of(c).kind = KindOf(Op(c)) /\ Op(c) \in ApprovedOperation
  BY <1>2, KnownHere
<1>4. Evident(Op(c)) <=> Effective(Op(c))
  BY <1>3, EffectiveIs
<1>5. CASE Transact(c)
  <2>1. Of(c).kind \in {"plan", "edit"} /\ Op(c) \notin logged
    BY <1>5 DEF Transact
  <2>2. ~Evident(Op(c))
    BY <1>3, <2>1 DEF Evident
  <2>3. QED
    BY <1>2, <1>4, <2>2
<1>6. CASE CreateWorkflow(c)
  <2>1. Of(c).kind = "create" /\ <<Op(c), "pending">> \notin started /\ <<Op(c), "started">> \notin started
    BY <1>6 DEF CreateWorkflow
  <2>2. ~Evident(Op(c))
    BY <1>3, <2>1 DEF Evident
  <2>3. QED
    BY <1>2, <1>4, <2>2
<1>7. CASE ActOnWorkflow(c)
  <2>1. call[c].at = "act"
    BY <1>7 DEF ActOnWorkflow, At
  <2>2. ~Effective(Op(c))
    BY <2>1 DEF ProposalsInv, Placed, Stands
  <2>3. QED
    BY <1>2, <2>2
<1>8. CASE CreateJob(c)
  <2>1. Of(c).kind = "job" /\ <<Op(c), "queued">> \notin jobs
    BY <1>8 DEF CreateJob
  <2>2. ~Evident(Op(c))
    BY <1>3, <2>1 DEF Evident
  <2>3. QED
    BY <1>2, <1>4, <2>2
<1>9. QED
  BY <1>1, <1>2, <1>5, <1>6, <1>7, <1>8

LEMMA OnlyWorkTakesEffect ==
  ASSUME ProposalsInv, Next, effects' # effects
  PROVE  \E c \in Call : CallStep(c)
<1>1. CASE TurnStep
  BY <1>1 DEF TurnStep, history
<1>2. CASE \E p \in Proposal : Review(p) \/ Reject(p) \/ \E c \in Call : Begin(c, p)
  BY <1>2 DEF Review, Reject, Begin, Begins, SameWorld
<1>3. CASE \E c \in Call : CallStep(c) \/ Die(c) \/ \E t \in Turn : BeginByItself(c, t)
  BY <1>3 DEF Die, BeginByItself, Begins, SameWorld
<1>4. QED
  BY <1>1, <1>2, <1>3 DEF Next

LEMMA RejectionStep ==
  ASSUME ProposalsInv, [Next]_vars, NEW p \in rejected, effects' # effects
  PROVE  effects'[Len(effects')][1][1] # p
<1>1. Next
  BY DEF vars, history
<1>2. PICK c \in Call : CallStep(c)
  BY <1>1, OnlyWorkTakesEffect
<1> PICK o : o = Op(c)
  OBVIOUS
<1>3. call[c].at \in Doing /\ Happens(c) /\ ~Effective(o)
  BY <1>2, WorkIsNew
<1>4. o \in ApprovedOperation
  BY <1>3, KnownHere DEF Doing
<1>5. ~Evident(o)
  BY <1>3, <1>4 DEF ProposalsInv, EvidenceIsTrue
<1>6. o[1] \notin rejected
  BY <1>3, <1>5 DEF ProposalsInv, Placed, Stands
<1>7. effects' = Append(effects, <<o, revision>>) /\ effects \in Seq(ApprovedOperation \X Nat)
      /\ <<o, revision>> \in ApprovedOperation \X Nat
  BY <1>3, <1>4, TurnFacts DEF Happens, ProposalsInv, LedgerTyped
<1> DEFINE e == <<o, revision>>
<1>8. e[1] = o /\ effects' = Append(effects, e) /\ e \in ApprovedOperation \X Nat
  BY <1>7
<1> HIDE DEF e
<1>9. effects'[Len(effects')] = e
  BY <1>7, <1>8
<1>10. QED
  BY <1>6, <1>8, <1>9

(* The session's records are of their types, and no operation has two owners.   *)
THEOREM TypeCorrect == Spec => []TypeOK
<1>1. ProposalsInv => TypeOK
  BY DEF ProposalsInv, TypeOK, TurnInv, LedgerTyped, OneOwner
<1>2. QED
  BY <1>1, AlwaysSound, PTL

(* Whatever the confirmations, their retries and the deaths between the work     *)
(* and its mark, a proposal takes effect at most once.                           *)
THEOREM EffectsAreSingle == Spec => []OneEffect
<1>1. ProposalsInv => OneEffect
  BY DEF ProposalsInv
<1>2. QED
  BY <1>1, AlwaysSound, PTL

(* What a proposal changes of the project, it changes at the revision it was     *)
(* made for.                                                                     *)
THEOREM EffectsAreTimely == Spec => []AtItsRevision
<1>1. ProposalsInv => AtItsRevision
  BY DEF ProposalsInv
<1>2. QED
  BY <1>1, AlwaysSound, PTL

(* A proposal that reads applied has taken effect, and so has every operation    *)
(* the session has approved.                                                     *)
THEOREM WhatReadsAppliedIs == Spec => []AppliedIsTrue
<1>1. ProposalsInv => AppliedIsTrue
  BY DEF ProposalsInv
<1>2. QED
  BY <1>1, AlwaysSound, PTL

(* A proposal that was rejected while nobody was applying it never takes effect, *)
(* not even by a confirmation that had read it before.                           *)
THEOREM RejectionsStand == Spec => RejectionStands
<1>1. ProposalsInv /\ [Next]_vars => [\A p \in rejected : effects' # effects => effects'[Len(effects')][1][1] # p]_vars
  BY RejectionStep
<1>2. QED
  BY <1>1, AlwaysSound, PTL DEF Spec, RejectionStands

-------------------------------------------------------------------------------
(* The Agent panel (module AgentPanel).                                          *)
TurnSteps == {"idle", "creating", "abandoned", "streaming", "opening", "loading"}
RequestSteps == {"held", "asked", "built", "resolved", "running", "ended", "refused"}
Targets == Target \cup {ProjectTarget}
References == [id : Nat, target : Targets, base : Nat]
TurnRequests == [refs : SUBSET References, at : RequestSteps, context : Nat, resolved : Nat, applied : BOOLEAN]

PanelTyped ==
  /\ versions \in Seq(SUBSET Target) /\ versions # << >>
  /\ pageRevision \in Nat /\ pageRevision <= Revision
  /\ attached \in Nat /\ turnStep \in TurnSteps
  /\ selectedTarget \subseteq Target /\ wanted \subseteq Targets
  /\ drafts \subseteq References
  /\ \A k \in DOMAIN requests : requests[k] \in TurnRequests

(* Of a turn at the server: its snapshot is of a revision that is past, no reference *)
(* is of a later one, and what resolved was of the revision it was resolved against. *)
TurnIsSound(q) ==
  /\ \A r \in q.refs : r.id <= attached /\ r.base <= Revision
  /\ q.at \in {"built", "resolved", "running", "ended"} =>
       /\ q.context <= Revision
       /\ \A r \in q.refs : r.base <= q.context
  /\ q.at \in {"resolved", "running", "ended"} =>
       /\ q.resolved = q.context
       /\ \A r \in q.refs : r.base = q.context /\ Exists(r.target, q.context)

SentIds == {r.id : r \in requests[turn].refs}

(* A draft is known by its target and by its number.                              *)
DraftsAreKnown ==
  /\ \A r \in drafts : r.id <= attached /\ r.base <= pageRevision
  /\ \A r, s \in drafts : r.target = s.target \/ r.id = s.id => r = s

(* While a turn is under way: a draft with the number of a reference that was sent is *)
(* that reference, and what the user attached since has a draft that was not sent.    *)
SentApart ==
  /\ turn \in DOMAIN requests
  /\ \A r \in drafts, s \in requests[turn].refs : r.id = s.id => r = s
  /\ \A t \in wanted : \E r \in drafts : r.target = t /\ r.id \notin SentIds
  /\ turnStep \in {"opening", "loading"} => requests[turn].at = "ended"

PanelInv ==
  /\ PanelTyped
  /\ DraftsAreKnown
  /\ \A k \in DOMAIN requests : TurnIsSound(requests[k])
  /\ Busy => SentApart

PanelSpec == PanelInit /\ [][PanelStep]_panelVars

(* Revisions are added, and those before stay as they were.                       *)
VersionsStand ==
  /\ versions' \in Seq(SUBSET Target)
  /\ Len(versions) <= Len(versions')
  /\ \A i \in 1..Len(versions) : versions'[i] = versions[i]

LEMMA RevisionIs == ASSUME PanelTyped PROVE Revision \in Nat /\ Revision + 1 \in 1..Len(versions)
<1>1. versions \in Seq(SUBSET Target) /\ versions # << >>
  BY DEF PanelTyped
<1>2. Len(versions) \in Nat /\ Len(versions) # 0
  BY <1>1
<1>3. QED
  BY <1>2 DEF Revision

(* A sound turn stays sound while revisions and references are added.             *)
LEMMA SoundStaysSound ==
  ASSUME PanelTyped, VersionsStand, attached' \in Nat, attached <= attached',
         NEW q \in TurnRequests, TurnIsSound(q)
  PROVE  TurnIsSound(q)'
<1>1. Revision \in Nat /\ Revision' \in Nat /\ Revision <= Revision'
  <2>1. Revision \in Nat /\ Len(versions') \in Nat /\ Len(versions) \in Nat
    BY RevisionIs DEF VersionsStand, PanelTyped
  <2>2. QED
    BY <2>1 DEF VersionsStand, Revision
<1>2. ASSUME NEW r \in q.refs
      PROVE  r.id \in Nat /\ r.base \in Nat /\ r.id <= attached /\ r.base <= Revision
  BY <1>2 DEF TurnIsSound, TurnRequests, References
<1>3. \A r \in q.refs : r.id <= attached' /\ r.base <= Revision'
  BY <1>1, <1>2 DEF PanelTyped
<1>4. ASSUME q.context <= Revision, NEW r \in q.refs, Exists(r.target, q.context)
      PROVE  Exists(r.target, q.context)'
  <2>1. q.context \in Nat /\ q.context + 1 \in 1..Len(versions)
    <3>1. q.context \in Nat /\ Len(versions) \in Nat
      BY DEF TurnRequests, PanelTyped
    <3>2. QED
      BY <1>4, <3>1 DEF Revision
  <2>2. versions'[q.context + 1] = versions[q.context + 1]
    BY <2>1 DEF VersionsStand
  <2>3. QED
    BY <1>4, <2>2 DEF Exists, TargetsAt
<1>5. q.at \in {"built", "resolved", "running", "ended"} =>
        q.context <= Revision' /\ q.context <= Revision /\ \A r \in q.refs : r.base <= q.context
  <2>1. q.context \in Nat
    BY DEF TurnRequests
  <2>2. QED
    BY <1>1, <2>1 DEF TurnIsSound
<1>6. q.at \in {"resolved", "running", "ended"} =>
        /\ q.resolved = q.context
        /\ \A r \in q.refs : r.base = q.context /\ Exists(r.target, q.context)'
  BY <1>4, <1>5 DEF TurnIsSound
<1>7. QED
  BY <1>3, <1>5, <1>6 DEF TurnIsSound

(* What stands while nothing is added.                                            *)
LEMMA VersionsStay == ASSUME PanelTyped, UNCHANGED versions PROVE VersionsStand
BY DEF PanelTyped, VersionsStand

(* The project moves on, or the panel shows another revision of it.               *)
LEMMA ProjectKeeps ==
  ASSUME PanelInv, VersionsStand, versions' # << >>, UNCHANGED <<panel, sending, requests>>,
         pageRevision' \in Nat, pageRevision <= pageRevision', pageRevision' <= Revision'
  PROVE  PanelInv'
<1>1. UNCHANGED <<selectedTarget, drafts, attached, wanted, turnStep, turn, requests>>
  BY DEF panel, sending
<1>2. PanelTyped'
  BY <1>1 DEF PanelInv, PanelTyped, VersionsStand
<1>3. DraftsAreKnown'
  <2>1. \A r \in drafts : r.base \in Nat
    BY DEF PanelInv, PanelTyped, References
  <2>2. pageRevision \in Nat
    BY DEF PanelInv, PanelTyped
  <2>3. QED
    BY <1>1, <2>1, <2>2 DEF PanelInv, DraftsAreKnown
<1>4. \A k \in DOMAIN requests' : TurnIsSound(requests[k])'
  <2>1. attached' \in Nat /\ attached <= attached'
    BY <1>1 DEF PanelInv, PanelTyped
  <2>2. TAKE k \in DOMAIN requests'
  <2>3. PICK q : q = requests[k]
    OBVIOUS
  <2>4. q \in TurnRequests /\ TurnIsSound(q) /\ PanelTyped
    BY <1>1, <2>3 DEF PanelInv, PanelTyped
  <2>5. TurnIsSound(q)'
    BY <2>1, <2>4, SoundStaysSound
  <2>6. q = requests'[k]
    BY <1>1, <2>3
  <2>7. QED
    BY <2>5, <2>6
<1>5. Busy' => SentApart'
  BY <1>1 DEF PanelInv, Busy, SentApart, SentIds
<1>6. QED
  BY <1>2, <1>3, <1>4, <1>5 DEF PanelInv

LEMMA ChangeIsSound == ASSUME PanelInv, Change PROVE PanelInv'
<1>1. PICK gone \in SUBSET TargetsAt(Revision), here \in BOOLEAN :
        /\ versions' = Append(versions, TargetsAt(Revision) \ gone)
        /\ here => pageRevision = Revision
        /\ pageRevision' = IF here THEN Revision + 1 ELSE pageRevision
  BY DEF Change
<1>2. versions \in Seq(SUBSET Target) /\ pageRevision \in Nat /\ pageRevision <= Revision
  BY DEF PanelInv, PanelTyped
<1>3. Revision \in Nat /\ Revision + 1 \in 1..Len(versions)
  BY RevisionIs DEF PanelInv
<1>4. TargetsAt(Revision) \ gone \in SUBSET Target
  BY <1>2, <1>3 DEF TargetsAt
<1>5. VersionsStand /\ versions' # << >> /\ Len(versions') = Len(versions) + 1
  BY <1>1, <1>2, <1>4 DEF VersionsStand
<1>6. Revision' = Revision + 1
  BY <1>2, <1>5 DEF Revision
<1>7. pageRevision' \in Nat /\ pageRevision <= pageRevision' /\ pageRevision' <= Revision'
  BY <1>1, <1>2, <1>3, <1>6
<1>8. UNCHANGED <<panel, sending, requests>>
  BY DEF Change
<1>9. QED
  BY <1>5, <1>7, <1>8, ProjectKeeps

LEMMA ShowIsSound == ASSUME PanelInv, ShowLatest PROVE PanelInv'
<1>1. UNCHANGED versions /\ UNCHANGED <<panel, sending, requests>> /\ pageRevision' = Revision
  BY DEF ShowLatest
<1>2. PanelTyped /\ Revision \in Nat /\ pageRevision \in Nat /\ pageRevision <= Revision
  BY RevisionIs DEF PanelInv, PanelTyped
<1>3. VersionsStand /\ versions' # << >> /\ Revision' = Revision
  BY <1>1, <1>2, VersionsStay DEF PanelTyped, Revision
<1>4. pageRevision' \in Nat /\ pageRevision <= pageRevision' /\ pageRevision' <= Revision'
  BY <1>1, <1>2, <1>3
<1>5. QED
  BY <1>1, <1>3, <1>4, ProjectKeeps


(* What the user drafts.                                                          *)
LEMMA DraftsKeep ==
  ASSUME PanelInv, UNCHANGED <<versions, pageRevision, sending, requests>>,
         attached' \in Nat, attached <= attached', drafts' \subseteq References, DraftsAreKnown',
         selectedTarget' \subseteq Target, wanted' \subseteq Targets,
         Busy => /\ \A r \in drafts', s \in requests[turn].refs : r.id = s.id => r = s
                 /\ \A t \in wanted' : \E r \in drafts' : r.target = t /\ r.id \notin SentIds
  PROVE  PanelInv'
<1>1. UNCHANGED <<versions, pageRevision, turnStep, turn, requests>>
  BY DEF sending
<1>2. PanelTyped /\ VersionsStand
  BY <1>1, VersionsStay DEF PanelInv
<1>3. PanelTyped'
  BY <1>1, <1>2 DEF PanelTyped, Revision
<1>4. \A k \in DOMAIN requests' : TurnIsSound(requests[k])'
  <2>1. TAKE k \in DOMAIN requests'
  <2>2. PICK q : q = requests[k]
    OBVIOUS
  <2>3. q \in TurnRequests /\ TurnIsSound(q)
    BY <1>1, <2>2 DEF PanelInv, PanelTyped
  <2>4. TurnIsSound(q)'
    BY <1>2, <2>3, SoundStaysSound
  <2>5. q = requests'[k]
    BY <1>1, <2>2
  <2>6. QED
    BY <2>4, <2>5
<1>5. Busy' => SentApart'
  <2>1. (Busy' <=> Busy) /\ SentIds' = SentIds
    BY <1>1 DEF Busy, SentIds
  <2>2. QED
    BY <1>1, <2>1 DEF PanelInv, SentApart
<1>6. QED
  BY <1>3, <1>4, <1>5 DEF PanelInv

LEMMA AttachKeeps ==
  ASSUME PanelInv, NEW target \in Targets, Attach(target), ~SentWith(target)
  PROVE  /\ attached' \in Nat /\ attached <= attached'
         /\ drafts' \subseteq References
         /\ wanted' \subseteq Targets
         /\ Busy => /\ \A r \in drafts', s \in requests[turn].refs : r.id = s.id => r = s
                    /\ \A t \in wanted' : \E r \in drafts' : r.target = t /\ r.id \notin SentIds
         /\ \A r \in drafts' : r.id <= attached' /\ r.base <= pageRevision
         /\ \A r, s \in drafts' : r.target = s.target \/ r.id = s.id => r = s
<1>1. PICK new : new = [id |-> attached + 1, target |-> target, base |-> pageRevision]
  OBVIOUS
<1>2. PICK same : same = {r \in drafts : r.target = target}
  OBVIOUS
<1>3. attached \in Nat /\ pageRevision \in Nat /\ drafts \subseteq References /\ wanted \subseteq Targets
  BY DEF PanelInv, PanelTyped
<1>4. new \in References
  BY <1>1, <1>3 DEF References
<1>5. \A r \in drafts : r.id \in Nat /\ r.base \in Nat /\ r.id <= attached /\ r.base <= pageRevision
  BY <1>3 DEF PanelInv, DraftsAreKnown, References
<1>6. \A r, s \in drafts : r.target = s.target \/ r.id = s.id => r = s
  BY DEF PanelInv, DraftsAreKnown
<1>7. wanted' = IF Busy THEN wanted \cup {target} ELSE wanted
  BY DEF Attach
<1>8. ASSUME Busy
      PROVE  /\ turn \in DOMAIN requests
             /\ \A r \in drafts, s \in requests[turn].refs : r.id = s.id => r = s
             /\ \A s \in requests[turn].refs : s.id \in Nat /\ s.id <= attached
             /\ \A t \in wanted : \E r \in drafts : r.target = t /\ r.id \notin SentIds
  <2>1. SentApart
    BY <1>8 DEF PanelInv
  <2>2. requests[turn] \in TurnRequests /\ TurnIsSound(requests[turn])
    BY <2>1 DEF PanelInv, PanelTyped, SentApart
  <2>3. \A s \in requests[turn].refs : s.id \in Nat /\ s.id <= attached
    BY <2>2 DEF TurnRequests, TurnIsSound, References
  <2>4. QED
    BY <2>1, <2>3 DEF SentApart
<1>9. CASE \E r \in same : r.base = pageRevision
  <2>1. drafts' = drafts /\ attached' = attached
    BY <1>2, <1>9 DEF Attach
  <2>2. PICK r \in drafts : r.target = target /\ r.base = pageRevision
    BY <1>2, <1>9
  <2>3. Busy => r.id \notin SentIds
    <3>1. SUFFICES ASSUME Busy, NEW s \in requests[turn].refs, r.id = s.id PROVE FALSE
      BY DEF SentIds
    <3>2. r = s
      BY <1>8, <3>1
    <3>3. QED
      BY <2>2, <3>1, <3>2 DEF SentWith
  <2>4. Busy => \A t \in wanted' : \E q \in drafts' : q.target = t /\ q.id \notin SentIds
    BY <1>7, <1>8, <2>1, <2>2, <2>3
  <2>5. wanted' \subseteq Targets
    BY <1>3, <1>7
  <2>6. QED
    BY <1>3, <1>5, <1>6, <1>8, <2>1, <2>4, <2>5
<1>10. CASE ~\E r \in same : r.base = pageRevision
  <2>1. drafts' = (drafts \ same) \cup {new} /\ attached' = attached + 1
    BY <1>1, <1>2, <1>10 DEF Attach
  <2>2. new.id = attached + 1 /\ new.target = target /\ new.base = pageRevision
    BY <1>1
  <2>3. \A r \in drafts \ same : r \in drafts /\ r.target # target
    BY <1>2
  <2>4. attached' \in Nat /\ attached <= attached'
    BY <1>3, <2>1
  <2>5. drafts' \subseteq References /\ wanted' \subseteq Targets
    BY <1>3, <1>4, <1>7, <2>1
  <2>6. \A r \in drafts' : r.id <= attached' /\ r.base <= pageRevision
    BY <1>3, <1>5, <2>1, <2>2
  <2>7. \A r, s \in drafts' : r.target = s.target \/ r.id = s.id => r = s
    <3>1. \A r \in drafts \ same : r.target # new.target /\ r.id # new.id
      BY <1>3, <1>5, <2>2, <2>3
    <3>2. QED
      BY <1>6, <2>1, <3>1
  <2>8. ASSUME Busy
        PROVE  /\ \A r \in drafts', s \in requests[turn].refs : r.id = s.id => r = s
               /\ \A t \in wanted' : \E r \in drafts' : r.target = t /\ r.id \notin SentIds
    <3>1. \A s \in requests[turn].refs : s.id # new.id
      BY <1>3, <1>8, <2>2, <2>8
    <3>2. new.id \notin SentIds
      BY <3>1 DEF SentIds
    <3>3. \A r \in drafts', s \in requests[turn].refs : r.id = s.id => r = s
      BY <1>8, <2>1, <2>8, <3>1
    <3>4. ASSUME NEW t \in wanted'
          PROVE  \E r \in drafts' : r.target = t /\ r.id \notin SentIds
      <4>1. CASE t = target
        BY <2>1, <2>2, <3>2, <4>1
      <4>2. CASE t # target
        <5>1. PICK r \in drafts : r.target = t /\ r.id \notin SentIds
          BY <1>7, <1>8, <2>8, <4>2
        <5>2. r \in drafts'
          BY <1>2, <2>1, <4>2, <5>1
        <5>3. QED
          BY <5>1, <5>2
      <4>3. QED
        BY <4>1, <4>2
    <3>5. QED
      BY <3>3, <3>4
  <2>9. QED
    BY <2>4, <2>5, <2>6, <2>7, <2>8
<1>11. QED
  BY <1>9, <1>10

LEMMA SelectIsSound == ASSUME PanelInv, ~Reselects, NEW t \in Target, Select(t) PROVE PanelInv'
<1>1. UNCHANGED <<versions, pageRevision, sending, requests>> /\ selectedTarget' = {t}
  BY DEF Select
<1>2. CASE selectionMode
  <2>1. Attach(t) /\ ~SentWith(t) /\ t \in Targets
    BY <1>2 DEF Select, Targets
  <2>2. DraftsAreKnown'
    BY <1>1, <2>1, AttachKeeps DEF DraftsAreKnown
  <2>3. /\ attached' \in Nat /\ attached <= attached'
        /\ drafts' \subseteq References
        /\ wanted' \subseteq Targets
        /\ Busy => /\ \A r \in drafts', s \in requests[turn].refs : r.id = s.id => r = s
                   /\ \A q \in wanted' : \E r \in drafts' : r.target = q /\ r.id \notin SentIds
    BY <2>1, AttachKeeps
  <2>4. QED
    BY <1>1, <2>2, <2>3, DraftsKeep
<1>3. CASE ~selectionMode
  <2>1. UNCHANGED <<drafts, attached, wanted>>
    BY <1>3 DEF Select
  <2>2. DraftsAreKnown'
    BY <1>1, <2>1 DEF PanelInv, DraftsAreKnown
  <2>3. attached' \in Nat /\ attached <= attached' /\ drafts' \subseteq References /\ wanted' \subseteq Targets
    BY <2>1 DEF PanelInv, PanelTyped
  <2>4. Busy => /\ \A r \in drafts', s \in requests[turn].refs : r.id = s.id => r = s
                /\ \A q \in wanted' : \E r \in drafts' : r.target = q /\ r.id \notin SentIds
    BY <2>1 DEF PanelInv, SentApart
  <2>5. QED
    BY <1>1, <2>2, <2>3, <2>4, DraftsKeep
<1>4. QED
  BY <1>2, <1>3

LEMMA AddIsSound == ASSUME PanelInv, AddCurrentContext PROVE PanelInv'
<1>1. UNCHANGED <<versions, pageRevision, selectedTarget, sending, requests>> /\ ~Busy
  BY DEF AddCurrentContext
<1>2. PICK target \in IF selectedTarget = {} THEN {ProjectTarget} ELSE selectedTarget : Attach(target)
  BY DEF AddCurrentContext
<1>3. target \in Targets /\ ~SentWith(target) /\ selectedTarget' \subseteq Target
  BY <1>1 DEF PanelInv, PanelTyped, Targets, SentWith
<1>4. DraftsAreKnown'
  BY <1>1, <1>2, <1>3, AttachKeeps DEF DraftsAreKnown
<1>5. attached' \in Nat /\ attached <= attached' /\ drafts' \subseteq References /\ wanted' \subseteq Targets
  BY <1>2, <1>3, AttachKeeps
<1>6. QED
  BY <1>1, <1>3, <1>4, <1>5, DraftsKeep

LEMMA RemoveIsSound == ASSUME PanelInv, NEW reference \in drafts, RemoveContext(reference) PROVE PanelInv'
<1>1. /\ UNCHANGED <<versions, pageRevision, selectedTarget, attached, sending, requests>>
      /\ drafts' = {r \in drafts : r.id # reference.id}
      /\ wanted' = wanted \ {reference.target}
  BY DEF RemoveContext
<1>2. attached' \in Nat /\ attached <= attached' /\ drafts' \subseteq References /\ wanted' \subseteq Targets
        /\ selectedTarget' \subseteq Target
  BY <1>1 DEF PanelInv, PanelTyped
<1>3. DraftsAreKnown'
  BY <1>1 DEF PanelInv, DraftsAreKnown
<1>4. ASSUME Busy
      PROVE  /\ \A r \in drafts', s \in requests[turn].refs : r.id = s.id => r = s
             /\ \A t \in wanted' : \E r \in drafts' : r.target = t /\ r.id \notin SentIds
  <2>1. SentApart
    BY <1>4 DEF PanelInv
  <2>2. ASSUME NEW t \in wanted' PROVE \E r \in drafts' : r.target = t /\ r.id \notin SentIds
    <3>1. t \in wanted /\ t # reference.target
      BY <1>1
    <3>2. PICK r \in drafts : r.target = t /\ r.id \notin SentIds
      BY <2>1, <3>1 DEF SentApart
    <3>3. r.id # reference.id
      BY <3>1, <3>2 DEF PanelInv, DraftsAreKnown
    <3>4. QED
      BY <1>1, <3>2, <3>3
  <2>3. QED
    BY <1>1, <2>1, <2>2 DEF SentApart
<1>5. QED
  BY <1>1, <1>2, <1>3, <1>4, DraftsKeep

(* Nothing is drafted by what only changes what is selected.                      *)
LEMMA SelectionIsSound == ASSUME PanelInv, ClearSelection \/ ToggleMode PROVE PanelInv'
<1>1. UNCHANGED <<versions, pageRevision, drafts, attached, wanted, sending, requests>>
  BY DEF ClearSelection, ToggleMode
<1>2. attached' \in Nat /\ attached <= attached' /\ drafts' \subseteq References /\ wanted' \subseteq Targets
  BY <1>1 DEF PanelInv, PanelTyped
<1>3. selectedTarget' \subseteq Target
  BY DEF ClearSelection, ToggleMode, PanelInv, PanelTyped
<1>4. DraftsAreKnown'
  BY <1>1 DEF PanelInv, DraftsAreKnown
<1>5. Busy => /\ \A r \in drafts', s \in requests[turn].refs : r.id = s.id => r = s
              /\ \A q \in wanted' : \E r \in drafts' : r.target = q /\ r.id \notin SentIds
  BY <1>1 DEF PanelInv, SentApart
<1>6. QED
  BY <1>1, <1>2, <1>3, <1>4, <1>5, DraftsKeep


(* A step of the page or of the server: the turns it leaves are sound.            *)
LEMMA AnswerKeeps ==
  ASSUME PanelInv, VersionsStand, versions' # << >>,
         pageRevision' \in Nat, pageRevision <= pageRevision', pageRevision' <= Revision',
         UNCHANGED <<selectedTarget, attached>>, drafts' \subseteq drafts, wanted' \subseteq Targets,
         turnStep' \in TurnSteps,
         \A k \in DOMAIN requests' : requests'[k] \in TurnRequests /\ TurnIsSound(requests'[k]),
         Busy' => SentApart'
  PROVE  PanelInv'
<1>1. PanelTyped'
  BY DEF PanelInv, PanelTyped, VersionsStand
<1>2. DraftsAreKnown'
  <2>1. \A r \in drafts : r.base \in Nat
    BY DEF PanelInv, PanelTyped, References
  <2>2. pageRevision \in Nat
    BY DEF PanelInv, PanelTyped
  <2>3. QED
    BY <2>1, <2>2 DEF PanelInv, DraftsAreKnown
<1>3. \A k \in DOMAIN requests' : TurnIsSound(requests[k])'
  <2>1. TAKE k \in DOMAIN requests'
  <2>2. PICK q : q = requests'[k]
    OBVIOUS
  <2>3. q \in TurnRequests /\ TurnIsSound(q)
    BY <2>2
  <2>4. PanelTyped /\ attached' \in Nat /\ attached <= attached'
    BY DEF PanelInv, PanelTyped
  <2>5. TurnIsSound(q)'
    BY <2>3, <2>4, SoundStaysSound
  <2>6. QED
    BY <2>2, <2>5
<1>4. QED
  BY <1>1, <1>2, <1>3 DEF PanelInv

(* What stays of the project and the page while only the page's own state changes. *)
LEMMA PageStays ==
  ASSUME PanelInv, UNCHANGED <<versions, pageRevision>>
  PROVE  /\ VersionsStand /\ versions' # << >> /\ Revision' = Revision
         /\ pageRevision' \in Nat /\ pageRevision <= pageRevision' /\ pageRevision' <= Revision'
BY VersionsStay DEF PanelInv, PanelTyped, Revision

LEMMA SendIsSound == ASSUME PanelInv, SendTurn PROVE PanelInv'
<1>1. /\ UNCHANGED <<versions, pageRevision, selectedTarget, drafts, attached>>
      /\ wanted' = {} /\ turnStep' = IF panelSession THEN "streaming" ELSE "creating"
  BY DEF SendTurn
<1>2. PICK k \in 1..MaxRequests :
        /\ turn' = k
        /\ requests' = [n \in Underway \cup {k} |->
             IF n # k THEN requests[n]
             ELSE [Requested(drafts) EXCEPT !.at = IF panelSession THEN "asked" ELSE "held"]]
  BY DEF SendTurn
<1>3. PICK q : q = [Requested(drafts) EXCEPT !.at = IF panelSession THEN "asked" ELSE "held"]
  OBVIOUS
<1>4. q.refs = drafts /\ q.at \in {"asked", "held"} /\ q \in TurnRequests
  <2>1. drafts \in SUBSET References
    BY DEF PanelInv, PanelTyped
  <2>2. q = [refs |-> drafts, at |-> IF panelSession THEN "asked" ELSE "held", context |-> 0, resolved |-> 0, applied |-> FALSE]
    BY <1>3 DEF Requested
  <2>3. q.refs = drafts /\ q.at \in {"asked", "held"}
    BY <2>2
  <2>4. q \in TurnRequests
    BY <2>1, <2>2 DEF TurnRequests, RequestSteps
  <2>5. QED
    BY <2>3, <2>4
<1>5. TurnIsSound(q)
  <2>1. \A r \in drafts : r.base \in Nat /\ r.id <= attached /\ r.base <= pageRevision
    BY DEF PanelInv, PanelTyped, DraftsAreKnown, References
  <2>2. pageRevision \in Nat /\ pageRevision <= Revision /\ Revision \in Nat
    BY RevisionIs DEF PanelInv, PanelTyped
  <2>3. \A r \in q.refs : r.id <= attached /\ r.base <= Revision
    BY <1>4, <2>1, <2>2
  <2>4. QED
    BY <1>4, <2>3 DEF TurnIsSound
<1>6. DOMAIN requests' = Underway \cup {k} /\ requests'[k] = q
  BY <1>2, <1>3
<1>7. \A n \in DOMAIN requests' : requests'[n] \in TurnRequests /\ TurnIsSound(requests'[n])
  <2>1. TAKE n \in DOMAIN requests'
  <2>2. CASE n = k
    BY <1>4, <1>5, <1>6, <2>2
  <2>3. CASE n # k
    <3>1. n \in DOMAIN requests /\ requests'[n] = requests[n]
      BY <1>2, <1>6, <2>3 DEF Underway
    <3>2. QED
      BY <3>1 DEF PanelInv, PanelTyped
  <2>4. QED
    BY <2>2, <2>3
<1>8. SentApart'
  <2>1. turn' \in DOMAIN requests' /\ requests'[turn'].refs = drafts' /\ turnStep' \notin {"opening", "loading"}
    BY <1>1, <1>2, <1>4, <1>6
  <2>2. \A r, s \in drafts' : r.id = s.id => r = s
    BY <1>1 DEF PanelInv, DraftsAreKnown
  <2>3. QED
    BY <1>1, <2>1, <2>2 DEF SentApart
<1>9. drafts' \subseteq drafts /\ wanted' \subseteq Targets /\ turnStep' \in TurnSteps
  BY <1>1 DEF TurnSteps
<1>10. QED
  BY <1>1, <1>7, <1>8, <1>9, PageStays, AnswerKeeps

(* The page has an answer, and the turn is over or goes on as it was sent.         *)
LEMMA AnswerIsSound ==
  ASSUME PanelInv, Busy, UNCHANGED <<versions, selectedTarget, attached>>,
         pageRevision' = pageRevision \/ pageRevision' = Revision,
         drafts' \subseteq drafts, wanted' = {} \/ wanted' = wanted, turnStep' \in TurnSteps,
         \A k \in DOMAIN requests' : requests'[k] \in TurnRequests /\ TurnIsSound(requests'[k]),
         turnStep' # "idle" =>
           /\ UNCHANGED <<drafts, wanted, turn>>
           /\ turn \in DOMAIN requests' /\ requests'[turn].refs = requests[turn].refs
           /\ turnStep' \in {"opening", "loading"} => requests'[turn].at = "ended"
  PROVE  PanelInv'
<1>1. Revision \in Nat /\ pageRevision \in Nat /\ pageRevision <= Revision /\ PanelTyped
  BY RevisionIs DEF PanelInv, PanelTyped
<1>2. VersionsStand /\ versions' # << >> /\ Revision' = Revision
  BY <1>1, VersionsStay DEF PanelTyped, Revision
<1>3. pageRevision' \in Nat /\ pageRevision <= pageRevision' /\ pageRevision' <= Revision'
  BY <1>1, <1>2
<1>4. wanted' \subseteq Targets
  BY DEF PanelInv, PanelTyped
<1>5. ASSUME Busy' PROVE SentApart'
  <2>1. /\ UNCHANGED <<drafts, wanted, turn>>
        /\ turn' \in DOMAIN requests' /\ requests'[turn'].refs = requests[turn].refs
        /\ turnStep' \in {"opening", "loading"} => requests'[turn'].at = "ended"
    BY <1>5 DEF Busy
  <2>2. SentApart /\ SentIds' = SentIds
    BY <2>1 DEF PanelInv, SentIds
  <2>3. QED
    BY <2>1, <2>2 DEF SentApart
<1>6. QED
  BY <1>2, <1>3, <1>4, <1>5, AnswerKeeps

LEMMA CreatedIsSound == ASSUME PanelInv, Created PROVE PanelInv'
<1>1. UNCHANGED <<versions, pageRevision, selectedTarget, attached, turn>> /\ Busy
  BY DEF Created, Busy
<1>2. turn \in DOMAIN requests /\ \A k \in DOMAIN requests : requests[k] \in TurnRequests /\ TurnIsSound(requests[k])
  BY <1>1 DEF PanelInv, PanelTyped, SentApart
<1>3. CASE /\ requests' = [requests EXCEPT ![turn].at = "asked"]
           /\ turnStep' = "streaming" /\ UNCHANGED <<drafts, wanted>>
  <2>1. PICK q : q = [requests[turn] EXCEPT !.at = "asked"]
    OBVIOUS
  <2>2. DOMAIN requests' = DOMAIN requests /\ \A k \in DOMAIN requests : requests'[k] = IF k = turn THEN q ELSE requests[k]
    BY <1>2, <1>3, <2>1
  <2>3. requests[turn] \in TurnRequests /\ TurnIsSound(requests[turn])
    BY <1>2
  <2>4. q \in TurnRequests /\ q.refs = requests[turn].refs /\ q.at = "asked"
    BY <2>1, <2>3 DEF TurnRequests, RequestSteps
  <2>5. TurnIsSound(q)
    BY <2>3, <2>4 DEF TurnIsSound
  <2>6. \A k \in DOMAIN requests' : requests'[k] \in TurnRequests /\ TurnIsSound(requests'[k])
    BY <1>2, <2>2, <2>4, <2>5
  <2>7. turn \in DOMAIN requests' /\ requests'[turn].refs = requests[turn].refs
    BY <1>2, <2>2, <2>4
  <2>8. turnStep' \in TurnSteps /\ turnStep' \notin {"opening", "loading"}
    BY <1>3 DEF TurnSteps
  <2>9. QED
    BY <1>1, <1>3, <2>6, <2>7, <2>8, AnswerIsSound
<1>4. CASE requests' = [k \in DOMAIN requests \ {turn} |-> requests[k]] /\ Failed
  <2>1. \A k \in DOMAIN requests' : requests'[k] \in TurnRequests /\ TurnIsSound(requests'[k])
    BY <1>2, <1>4
  <2>2. turnStep' = "idle" /\ turnStep' \in TurnSteps /\ wanted' = {} /\ drafts' \subseteq drafts
    BY <1>4 DEF Failed, TurnSteps
  <2>3. QED
    BY <1>1, <2>1, <2>2, AnswerIsSound
<1>5. QED
  BY <1>3, <1>4 DEF Created

LEMMA PageAnswersAreSound ==
  ASSUME PanelInv, Abort \/ StreamClosed \/ Opened \/ Loaded
  PROVE  PanelInv'
<1>1. UNCHANGED <<versions, selectedTarget, attached, turn, requests>> /\ Busy
  BY DEF Abort, StreamClosed, Opened, Loaded, Busy
<1>2. turn \in DOMAIN requests /\ \A k \in DOMAIN requests : requests[k] \in TurnRequests /\ TurnIsSound(requests[k])
  BY <1>1 DEF PanelInv, PanelTyped, SentApart
<1>3. \A k \in DOMAIN requests' : requests'[k] \in TurnRequests /\ TurnIsSound(requests'[k])
  BY <1>1, <1>2
<1>4. pageRevision' = pageRevision \/ pageRevision' = Revision
  BY DEF Abort, StreamClosed, Opened, Loaded
<1>5. turnStep \in {"opening", "loading"} => requests[turn].at = "ended"
  BY <1>1 DEF PanelInv, SentApart
<1>6. \/ turnStep' = "idle" /\ wanted' = {} /\ drafts' \subseteq drafts
      \/ /\ turnStep' \in {"abandoned", "opening", "loading"} /\ UNCHANGED <<drafts, wanted>>
         /\ turnStep' \in {"opening", "loading"} => requests[turn].at = "ended"
  BY <1>5 DEF Abort, StreamClosed, Opened, Loaded, Failed, Finished
<1>7. turnStep' \in TurnSteps /\ drafts' \subseteq drafts /\ (wanted' = {} \/ wanted' = wanted)
  BY <1>6 DEF TurnSteps
<1>8. turnStep' # "idle" =>
        /\ UNCHANGED <<drafts, wanted, turn>>
        /\ turn \in DOMAIN requests' /\ requests'[turn].refs = requests[turn].refs
        /\ turnStep' \in {"opening", "loading"} => requests'[turn].at = "ended"
  BY <1>1, <1>2, <1>6
<1>9. QED
  BY <1>1, <1>3, <1>4, <1>7, <1>8, AnswerIsSound


(* A step of the server in one turn, which keeps what the turn was sent with.      *)
LEMMA ServerKeeps ==
  ASSUME PanelInv, NEW k \in DOMAIN requests, NEW q \in TurnRequests, TurnIsSound(q),
         q.refs = requests[k].refs, requests[k].at # "ended", ServerStep(k, q),
         VersionsStand, versions' # << >>, Revision' \in Nat, Revision <= Revision'
  PROVE  PanelInv'
<1>1. /\ UNCHANGED <<pageRevision, selectedTarget, drafts, attached, wanted, turnStep, turn>>
      /\ requests' = [requests EXCEPT ![k] = q]
  BY DEF ServerStep, panel, sending
<1>2. DOMAIN requests' = DOMAIN requests /\ \A n \in DOMAIN requests : requests'[n] = IF n = k THEN q ELSE requests[n]
  BY <1>1
<1>3. \A n \in DOMAIN requests' : requests'[n] \in TurnRequests /\ TurnIsSound(requests'[n])
  BY <1>2 DEF PanelInv, PanelTyped
<1>4. pageRevision' \in Nat /\ pageRevision <= pageRevision' /\ pageRevision' <= Revision'
  BY <1>1, RevisionIs DEF PanelInv, PanelTyped
<1>5. drafts' \subseteq drafts /\ wanted' \subseteq Targets /\ turnStep' \in TurnSteps
  BY <1>1 DEF PanelInv, PanelTyped
<1>6. ASSUME Busy' PROVE SentApart'
  <2>1. SentApart
    BY <1>1, <1>6 DEF PanelInv, Busy
  <2>2. turn' \in DOMAIN requests' /\ requests'[turn'].refs = requests[turn].refs /\ SentIds' = SentIds
    BY <1>1, <1>2, <2>1 DEF SentApart, SentIds
  <2>3. turnStep' \in {"opening", "loading"} => requests'[turn'].at = "ended"
    BY <1>1, <1>2, <2>1 DEF SentApart
  <2>4. QED
    BY <1>1, <2>1, <2>2, <2>3 DEF SentApart
<1>7. QED
  BY <1>1, <1>3, <1>4, <1>5, <1>6, AnswerKeeps

LEMMA ServerIsSound ==
  ASSUME PanelInv, NEW k \in DOMAIN requests,
         RefuseTurn(k) \/ Build(k) \/ Resolve(k) \/ RecordTurn(k) \/ Settle(k)
  PROVE  PanelInv'
<1>1. requests[k] \in TurnRequests /\ TurnIsSound(requests[k])
  BY DEF PanelInv, PanelTyped
<1>2. PICK old : old = requests[k]
  OBVIOUS
<1>3. /\ old \in TurnRequests /\ TurnIsSound(old)
      /\ old.refs \subseteq References /\ old.context \in Nat
  BY <1>1, <1>2 DEF TurnRequests
<1>4. Revision \in Nat /\ PanelTyped /\ versions # << >> /\ versions \in Seq(SUBSET Target)
  BY RevisionIs DEF PanelInv, PanelTyped
<1>5. ASSUME UNCHANGED versions
      PROVE  VersionsStand /\ versions' # << >> /\ Revision' \in Nat /\ Revision <= Revision'
  BY <1>4, <1>5, VersionsStay DEF Revision
<1>6. CASE RefuseTurn(k)
  <2>1. PICK q : q = [old EXCEPT !.at = "refused"]
    OBVIOUS
  <2>2. q \in TurnRequests /\ q.refs = old.refs /\ q.at = "refused"
    BY <1>3, <2>1 DEF TurnRequests, RequestSteps
  <2>3. TurnIsSound(q)
    BY <1>3, <2>2 DEF TurnIsSound
  <2>4. old.at = "asked" /\ ServerStep(k, q) /\ UNCHANGED versions
    BY <1>2, <1>6, <2>1 DEF RefuseTurn
  <2>5. QED
    BY <1>2, <1>5, <2>2, <2>3, <2>4, ServerKeeps
<1>7. CASE Build(k)
  <2>1. PICK q : q = [old EXCEPT !.at = "built", !.context = Revision]
    OBVIOUS
  <2>2. q \in TurnRequests /\ q.refs = old.refs /\ q.at = "built" /\ q.context = Revision
    BY <1>3, <1>4, <2>1 DEF TurnRequests, RequestSteps
  <2>3. TurnIsSound(q)
    BY <1>3, <1>4, <2>2 DEF TurnIsSound
  <2>4. old.at = "asked" /\ ServerStep(k, q) /\ UNCHANGED versions
    BY <1>2, <1>7, <2>1 DEF Build
  <2>5. QED
    BY <1>2, <1>5, <2>2, <2>3, <2>4, ServerKeeps
<1>8. CASE Resolve(k)
  <2>1. PICK all : all = \A r \in old.refs : Resolves(r, Revision)
    OBVIOUS
  <2>2. PICK q : q = [old EXCEPT !.at = IF all THEN "resolved" ELSE "refused",
                                 !.resolved = IF old.refs = {} THEN old.context ELSE Revision]
    OBVIOUS
  <2>3. /\ q \in TurnRequests /\ q.refs = old.refs /\ q.context = old.context
        /\ q.at = IF all THEN "resolved" ELSE "refused"
        /\ q.resolved = IF old.refs = {} THEN old.context ELSE Revision
    BY <1>3, <1>4, <2>2 DEF TurnRequests, RequestSteps
  <2>4. old.at = "built" /\ ServerStep(k, q) /\ UNCHANGED versions
    BY <1>2, <1>8, <2>1, <2>2 DEF Resolve
  <2>5. /\ \A r \in old.refs : r.id <= attached /\ r.base <= Revision
        /\ old.context <= Revision /\ \A r \in old.refs : r.base <= old.context
    BY <1>3, <2>4 DEF TurnIsSound
  <2>6. ASSUME all
        PROVE  /\ q.resolved = q.context
               /\ \A r \in q.refs : r.base = q.context /\ Exists(r.target, q.context)
    <3>1. \A r \in old.refs : r.base = Revision /\ Exists(r.target, Revision)
      BY <2>1, <2>6 DEF Resolves
    <3>2. CASE old.refs = {}
      BY <2>3, <3>2
    <3>3. CASE old.refs # {}
      <4>1. old.context = Revision
        BY <1>3, <1>4, <2>5, <3>1, <3>3
      <4>2. QED
        BY <2>3, <3>1, <3>3, <4>1
    <3>4. QED
      BY <3>2, <3>3
  <2>7. TurnIsSound(q)
    <3>1. CASE all
      BY <2>3, <2>5, <2>6, <3>1 DEF TurnIsSound
    <3>2. CASE ~all
      BY <2>3, <2>5, <3>2 DEF TurnIsSound
    <3>3. QED
      BY <3>1, <3>2
  <2>8. QED
    BY <1>2, <1>5, <2>3, <2>4, <2>7, ServerKeeps
<1>9. CASE RecordTurn(k)
  <2>1. PICK q : q = [old EXCEPT !.at = "running"]
    OBVIOUS
  <2>2. /\ q \in TurnRequests /\ q.refs = old.refs /\ q.at = "running"
        /\ q.context = old.context /\ q.resolved = old.resolved
    BY <1>3, <2>1 DEF TurnRequests, RequestSteps
  <2>3. old.at = "resolved" /\ ServerStep(k, q) /\ UNCHANGED versions
    BY <1>2, <1>9, <2>1 DEF RecordTurn
  <2>4. TurnIsSound(q)
    BY <1>3, <2>2, <2>3 DEF TurnIsSound
  <2>5. QED
    BY <1>2, <1>5, <2>2, <2>3, <2>4, ServerKeeps
<1>10. CASE Settle(k)
  <2>1. PICK applied \in BOOLEAN :
          /\ versions' = IF applied THEN Append(versions, TargetsAt(Revision)) ELSE versions
          /\ ServerStep(k, [requests[k] EXCEPT !.at = "ended", !.applied = applied])
    BY <1>10 DEF Settle
  <2>2. PICK q : q = [old EXCEPT !.at = "ended", !.applied = applied]
    OBVIOUS
  <2>3. /\ q \in TurnRequests /\ q.refs = old.refs /\ q.at = "ended"
        /\ q.context = old.context /\ q.resolved = old.resolved
    BY <1>3, <2>1, <2>2 DEF TurnRequests, RequestSteps
  <2>4. old.at = "running" /\ ServerStep(k, q)
    BY <1>2, <1>10, <2>1, <2>2 DEF Settle
  <2>5. TurnIsSound(q)
    BY <1>3, <2>3, <2>4 DEF TurnIsSound
  <2>6. VersionsStand /\ versions' # << >> /\ Revision' \in Nat /\ Revision <= Revision'
    <3>1. CASE applied
      <4>1. TargetsAt(Revision) \in SUBSET Target
        BY <1>4, RevisionIs DEF TargetsAt
      <4>2. versions' = Append(versions, TargetsAt(Revision))
        BY <2>1, <3>1
      <4>3. VersionsStand /\ versions' # << >> /\ Len(versions') = Len(versions) + 1
        BY <1>4, <4>1, <4>2 DEF VersionsStand
      <4>4. QED
        BY <1>4, <4>3 DEF Revision
    <3>2. CASE ~applied
      BY <1>5, <2>1, <3>2
    <3>3. QED
      BY <3>1, <3>2
  <2>7. QED
    BY <1>2, <2>3, <2>4, <2>5, <2>6, ServerKeeps
<1>11. QED
  BY <1>6, <1>7, <1>8, <1>9, <1>10


LEMMA PanelInitSound == ASSUME PanelInit PROVE PanelInv
<1>1. /\ versions = <<{t \in Target : t.kind \in PlacedKinds}>> /\ pageRevision = 0 /\ selectedTarget = {}
      /\ drafts = {} /\ attached = 0 /\ turnStep = "idle" /\ requests = << >> /\ wanted = {}
  BY DEF PanelInit
<1>2. versions \in Seq(SUBSET Target) /\ versions # << >> /\ Len(versions) = 1
  BY <1>1
<1>3. Revision = 0
  BY <1>2 DEF Revision
<1>4. DOMAIN requests = {}
  BY <1>1
<1>5. PanelTyped
  BY <1>1, <1>2, <1>3, <1>4 DEF PanelTyped, TurnSteps
<1>6. DraftsAreKnown /\ ~Busy
  BY <1>1 DEF DraftsAreKnown, Busy
<1>7. QED
  BY <1>4, <1>5, <1>6 DEF PanelInv

LEMMA PanelStepIsSound == ASSUME ~Reselects, PanelInv, [PanelStep]_panelVars PROVE PanelInv'
<1>1. CASE Change
  BY <1>1, ChangeIsSound
<1>2. CASE ShowLatest
  BY <1>2, ShowIsSound
<1>3. CASE User
  <2>1. ASSUME NEW t \in Target, Select(t) PROVE PanelInv'
    BY <2>1, SelectIsSound
  <2>2. ASSUME NEW r \in drafts, RemoveContext(r) PROVE PanelInv'
    BY <2>2, RemoveIsSound
  <2>3. QED
    BY <1>3, <2>1, <2>2, SelectionIsSound, AddIsSound, SendIsSound, PageAnswersAreSound DEF User
<1>4. CASE PageStep
  BY <1>4, CreatedIsSound, PageAnswersAreSound DEF PageStep
<1>5. CASE ServerSide
  BY <1>5, ServerIsSound DEF ServerSide
<1>6. CASE UNCHANGED panelVars
  <2>1. /\ UNCHANGED <<versions, pageRevision, selectedTarget, attached, drafts, wanted, turnStep, turn, requests>>
    BY <1>6 DEF panelVars, panel, sending
  <2>2. VersionsStand /\ versions' # << >>
    BY <2>1, VersionsStay DEF PanelInv, PanelTyped
  <2>3. pageRevision' \in Nat /\ pageRevision <= pageRevision' /\ pageRevision' <= Revision'
    BY <2>1 DEF PanelInv, PanelTyped, Revision
  <2>4. UNCHANGED <<panel, sending, requests>>
    BY <1>6 DEF panelVars
  <2>5. QED
    BY <2>2, <2>3, <2>4, ProjectKeeps
<1>7. QED
  BY <1>1, <1>2, <1>3, <1>4, <1>5, <1>6 DEF PanelStep

LEMMA PanelIsGrounded == ASSUME PanelInv PROVE GroundedTogether
<1>1. SUFFICES ASSUME NEW k \in DOMAIN requests, Grounded(requests[k])
      PROVE  /\ requests[k].resolved = requests[k].context
             /\ \A r \in requests[k].refs :
                  r.base = requests[k].context /\ Exists(r.target, requests[k].context)
  BY DEF GroundedTogether
<1>2. TurnIsSound(requests[k]) /\ requests[k].at \in {"running", "ended"}
  BY <1>1 DEF PanelInv, Grounded
<1>3. QED
  BY <1>2 DEF TurnIsSound

(* The end of a turn that took effect takes off what was sent, by number.          *)
LEMMA FinishedKeepsDrafts ==
  ASSUME PanelInv, turnStep \in {"opening", "loading"}, Failed \/ Finished
  PROVE  DraftsAreKept
<1>1. SentApart
  BY DEF PanelInv, Busy
<1>2. CASE Failed
  BY <1>1, <1>2 DEF Failed, DraftsAreKept, SentApart
<1>3. CASE Finished
  <2>1. drafts' = {r \in drafts : r.id \notin SentIds}
    BY <1>3 DEF Finished, SentIds
  <2>2. requests[turn].at = "ended"
    BY <1>1 DEF SentApart
  <2>3. ASSUME NEW r \in drafts \ drafts'
        PROVE  Grounded(requests[turn]) /\ r \in requests[turn].refs
    <3>1. PICK s \in requests[turn].refs : r.id = s.id
      BY <2>1 DEF SentIds
    <3>2. r = s
      BY <1>1, <3>1 DEF SentApart
    <3>3. QED
      BY <2>2, <3>2 DEF Grounded
  <2>4. \A t \in wanted : \E r \in drafts' : r.target = t
    BY <1>1, <2>1 DEF SentApart
  <2>5. QED
    BY <2>3, <2>4 DEF DraftsAreKept
<1>4. QED
  BY <1>2, <1>3

LEMMA StepsKeepDrafts == ASSUME PanelInv, [PanelStep]_panelVars PROVE DraftsAreKept
<1>1. SUFFICES ASSUME turnStep' = "idle", turnStep # "idle" PROVE DraftsAreKept
  BY DEF DraftsAreKept
<1>2. SentApart
  BY <1>1 DEF PanelInv, Busy
<1>3. ASSUME UNCHANGED drafts PROVE DraftsAreKept
  BY <1>2, <1>3 DEF DraftsAreKept, SentApart
<1>4. User \/ PageStep
  BY <1>1 DEF PanelStep, panelVars, sending, Change, ShowLatest, ServerSide, RefuseTurn, Build, Resolve,
              RecordTurn, Settle, ServerStep
<1>5. CASE User
  BY <1>1, <1>3, <1>5 DEF User, Busy, Select, ClearSelection, ToggleMode, AddCurrentContext, RemoveContext,
                          SendTurn, Abort, Failed, sending
<1>6. CASE Created \/ StreamClosed
  BY <1>1, <1>3, <1>6 DEF Created, StreamClosed, Failed
<1>7. CASE Opened \/ Loaded
  BY <1>1, <1>7, FinishedKeepsDrafts DEF Opened, Loaded
<1>8. QED
  BY <1>4, <1>5, <1>6, <1>7 DEF PageStep

(* For any number of targets, references, changes, turns and sends, where a user   *)
(* does not select again what the turn under way was sent with: what a recorded    *)
(* turn refers to was there at the one revision it is grounded in, and the end of a *)
(* turn takes off the drafts what a recorded turn carries and nothing else.        *)
THEOREM PanelStaysTrue == ~Reselects => (PanelSpec => PanelIsTrue)
<1>1. SUFFICES ASSUME ~Reselects PROVE PanelSpec => PanelIsTrue
  OBVIOUS
<1>2. PanelInv /\ [PanelStep]_panelVars => PanelInv'
  BY <1>1, PanelStepIsSound
<1>3. PanelInv /\ PanelInv' /\ [PanelStep]_panelVars => [GroundedTogether' /\ DraftsAreKept]_panelVars
  <2>1. PanelInv => GroundedTogether
    BY PanelIsGrounded
  <2>2. PanelInv' => GroundedTogether'
    BY <2>1, PTL
  <2>3. PanelInv /\ [PanelStep]_panelVars => DraftsAreKept
    BY StepsKeepDrafts
  <2>4. QED
    BY <2>2, <2>3
<1>4. QED
  BY <1>2, <1>3, PanelInitSound, PTL DEF PanelSpec, PanelIsTrue

-------------------------------------------------------------------------------
(* The bridge (module McpBridge): its status, and the calls.                      *)
Beginning(a) == a.op = "start" /\ a.of # None /\ server = None /\ listening = {} /\ address = None
Ending(a) == a.op = "stop" /\ server = None /\ listening = {}
Told3 == {"ready", "connected", "disconnected"}

(* The page's calls come one at a time, and the status says what is there between.  *)
StatusInv ==
  /\ created \in Nat
  /\ \A a \in admin : Beginning(a) \/ Ending(a)
  /\ \A a, b \in admin : a = b
  /\ admin = {} =>
       /\ status \in Told3 <=> server # None
       /\ listening = IF server = None THEN {} ELSE {server}
       /\ address = server

Flying == {"body", "context", "race"}
UnderWay == {r \in Request : InFlight(r)}
RequestShape(q) ==
  q = [at |-> q.at, kind |-> q.kind, key |-> q.key, to |-> q.to,
       project |-> q.project, asked |-> q.asked, tool |-> q.tool, answer |-> q.answer]

(* A tool works for the project and the credential its request was let in with,     *)
(* and has proposed nothing as long as it works.                                   *)
Sound(r, q, made, there) ==
  /\ RequestShape(q)
  /\ q.at \in {"context", "race"} \/ q.tool # "none" => q.project = q.asked
  /\ q.tool # "none" => q.at \in {"race", "end"} /\ q.answer # "told" /\ made = {}
  /\ q.at # "end" => q.answer = "" /\ made = {}
  /\ q.tool = "propose" => <<q.project, q.key>> \in there
  /\ q.tool = "read" => q.kind = "read"
  /\ q.answer = "told" => made = {}
  /\ q.answer = "success" /\ q.kind = "propose" => made # {}
  /\ made \subseteq {[of |-> r, session |-> <<q.asked, q.key>>]}
  /\ made # {} => <<q.asked, q.key>> \in there

CallsInv ==
  /\ request = [r \in Request |-> request[r]]
  /\ IsFiniteSet(UnderWay) /\ activeRequests = Cardinality(UnderWay) /\ activeRequests <= Concurrency
  /\ \A r \in Request : Sound(r, request[r], MadeBy(r), sessions)

(* Where the calls of the page wait for one another.                              *)
LEMMA StatusInitSound == ASSUME BridgeInit PROVE StatusInv
BY DEF BridgeInit, StatusInv, Told3

LEMMA ObservedKeepsStatus ==
  ASSUME NEW r, StatusInv, Observed(r), UNCHANGED <<admin, server, listening, address, created>>
  PROVE  StatusInv'
<1>1. status' \in Told3 <=> status \in Told3
  BY DEF Observed, Told3
<1>2. QED
  BY <1>1 DEF StatusInv, Beginning, Ending

LEMMA StatusKeeps ==
  ASSUME StatusInv, UNCHANGED <<admin, server, listening, address, status, created>> PROVE StatusInv'
BY DEF StatusInv, Beginning, Ending

LEMMA StatusStep == ASSUME Serial, StatusInv, [BridgeNext]_bridgeVars PROVE StatusInv'
<1>1. CASE StartServer
  <2>1. admin = {} /\ server = None /\ server' = server /\ listening' = listening /\ address' = address
    BY <1>1 DEF StartServer, Quiet
  <2>2. listening = {} /\ address = None
    BY <2>1 DEF StatusInv
  <2>3. PICK a : a = [op |-> "start", of |-> created + 1]
    OBVIOUS
  <2>6. created' = created + 1 /\ admin' = {a} /\ created' \in Nat
    BY <1>1, <2>1, <2>3 DEF StartServer, StatusInv
  <2>7. a.op = "start" /\ a.of # None
    <3>1. created + 1 \in 1..MaxServers
      BY <1>1, BridgeAssumption DEF StartServer, StatusInv
    <3>2. QED
      BY <2>3, <3>1, BridgeAssumption
  <2>4. Beginning(a)'
    BY <2>1, <2>2, <2>7 DEF Beginning
  <2>5. QED
    BY <2>4, <2>6 DEF StatusInv
<1>2. CASE Started
  <2>1. PICK a \in admin : a.op = "start" /\ admin' = admin \ {a} /\ (Bound(a) \/ NotBound(a)) /\ created' = created
    BY <1>2 DEF Started
  <2>2. admin' = {}
    BY <2>1 DEF StatusInv
  <2>3. server = None /\ listening = {} /\ address = None /\ a.of # None
    BY <2>1 DEF StatusInv, Beginning, Ending
  <2>4. CASE NotBound(a)
    BY <2>1, <2>2, <2>3, <2>4 DEF NotBound, StatusInv, Told3
  <2>5. CASE Bound(a)
    <3>1. server' = a.of /\ listening' = {a.of} /\ address' = a.of /\ status' = "ready"
      BY <2>3, <2>5 DEF Bound
    <3>2. QED
      BY <2>1, <2>2, <2>3, <3>1 DEF StatusInv, Told3
  <2>6. QED
    BY <2>1, <2>4, <2>5
<1>3. CASE Stop
  <2>1. admin = {} /\ server' = None
    BY <1>3 DEF Stop, Quiet
  <2>2. listening = IF server = None THEN {} ELSE {server}
    BY <2>1 DEF StatusInv
  <2>3. CASE server = None
    <3>1. address' = None /\ status' = "stopped" /\ admin' = admin /\ listening' = {} /\ created' = created
      BY <1>3, <2>2, <2>3 DEF Stop
    <3>2. QED
      BY <2>1, <3>1 DEF StatusInv, Told3
  <2>4. CASE server # None
    <3>1. PICK a : a = [op |-> "stop", of |-> server]
      OBVIOUS
    <3>5. admin' = {a} /\ a.op = "stop" /\ created' = created
      BY <1>3, <2>1, <2>4, <3>1 DEF Stop
    <3>2. listening' = {}
      BY <1>3, <2>2, <2>4 DEF Stop
    <3>3. Ending(a)'
      BY <2>1, <3>5, <3>2 DEF Ending
    <3>4. QED
      BY <3>3, <3>5 DEF StatusInv
  <2>5. QED
    BY <2>3, <2>4
<1>4. CASE Stopped
  <2>1. PICK a \in admin : /\ a.op = "stop" /\ admin' = admin \ {a} /\ address' = None /\ status' = "stopped"
                          /\ UNCHANGED <<server, listening, created>>
    BY <1>4 DEF Stopped
  <2>2. admin' = {} /\ server = None /\ listening = {}
    BY <2>1 DEF StatusInv, Beginning, Ending
  <2>3. QED
    BY <2>1, <2>2 DEF StatusInv, Told3
<1>5. CASE \/ IssueCredential \/ RotateCredential \/ RevokeCredential \/ SyncContext \/ ClearContext
           \/ \E c \in Credential : MinutePasses(c)
  <2>1. UNCHANGED <<admin, server, listening, address, status, created>>
    BY <1>5 DEF IssueCredential, RotateCredential, Issue, RevokeCredential, SyncContext, ClearContext,
                MinutePasses, listener
  <2>2. QED
    BY <2>1, StatusKeeps
<1>6. ASSUME NEW r \in Request, BridgeRequest(r) PROVE StatusInv'
  <2>1. UNCHANGED <<admin, server, listening, address, created>>
    BY <1>6 DEF BridgeRequest, Send, Received, ContextBuilt, ContextFails, Timeout, CallerLeaves,
                LookForSession, CreateSession, Propose, ReadContext, ToolFails, listener
  <2>2. Observed(r) \/ UNCHANGED status
    <3>1. CASE Send(r) \/ ContextFails(r) \/ LookForSession(r) \/ CreateSession(r)
      BY <3>1 DEF Send, ContextFails, LookForSession, CreateSession, listener
    <3>2. CASE Received(r)
      BY <3>2 DEF Received
    <3>3. CASE ContextBuilt(r) \/ Timeout(r)
      BY <3>3 DEF ContextBuilt, Timeout
    <3>4. CASE CallerLeaves(r)
      BY <3>4 DEF CallerLeaves
    <3>5. CASE Propose(r) \/ ReadContext(r) \/ ToolFails(r)
      BY <3>5 DEF Propose, ReadContext, ToolFails, ToolEnds
    <3>6. QED
      BY <1>6, <3>1, <3>2, <3>3, <3>4, <3>5 DEF BridgeRequest
  <2>3. QED
    BY <2>1, <2>2, StatusKeeps, ObservedKeepsStatus
<1>7. CASE UNCHANGED bridgeVars
  BY <1>7, StatusKeeps DEF bridgeVars, listener
<1>8. QED
  BY <1>1, <1>2, <1>3, <1>4, <1>5, <1>6, <1>7 DEF BridgeNext, BridgeAdmin


(* The calls: the place of one request changes.                                   *)
LEMMA PlacesKeep ==
  ASSUME CallsInv, NEW r \in Request, NEW q, request' = [request EXCEPT ![r] = q],
         \/ (q.at \in Flying <=> request[r].at \in Flying) /\ activeRequests' = activeRequests
         \/ /\ q.at \in Flying /\ request[r].at \notin Flying
            /\ activeRequests' = activeRequests + 1 /\ activeRequests < Concurrency
         \/ q.at \notin Flying /\ request[r].at \in Flying /\ activeRequests' = activeRequests - 1
  PROVE  IsFiniteSet(UnderWay') /\ activeRequests' = Cardinality(UnderWay') /\ activeRequests' <= Concurrency
<1>1. IsFiniteSet(UnderWay) /\ activeRequests = Cardinality(UnderWay) /\ activeRequests <= Concurrency
  BY DEF CallsInv
<1>2. activeRequests \in Nat /\ Concurrency \in Nat
  BY <1>1, FS_CardinalityType, BridgeAssumption
<1>3. \A x \in Request : request'[x] = IF x = r THEN q ELSE request[x]
  BY DEF CallsInv
<1>4. r \in UnderWay <=> request[r].at \in Flying
  BY DEF UnderWay, InFlight, Flying
<1>5. CASE (q.at \in Flying <=> request[r].at \in Flying) /\ activeRequests' = activeRequests
  <2>1. UnderWay' = UnderWay
    BY <1>3, <1>5 DEF UnderWay, InFlight, Flying
  <2>2. QED
    BY <1>1, <1>5, <2>1
<1>6. CASE /\ q.at \in Flying /\ request[r].at \notin Flying
           /\ activeRequests' = activeRequests + 1 /\ activeRequests < Concurrency
  <2>1. UnderWay' = UnderWay \cup {r}
    BY <1>3, <1>6 DEF UnderWay, InFlight, Flying
  <2>2. r \notin UnderWay
    BY <1>4, <1>6
  <2>3. IsFiniteSet(UnderWay \cup {r}) /\ Cardinality(UnderWay \cup {r}) = Cardinality(UnderWay) + 1
    BY <1>1, <2>2, FS_AddElement
  <2>4. QED
    BY <1>1, <1>2, <1>6, <2>1, <2>3
<1>7. CASE q.at \notin Flying /\ request[r].at \in Flying /\ activeRequests' = activeRequests - 1
  <2>1. UnderWay' = UnderWay \ {r}
    BY <1>3, <1>7 DEF UnderWay, InFlight, Flying
  <2>2. r \in UnderWay
    BY <1>4, <1>7
  <2>3. IsFiniteSet(UnderWay \ {r}) /\ Cardinality(UnderWay \ {r}) = Cardinality(UnderWay) - 1
    BY <1>1, <2>2, FS_RemoveElement
  <2>4. QED
    BY <1>1, <1>2, <1>7, <2>1, <2>3
<1>8. QED
  BY <1>5, <1>6, <1>7

LEMMA RequestKeeps ==
  ASSUME CallsInv, NEW r \in Request, NEW q, request' = [request EXCEPT ![r] = q],
         sessions \subseteq sessions',
         editProposals \subseteq editProposals', \A p \in editProposals' : p \in editProposals \/ p.of = r,
         Sound(r, q, MadeBy(r)', sessions'),
         \/ (q.at \in Flying <=> request[r].at \in Flying) /\ activeRequests' = activeRequests
         \/ /\ q.at \in Flying /\ request[r].at \notin Flying
            /\ activeRequests' = activeRequests + 1 /\ activeRequests < Concurrency
         \/ q.at \notin Flying /\ request[r].at \in Flying /\ activeRequests' = activeRequests - 1
  PROVE  CallsInv'
<1>1. request' = [x \in Request |-> request'[x]] /\ \A x \in Request : request'[x] = IF x = r THEN q ELSE request[x]
  BY DEF CallsInv
<1>2. ASSUME NEW x \in Request PROVE Sound(x, request'[x], MadeBy(x)', sessions')
  <2>1. CASE x = r
    BY <1>1, <2>1
  <2>2. CASE x # r
    <3>1. MadeBy(x)' = MadeBy(x)
      BY <2>2 DEF MadeBy
    <3>2. Sound(x, request[x], MadeBy(x), sessions)
      BY DEF CallsInv
    <3>3. Sound(x, request[x], MadeBy(x), sessions')
      BY <3>2 DEF Sound
    <3>4. QED
      BY <1>1, <2>2, <3>1, <3>3
  <2>3. QED
    BY <2>1, <2>2
<1>3. IsFiniteSet(UnderWay') /\ activeRequests' = Cardinality(UnderWay') /\ activeRequests' <= Concurrency
  BY PlacesKeep
<1>4. QED
  BY <1>1, <1>2, <1>3 DEF CallsInv

(* What no request has a part in.                                                 *)
LEMMA OthersKeepCalls == ASSUME CallsInv, UNCHANGED <<calls, durable>> PROVE CallsInv'
<1>1. UNCHANGED <<activeRequests, request, sessions, editProposals>>
  BY DEF calls, durable
<1>2. UnderWay' = UnderWay /\ \A r \in Request : MadeBy(r)' = MadeBy(r)
  BY <1>1 DEF UnderWay, InFlight, MadeBy
<1>3. QED
  BY <1>1, <1>2 DEF CallsInv

LEMMA OneRequest == ASSUME CallsInv, NEW r \in Request PROVE Sound(r, request[r], MadeBy(r), sessions)
BY DEF CallsInv

LEMMA NothingProposed ==
  ASSUME UNCHANGED durable
  PROVE  /\ sessions' = sessions /\ editProposals' = editProposals
         /\ \A r \in Request : MadeBy(r)' = MadeBy(r)
BY DEF durable, MadeBy

(* A request that is answered before it has reached a tool.                        *)
LEMMA ToldIsSound ==
  ASSUME CallsInv, NEW r \in Request, request[r].at # "end", request' = [request EXCEPT ![r] = Told], UNCHANGED durable,
         \/ request[r].at \in Flying /\ activeRequests' = activeRequests - 1
         \/ request[r].at \notin Flying /\ activeRequests' = activeRequests
  PROVE  CallsInv'
<1>1. PICK q : q = Told
  OBVIOUS
<1>2. q = [at |-> "end", kind |-> "", key |-> 0, to |-> None,
           project |-> None, asked |-> None, tool |-> "none", answer |-> "told"]
  BY <1>1 DEF Told, Unsent
<1>3. MadeBy(r)' = {} /\ sessions' = sessions /\ editProposals' = editProposals
  BY OneRequest, NothingProposed DEF Sound
<1>4. Sound(r, q, MadeBy(r)', sessions')
  <2>1. q.at = "end" /\ q.tool = "none" /\ q.answer = "told"
    BY <1>2
  <2>2. RequestShape(q)
    BY <1>2 DEF RequestShape
  <2>3. QED
    BY <1>3, <2>1, <2>2 DEF Sound
<1>5. request' = [request EXCEPT ![r] = q]
  BY <1>1
<1>6. q.at = "end"
  BY <1>2
<1>7. q.at \notin Flying
  BY <1>6 DEF Flying
<1>8. QED
  BY <1>3, <1>4, <1>5, <1>7, RequestKeeps

LEMMA SendKeeps == ASSUME CallsInv, NEW r \in Request, Send(r) PROVE CallsInv'
<1>1. request[r].at = "unsent" /\ UNCHANGED durable
  BY DEF Send
<1>2. PICK s \in listening, k \in RequestKinds, c \in 1..issued :
        IF RateAllowed(c) /\ Room
        THEN /\ activeRequests' = activeRequests + 1
             /\ request' = [request EXCEPT ![r].at = "body", ![r].kind = k, ![r].key = c, ![r].to = s]
        ELSE /\ request' = [request EXCEPT ![r] = Told]
             /\ UNCHANGED activeRequests
  BY DEF Send
<1>3. CASE RateAllowed(c) /\ Room
  <2>1. PICK old : old = request[r]
    OBVIOUS
  <2>2. PICK q : q = [old EXCEPT !.at = "body", !.kind = k, !.key = c, !.to = s]
    OBVIOUS
  <2>3. Sound(r, old, MadeBy(r), sessions) /\ old.at = "unsent"
    BY <1>1, <2>1, OneRequest
  <2>4. RequestShape(q) /\ q.at = "body" /\ q.tool = old.tool /\ q.answer = old.answer
    BY <2>2, <2>3 DEF Sound, RequestShape
  <2>5. request' = [request EXCEPT ![r] = q]
    BY <1>2, <1>3, <2>1, <2>2 DEF CallsInv
  <2>6. MadeBy(r)' = MadeBy(r) /\ sessions' = sessions /\ editProposals' = editProposals
    BY <1>1, NothingProposed
  <2>7. Sound(r, q, MadeBy(r)', sessions')
    BY <2>3, <2>4, <2>6 DEF Sound
  <2>8. q.at \in Flying /\ request[r].at \notin Flying /\ activeRequests' = activeRequests + 1 /\ activeRequests < Concurrency
    BY <1>1, <1>2, <1>3, <2>4 DEF Flying, Room
  <2>9. QED
    BY <2>5, <2>6, <2>7, <2>8, RequestKeeps
<1>4. CASE ~(RateAllowed(c) /\ Room)
  <2>1. request[r].at # "end" /\ request[r].at \notin Flying
    BY <1>1 DEF Flying
  <2>2. QED
    BY <1>1, <1>2, <1>4, <2>1, ToldIsSound
<1>5. QED
  BY <1>3, <1>4

LEMMA ReceivedKeeps == ASSUME CallsInv, NEW r \in Request, Received(r) PROVE CallsInv'
<1>1. request[r].at = "body" /\ UNCHANGED durable /\ request[r].at \in Flying /\ request[r].at # "end"
  BY DEF Received, Flying
<1>2. CASE ToldNow(r)
  BY <1>1, <1>2, ToldIsSound DEF ToldNow, Free
<1>3. CASE /\ request' = [request EXCEPT ![r].at = "context", ![r].project = active, ![r].asked = active]
           /\ UNCHANGED activeRequests
  <2>1. PICK old : old = request[r]
    OBVIOUS
  <2>2. PICK q : q = [old EXCEPT !.at = "context", !.project = active, !.asked = active]
    OBVIOUS
  <2>3. Sound(r, old, MadeBy(r), sessions) /\ old.at = "body"
    BY <1>1, <2>1, OneRequest
  <2>4. RequestShape(q) /\ q.at = "context" /\ q.tool = old.tool /\ q.answer = old.answer /\ q.project = q.asked
    BY <2>2, <2>3 DEF Sound, RequestShape
  <2>5. request' = [request EXCEPT ![r] = q]
    BY <1>3, <2>1, <2>2 DEF CallsInv
  <2>6. MadeBy(r)' = MadeBy(r) /\ sessions' = sessions /\ editProposals' = editProposals
    BY <1>1, NothingProposed
  <2>7. Sound(r, q, MadeBy(r)', sessions')
    BY <2>3, <2>4, <2>6 DEF Sound
  <2>8. q.at \in Flying
    BY <2>4 DEF Flying
  <2>9. QED
    BY <1>1, <1>3, <2>5, <2>6, <2>7, <2>8, RequestKeeps
<1>4. QED
  BY <1>2, <1>3 DEF Received


LEMMA ContextKeeps == ASSUME CallsInv, NEW r \in Request, ContextBuilt(r) \/ ContextFails(r) PROVE CallsInv'
<1>1. request[r].at = "context" /\ UNCHANGED durable /\ request[r].at \in Flying /\ request[r].at # "end"
  BY DEF ContextBuilt, ContextFails, Flying
<1>2. CASE ToldNow(r)
  BY <1>1, <1>2, ToldIsSound DEF ToldNow, Free
<1>3. CASE /\ request' = [request EXCEPT ![r].at = "race", ![r].project = ContextOf(r),
                             ![r].tool = IF request[r].kind = "read" THEN "read" ELSE "look"]
           /\ UNCHANGED activeRequests
  <2>1. PICK old : old = request[r]
    OBVIOUS
  <2>2. PICK q : q = [old EXCEPT !.at = "race", !.project = old.project, !.tool = IF old.kind = "read" THEN "read" ELSE "look"]
    OBVIOUS
  <2>3. Sound(r, old, MadeBy(r), sessions) /\ old.at = "context"
    BY <1>1, <2>1, OneRequest
  <2>4. /\ RequestShape(q) /\ q.at = "race" /\ q.tool = (IF old.kind = "read" THEN "read" ELSE "look")
        /\ q.answer = old.answer /\ q.project = old.project /\ q.asked = old.asked /\ q.kind = old.kind
    BY <2>2, <2>3 DEF Sound, RequestShape
  <2>5. request' = [request EXCEPT ![r] = q]
    BY <1>3, <2>1, <2>2 DEF CallsInv, ContextOf
  <2>6. MadeBy(r)' = MadeBy(r) /\ sessions' = sessions /\ editProposals' = editProposals
    BY <1>1, NothingProposed
  <2>7. Sound(r, q, MadeBy(r)', sessions')
    BY <2>3, <2>4, <2>6 DEF Sound
  <2>8. q.at \in Flying
    BY <2>4 DEF Flying
  <2>9. QED
    BY <1>1, <1>3, <2>5, <2>6, <2>7, <2>8, RequestKeeps
<1>4. QED
  BY <1>2, <1>3 DEF ContextBuilt, ContextFails

(* A call that is answered while its tool may go on.                               *)
LEMMA AnsweredIsSound ==
  ASSUME CallsInv, NEW r \in Request, NEW answer \in {"timeout", "cancelled"},
         request[r].at = "race", Answered(r, answer), UNCHANGED durable
  PROVE  CallsInv'
<1>1. PICK old : old = request[r]
  OBVIOUS
<1>2. PICK q : q = [old EXCEPT !.at = "end", !.to = None, !.answer = answer]
  OBVIOUS
<1>3. Sound(r, old, MadeBy(r), sessions) /\ old.at = "race"
  BY <1>1, OneRequest
<1>4. /\ RequestShape(q) /\ q.at = "end" /\ q.tool = old.tool /\ q.answer = answer
      /\ q.project = old.project /\ q.asked = old.asked /\ q.kind = old.kind /\ q.key = old.key
  BY <1>2, <1>3 DEF Sound, RequestShape
<1>5. request' = [request EXCEPT ![r] = q]
  BY <1>1, <1>2 DEF CallsInv, Answered
<1>6. MadeBy(r)' = MadeBy(r) /\ sessions' = sessions /\ editProposals' = editProposals
  BY NothingProposed
<1>7. Sound(r, q, MadeBy(r)', sessions')
  BY <1>3, <1>4, <1>6 DEF Sound
<1>8. q.at \notin Flying /\ request[r].at \in Flying /\ activeRequests' = activeRequests - 1
  BY <1>4 DEF Flying, Answered, Free
<1>9. QED
  BY <1>5, <1>6, <1>7, <1>8, RequestKeeps

LEMMA LeavesKeeps == ASSUME CallsInv, NEW r \in Request, CallerLeaves(r) \/ Timeout(r) PROVE CallsInv'
<1>1. UNCHANGED durable
  BY DEF CallerLeaves, Timeout
<1>2. CASE request[r].at = "body" /\ ToldNow(r)
  BY <1>1, <1>2, ToldIsSound DEF ToldNow, Free, Flying
<1>3. CASE request[r].at = "context" /\ request' = [request EXCEPT ![r].to = None] /\ UNCHANGED activeRequests
  <2>1. PICK old : old = request[r]
    OBVIOUS
  <2>2. PICK q : q = [old EXCEPT !.to = None]
    OBVIOUS
  <2>3. Sound(r, old, MadeBy(r), sessions)
    BY <2>1, OneRequest
  <2>4. /\ RequestShape(q) /\ q.at = old.at /\ q.tool = old.tool /\ q.answer = old.answer
        /\ q.project = old.project /\ q.asked = old.asked /\ q.kind = old.kind /\ q.key = old.key
    BY <2>2, <2>3 DEF Sound, RequestShape
  <2>5. request' = [request EXCEPT ![r] = q]
    BY <1>3, <2>1, <2>2 DEF CallsInv
  <2>6. MadeBy(r)' = MadeBy(r) /\ sessions' = sessions /\ editProposals' = editProposals
    BY <1>1, NothingProposed
  <2>7. Sound(r, q, MadeBy(r)', sessions')
    BY <2>3, <2>4, <2>6 DEF Sound
  <2>8. QED
    BY <1>3, <2>1, <2>4, <2>5, <2>6, <2>7, RequestKeeps
<1>4. CASE request[r].at = "race" /\ (Answered(r, "cancelled") \/ Answered(r, "timeout"))
  BY <1>1, <1>4, AnsweredIsSound
<1>5. QED
  BY <1>2, <1>3, <1>4 DEF CallerLeaves, Timeout

(* The tool takes another step.                                                   *)
LEMMA ToolGoesOn ==
  ASSUME CallsInv, NEW r \in Request, NEW place \in {"none", "create", "propose"}, ToolGoes(r, place),
         UNCHANGED activeRequests, sessions \subseteq sessions',
         editProposals \subseteq editProposals', \A p \in editProposals' : p \in editProposals \/ p.of = r,
         request[r].tool # "none", request[r].at # "race" \/ place # "none",
         place = "propose" => SessionOf(r) \in sessions',
         IF place = "none" THEN /\ MadeBy(r)' \subseteq {[of |-> r, session |-> SessionOf(r)]}
                                /\ MadeBy(r)' # {} => SessionOf(r) \in sessions'
         ELSE MadeBy(r)' = {}
  PROVE  CallsInv'
<1>1. PICK old : old = request[r]
  OBVIOUS
<1>2. PICK q : q = [old EXCEPT !.tool = place]
  OBVIOUS
<1>3. Sound(r, old, MadeBy(r), sessions) /\ old.tool # "none"
  BY <1>1, OneRequest
<1>4. /\ RequestShape(q) /\ q.at = old.at /\ q.tool = place /\ q.answer = old.answer
      /\ q.project = old.project /\ q.asked = old.asked /\ q.kind = old.kind /\ q.key = old.key
  BY <1>2, <1>3 DEF Sound, RequestShape
<1>5. request' = [request EXCEPT ![r] = q]
  BY <1>1, <1>2 DEF CallsInv, ToolGoes
<1>6. SessionOf(r) = <<q.asked, q.key>> /\ q.project = q.asked
  BY <1>1, <1>3, <1>4 DEF Sound, SessionOf
<1>7. q.at \in {"race", "end"} /\ q.answer # "told" /\ (q.at = "end" \/ place # "none")
  BY <1>1, <1>3, <1>4 DEF Sound
<1>8. ASSUME q.answer = "success", q.kind = "propose" PROVE FALSE
  BY <1>3, <1>4, <1>8 DEF Sound
<1>9. Sound(r, q, MadeBy(r)', sessions')
  <2>1. CASE place = "none"
    BY <1>4, <1>6, <1>7, <1>8, <2>1 DEF Sound
  <2>2. CASE place # "none"
    <3>1. MadeBy(r)' = {} /\ q.tool \in {"create", "propose"}
      BY <1>4, <2>2
    <3>2. q.at = "race" => q.answer = ""
      BY <1>3, <1>4 DEF Sound
    <3>3. QED
      BY <1>4, <1>6, <1>7, <1>8, <3>1, <3>2 DEF Sound
  <2>3. QED
    BY <2>1, <2>2
<1>10. (q.at \in Flying <=> request[r].at \in Flying) /\ activeRequests' = activeRequests
  BY <1>1, <1>4
<1>11. QED
  BY <1>5, <1>9, <1>10, RequestKeeps

(* The tool ends, whether anybody waits for it or not.                             *)
LEMMA ToolEndIsSound ==
  ASSUME CallsInv, NEW r \in Request, NEW answer \in {"success", "error"}, ToolEnds(r, answer), sessions' = sessions,
         editProposals \subseteq editProposals', \A p \in editProposals' : p \in editProposals \/ p.of = r,
         request[r].tool # "none",
         MadeBy(r)' \subseteq {[of |-> r, session |-> SessionOf(r)]},
         MadeBy(r)' # {} => SessionOf(r) \in sessions,
         answer = "success" /\ request[r].kind = "propose" => MadeBy(r)' # {}
  PROVE  CallsInv'
<1>1. CASE request[r].at # "race"
  <2>1. ToolGoes(r, "none") /\ UNCHANGED activeRequests
    BY <1>1 DEF ToolEnds
  <2>2. QED
    BY <1>1, <2>1, ToolGoesOn
<1>2. CASE request[r].at = "race"
  <2>1. /\ activeRequests' = activeRequests - 1
        /\ request' = [request EXCEPT ![r].tool = "none", ![r].at = "end", ![r].to = None, ![r].answer = answer]
    BY <1>2 DEF ToolEnds
  <2>2. PICK old : old = request[r]
    OBVIOUS
  <2>3. PICK q : q = [old EXCEPT !.tool = "none", !.at = "end", !.to = None, !.answer = answer]
    OBVIOUS
  <2>4. Sound(r, old, MadeBy(r), sessions)
    BY <2>2, OneRequest
  <2>5. /\ RequestShape(q) /\ q.at = "end" /\ q.tool = "none" /\ q.answer = answer
        /\ q.project = old.project /\ q.asked = old.asked /\ q.kind = old.kind /\ q.key = old.key
    BY <2>3, <2>4 DEF Sound, RequestShape
  <2>6. request' = [request EXCEPT ![r] = q]
    BY <2>1, <2>2, <2>3 DEF CallsInv
  <2>7. SessionOf(r) = <<q.asked, q.key>>
    BY <2>2, <2>4, <2>5 DEF Sound, SessionOf
  <2>8. Sound(r, q, MadeBy(r)', sessions')
    BY <2>2, <2>5, <2>7 DEF Sound
  <2>9. q.at \notin Flying /\ request[r].at \in Flying
    BY <1>2, <2>5 DEF Flying
  <2>10. QED
    BY <2>1, <2>6, <2>8, <2>9, RequestKeeps
<1>3. QED
  BY <1>1, <1>2

LEMMA ToolStepKeeps ==
  ASSUME CallsInv, NEW r \in Request,
         LookForSession(r) \/ CreateSession(r) \/ Propose(r) \/ ReadContext(r) \/ ToolFails(r)
  PROVE  CallsInv'
<1>1. Sound(r, request[r], MadeBy(r), sessions)
  BY OneRequest
<1>2. request[r].tool # "none" /\ MadeBy(r) = {}
  BY <1>1 DEF Sound, LookForSession, CreateSession, Propose, ReadContext, ToolFails
<1>3. CASE LookForSession(r)
  <2>1. UNCHANGED durable /\ UNCHANGED activeRequests
    BY <1>3 DEF LookForSession
  <2>2. MadeBy(r)' = {} /\ sessions' = sessions /\ editProposals' = editProposals
    BY <1>2, <2>1, NothingProposed
  <2>3. PICK place : place = IF SessionOf(r) \in sessions THEN "propose" ELSE "create"
    OBVIOUS
  <2>4. ToolGoes(r, place) /\ place \in {"none", "create", "propose"} /\ place # "none"
    BY <1>3, <2>3 DEF LookForSession
  <2>5. place = "propose" => SessionOf(r) \in sessions'
    BY <2>2, <2>3
  <2>6. QED
    BY <1>2, <2>1, <2>2, <2>4, <2>5, ToolGoesOn
<1>4. CASE CreateSession(r)
  <2>1. /\ sessions' = sessions \cup {SessionOf(r)} /\ ToolGoes(r, "propose")
        /\ UNCHANGED activeRequests /\ UNCHANGED editProposals
    BY <1>4 DEF CreateSession
  <2>2. MadeBy(r)' = {}
    BY <1>2, <2>1 DEF MadeBy
  <2>3. SessionOf(r) \in sessions' /\ sessions \subseteq sessions' /\ editProposals \subseteq editProposals'
        /\ \A p \in editProposals' : p \in editProposals \/ p.of = r
    BY <2>1
  <2>4. QED
    BY <1>2, <2>1, <2>2, <2>3, ToolGoesOn
<1>5. CASE Propose(r)
  <2>1. /\ editProposals' = editProposals \cup {Proposed(r)} /\ sessions' = sessions
        /\ ToolEnds(r, "success") \/ ToolEnds(r, "error")
    BY <1>5 DEF Propose
  <2>2. PICK new : new = Proposed(r)
    OBVIOUS
  <2>3. new = [of |-> r, session |-> SessionOf(r)] /\ new.of = r
    BY <2>2 DEF Proposed
  <2>4. MadeBy(r)' = {new}
    BY <1>2, <2>1, <2>2, <2>3 DEF MadeBy
  <2>5. SessionOf(r) \in sessions
    BY <1>1, <1>5 DEF Sound, Propose, SessionOf
  <2>6. editProposals \subseteq editProposals' /\ \A p \in editProposals' : p \in editProposals \/ p.of = r
    BY <2>1, <2>2, <2>3
  <2>7. MadeBy(r)' \subseteq {[of |-> r, session |-> SessionOf(r)]} /\ MadeBy(r)' # {}
    BY <2>3, <2>4
  <2>8. QED
    BY <1>2, <2>1, <2>5, <2>6, <2>7, ToolEndIsSound
<1>6. CASE ReadContext(r) \/ ToolFails(r)
  <2>1. UNCHANGED durable /\ (ToolEnds(r, "success") \/ ToolEnds(r, "error"))
    BY <1>6 DEF ReadContext, ToolFails
  <2>2. MadeBy(r)' = {} /\ sessions' = sessions /\ editProposals' = editProposals
    BY <1>2, <2>1, NothingProposed
  <2>3. CASE ToolEnds(r, "error")
    BY <1>2, <2>2, <2>3, ToolEndIsSound
  <2>4. CASE ReadContext(r)
    <3>1. request[r].kind = "read" /\ ToolEnds(r, "success")
      BY <1>1, <2>4 DEF ReadContext, Sound
    <3>2. QED
      BY <1>2, <2>2, <3>1, ToolEndIsSound
  <2>5. QED
    BY <1>6, <2>3, <2>4 DEF ToolFails
<1>7. QED
  BY <1>3, <1>4, <1>5, <1>6


LEMMA CallsInitSound == ASSUME BridgeInit PROVE CallsInv
<1>1. request = [r \in Request |-> Unsent] /\ activeRequests = 0 /\ sessions = {} /\ editProposals = {}
  BY DEF BridgeInit
<1>2. Unsent = [at |-> "unsent", kind |-> "", key |-> 0, to |-> None,
                project |-> None, asked |-> None, tool |-> "none", answer |-> ""]
  BY DEF Unsent
<1>3. Unsent.at = "unsent" /\ Unsent.tool = "none" /\ Unsent.answer = ""
  BY <1>2
<1>4. RequestShape(Unsent)
  BY <1>2 DEF RequestShape
<1>5. UnderWay = {}
  BY <1>1, <1>3 DEF UnderWay, InFlight
<1>6. IsFiniteSet(UnderWay) /\ Cardinality(UnderWay) = 0 /\ activeRequests <= Concurrency
  BY <1>1, <1>5, FS_EmptySet, BridgeAssumption
<1>7. ASSUME NEW r \in Request PROVE Sound(r, request[r], MadeBy(r), sessions)
  <2>1. request[r] = Unsent /\ MadeBy(r) = {}
    BY <1>1 DEF MadeBy
  <2>2. QED
    BY <1>3, <1>4, <2>1 DEF Sound
<1>8. QED
  BY <1>1, <1>6, <1>7 DEF CallsInv

LEMMA CallsStep == ASSUME CallsInv, [BridgeNext]_bridgeVars PROVE CallsInv'
<1>1. CASE BridgeAdmin \/ UNCHANGED bridgeVars
  <2>1. UNCHANGED <<calls, durable>>
    BY <1>1 DEF BridgeAdmin, StartServer, Started, Stop, Stopped, IssueCredential, RotateCredential, Issue,
                RevokeCredential, SyncContext, ClearContext, MinutePasses, bridgeVars
  <2>2. QED
    BY <2>1, OthersKeepCalls
<1>2. ASSUME NEW r \in Request, BridgeRequest(r) PROVE CallsInv'
  BY <1>2, SendKeeps, ReceivedKeeps, ContextKeeps, LeavesKeeps, ToolStepKeeps DEF BridgeRequest
<1>3. QED
  BY <1>1, <1>2 DEF BridgeNext

LEMMA ContractsDoAgree == ContractsAgree
<1>1. SUFFICES ASSUME NEW c \in Contracts, WellFormed(c)
               PROVE  /\ Adapted(c) => Callable(c)
                      /\ Callable(c) => c.risk = 0 \/ ("propose" \in c.scopes /\ "write" \notin c.scopes)
  BY DEF ContractsAgree
<1>2. QED
  BY DEF Adapted, Callable

LEMMA CallsHold == ASSUME CallsInv PROVE CallsAreTrue
<1>1. UnderWay = {r \in Request : InFlight(r)}
  BY DEF UnderWay
<1>2. ASSUME NEW r \in Request
      PROVE  /\ Cardinality(MadeBy(r)) <= 1
             /\ \A p \in MadeBy(r) : p.session = <<request[r].asked, request[r].key>> /\ p.session \in sessions
             /\ request[r].answer = "told" => MadeBy(r) = {}
             /\ request[r].answer = "success" /\ request[r].kind = "propose" => MadeBy(r) # {}
  <2>1. Sound(r, request[r], MadeBy(r), sessions)
    BY OneRequest
  <2>2. PICK one : one = [of |-> r, session |-> <<request[r].asked, request[r].key>>]
    OBVIOUS
  <2>3. MadeBy(r) = {} \/ MadeBy(r) = {one}
    BY <2>1, <2>2 DEF Sound
  <2>4. Cardinality(MadeBy(r)) <= 1
    <3>1. Cardinality({}) = 0
      BY FS_EmptySet
    <3>2. Cardinality({one}) = 1
      BY FS_Singleton
    <3>3. QED
      BY <2>3, <3>1, <3>2
  <2>5. one.session = <<request[r].asked, request[r].key>>
    BY <2>2
  <2>6. \A p \in MadeBy(r) : p.session = <<request[r].asked, request[r].key>> /\ p.session \in sessions
    BY <2>1, <2>3, <2>5 DEF Sound
  <2>7. QED
    BY <2>1, <2>4, <2>6 DEF Sound
<1>3. QED
  BY <1>1, <1>2, ContractsDoAgree DEF CallsInv, CallsAreTrue

LEMMA StatusHolds == ASSUME StatusInv PROVE StatusIsTrue
BY DEF StatusInv, StatusIsTrue, ShownStatus, Told3

(* For any number of requests, credentials, servers and projects: where the page    *)
(* waits for a start or a stop, its status says whether there is a server, and      *)
(* which; and whatever is given up and goes on, every call makes at most one        *)
(* proposal, for the project that was open when it came in.                         *)
THEOREM BridgeHolds == Serial => (BridgeSpec => [](StatusIsTrue /\ CallsAreTrue))
<1>1. SUFFICES ASSUME Serial PROVE BridgeSpec => [](StatusIsTrue /\ CallsAreTrue)
  OBVIOUS
<1>2. BridgeInit => StatusInv /\ CallsInv
  BY StatusInitSound, CallsInitSound
<1>3. StatusInv /\ CallsInv /\ [BridgeNext]_bridgeVars => (StatusInv /\ CallsInv)'
  BY <1>1, StatusStep, CallsStep
<1>4. StatusInv /\ CallsInv => StatusIsTrue /\ CallsAreTrue
  BY StatusHolds, CallsHold
<1>5. QED
  BY <1>2, <1>3, <1>4, PTL DEF BridgeSpec

-------------------------------------------------------------------------------
(* The page of the bridge (module ConnectionPage).                                *)
Projects == ProjectId \cup {NoProject}
Bridges == [up : BOOLEAN, keys : SUBSET Nat, project : Projects]
Pages == [project : Projects, open : BOOLEAN, secret : Nat, busy : BOOLEAN, shown : Bridges, activity : Projects]
Asked == Buttons \cup Contexts \cup {"look"}
Messages == [ask : Asked, of : Nat \cup Projects, at : {"sent", "served", "lost"}, answer : Bridges, secret : Nat]
OnWire == 1..Len(wire)

ConnectionTyped ==
  /\ bridge \in Bridges /\ keysMade \in Nat /\ page \in Pages /\ wire \in Seq(Messages)
  /\ \A i \in OnWire : wire[i].ask \in Contexts => wire[i].of \in Projects

(* One button at a time, and a credential is forgotten before another is asked for. *)
ButtonsAreOne ==
  /\ page.busy <=> \E i \in OnWire : wire[i].ask \in Buttons
  /\ \A i, j \in OnWire : wire[i].ask \in Buttons /\ wire[j].ask \in Buttons => i = j
  /\ page.busy => page.open \/ "closed early" \in mishaps

SecretIsLast ==
  /\ page.secret # 0 => page.secret = keysMade /\ (page.open \/ "closed early" \in mishaps)
  /\ \A i \in OnWire : wire[i].ask \in {"pair", "rotate"} => page.secret = 0
  /\ \A i \in OnWire : wire[i].secret # 0 =>
       wire[i].secret = keysMade /\ wire[i].ask \in {"pair", "rotate"} /\ wire[i].at # "sent"

(* Nothing was lost but looks, and nothing overtaken: what was served comes first,   *)
(* the last of it that changed the bridge, and what has looked at it since, says how *)
(* the bridge is, and the last project that is on its way is that of the page.       *)
WireIsInOrder ==
  /\ \A i, j \in OnWire : i < j /\ wire[i].at = "sent" => wire[j].at # "served"
  /\ \A i \in OnWire : wire[i].at = "lost" => wire[i].ask = "look"

AnswersAreLate ==
  /\ \A i \in OnWire :
       wire[i].at = "served" /\ (\A j \in OnWire : i < j /\ wire[j].at = "served" => wire[j].ask = "look")
       => wire[i].answer = bridge
  /\ (\A i \in OnWire : wire[i].at = "served" => wire[i].ask = "look") =>
       page.shown = bridge \/ \E i \in OnWire : wire[i].at = "sent" /\ wire[i].ask # "look"

ToSet(i) == wire[i].at = "sent" /\ wire[i].ask \in Contexts

ProjectIsToCome ==
  /\ \A i \in OnWire : ToSet(i) /\ (\A j \in OnWire : i < j => ~ToSet(j)) => wire[i].of = page.project
  /\ (\A i \in OnWire : ~ToSet(i)) => bridge.project = page.project

ConnectionInv ==
  /\ ConnectionTyped /\ ButtonsAreOne /\ SecretIsLast
  /\ InExpectedOrder => WireIsInOrder /\ AnswersAreLate /\ ProjectIsToCome

LEMMA ConnectionInitSound == ASSUME ConnectionInit PROVE ConnectionInv
<1>1. PICK r : r = Asks("clear", NoProject)
  OBVIOUS
<1>2. /\ bridge \in [up : BOOLEAN, keys : {{}}, project : Projects] /\ keysMade = 0
      /\ page = [project |-> NoProject, open |-> FALSE, secret |-> 0, busy |-> FALSE,
                 shown |-> [up |-> FALSE, keys |-> {}, project |-> NoProject], activity |-> NoProject]
      /\ wire = <<r>> /\ mishaps = {}
  BY <1>1 DEF ConnectionInit, Projects
<1>3. bridge \in Bridges
  BY <1>2 DEF Bridges
<1>4. r = [ask |-> "clear", of |-> NoProject, at |-> "sent", answer |-> bridge, secret |-> 0]
  BY <1>1 DEF Asks
<1>5. r.ask = "clear" /\ r.of = NoProject /\ r.at = "sent" /\ r.secret = 0
  BY <1>4
<1>6. r \in Messages
  BY <1>3, <1>4 DEF Messages, Asked, Contexts, Projects
<1>7. page \in Pages /\ page.busy = FALSE /\ page.secret = 0 /\ page.project = NoProject
  <2>1. [up |-> FALSE, keys |-> {}, project |-> NoProject] \in Bridges
    BY DEF Bridges, Projects
  <2>2. QED
    BY <1>2, <2>1 DEF Pages, Projects
<1>8. wire \in Seq(Messages) /\ Len(wire) = 1 /\ wire[1] = r
  BY <1>2, <1>6
<1>9. OnWire = {1}
  BY <1>8 DEF OnWire
<1>10. r.ask \in Contexts /\ r.ask \notin Buttons /\ r.ask # "look" /\ r.ask \notin {"pair", "rotate"}
  BY <1>5 DEF Contexts, Buttons
<1>11. ConnectionTyped
  BY <1>2, <1>3, <1>5, <1>7, <1>8, <1>9 DEF ConnectionTyped, Projects
<1>12. ButtonsAreOne /\ SecretIsLast
  BY <1>5, <1>7, <1>8, <1>9, <1>10 DEF ButtonsAreOne, SecretIsLast
<1>13. WireIsInOrder /\ AnswersAreLate /\ ProjectIsToCome
  BY <1>5, <1>7, <1>8, <1>9, <1>10 DEF WireIsInOrder, AnswersAreLate, ProjectIsToCome, ToSet
<1>14. QED
  BY <1>11, <1>12, <1>13 DEF ConnectionInv

(* A request is sent: the last on the wire.                                       *)
LEMMA SentIsLast ==
  ASSUME ConnectionTyped, NEW r \in Messages, wire' = Append(wire, r)
  PROVE  /\ wire' \in Seq(Messages) /\ Len(wire) \in Nat /\ Len(wire') = Len(wire) + 1
         /\ OnWire' = OnWire \cup {Len(wire) + 1} /\ Len(wire) + 1 \notin OnWire
         /\ wire'[Len(wire) + 1] = r /\ \A i \in OnWire : wire'[i] = wire[i]
         /\ \A i \in OnWire : i < Len(wire) + 1 /\ i \in Nat
<1>1. wire \in Seq(Messages)
  BY DEF ConnectionTyped
<1>2. QED
  BY <1>1 DEF OnWire

LEMMA AskIs ==
  ASSUME ConnectionTyped, NEW ask \in Asked, NEW of \in Nat \cup Projects
  PROVE  /\ Asks(ask, of) \in Messages
         /\ Asks(ask, of).ask = ask /\ Asks(ask, of).of = of /\ Asks(ask, of).at = "sent" /\ Asks(ask, of).secret = 0
<1>1. bridge \in Bridges
  BY DEF ConnectionTyped
<1>2. QED
  BY <1>1 DEF Asks, Messages

(* What is sent is in order; it changes nothing but what is to come.               *)
LEMMA SendingKeepsOrder ==
  ASSUME ConnectionInv, NEW ask \in Asked, NEW of \in Nat \cup Projects, ask \in Contexts => of \in Projects,
         wire' = Append(wire, Asks(ask, of)), UNCHANGED <<bridge, keysMade>>, page' \in Pages,
         mishaps \subseteq mishaps', page'.shown = page.shown,
         IF ask \in Contexts THEN page'.project = of ELSE page'.project = page.project
  PROVE  ConnectionTyped' /\ (InExpectedOrder' => (WireIsInOrder /\ AnswersAreLate /\ ProjectIsToCome)')
<1>1. PICK r : r = Asks(ask, of)
  OBVIOUS
<1>2. r \in Messages /\ r.ask = ask /\ r.of = of /\ r.at = "sent" /\ r.secret = 0
  BY <1>1, AskIs DEF ConnectionInv
<1>3. PICK n : n = Len(wire) + 1
  OBVIOUS
<1>4. /\ wire' \in Seq(Messages) /\ OnWire' = OnWire \cup {n} /\ n \notin OnWire
      /\ wire'[n] = r /\ \A i \in OnWire : wire'[i] = wire[i]
      /\ \A i \in OnWire : i < n /\ i \in Nat
      /\ n \in Nat
  <2>1. ConnectionTyped /\ wire' = Append(wire, r)
    BY <1>1 DEF ConnectionInv
  <2>2. r \in Messages
    BY <1>2
  <2>3. /\ wire' \in Seq(Messages) /\ Len(wire) \in Nat /\ Len(wire') = Len(wire) + 1
        /\ OnWire' = OnWire \cup {Len(wire) + 1} /\ Len(wire) + 1 \notin OnWire
        /\ wire'[Len(wire) + 1] = r /\ \A i \in OnWire : wire'[i] = wire[i]
        /\ \A i \in OnWire : i < Len(wire) + 1 /\ i \in Nat
    BY <2>1, <2>2, SentIsLast, Zenon
  <2>4. n \in Nat
    BY <1>3, <2>3
  <2>5. QED
    BY <1>3, <2>3, <2>4, Zenon
<1>5. ConnectionTyped'
  <2>1. \A i \in OnWire' : wire'[i].ask \in Contexts => wire'[i].of \in Projects
    BY <1>2, <1>4 DEF ConnectionInv, ConnectionTyped
  <2>2. QED
    BY <1>4, <2>1 DEF ConnectionInv, ConnectionTyped
<1>6. ASSUME InExpectedOrder' PROVE WireIsInOrder' /\ AnswersAreLate' /\ ProjectIsToCome'
  <2>1. InExpectedOrder
    BY <1>6 DEF InExpectedOrder
  <2>2. WireIsInOrder /\ AnswersAreLate /\ ProjectIsToCome
    BY <2>1 DEF ConnectionInv
  <2>3. \A i \in OnWire : ~(n < i)
    BY <1>4
  <2>4. WireIsInOrder'
    <3>1. ASSUME NEW i \in OnWire', NEW j \in OnWire', i < j, wire'[i].at = "sent" PROVE wire'[j].at # "served"
      <4>1. CASE j = n
        BY <1>2, <1>4, <4>1
      <4>2. CASE j \in OnWire
        <5>1. i \in OnWire
          BY <1>4, <2>3, <3>1, <4>2
        <5>2. QED
          BY <1>4, <2>2, <3>1, <4>2, <5>1 DEF WireIsInOrder
      <4>3. QED
        BY <1>4, <4>1, <4>2
    <3>2. ASSUME NEW i \in OnWire', wire'[i].at = "lost" PROVE wire'[i].ask = "look"
      <4>1. i \in OnWire
        BY <1>2, <1>4, <3>2
      <4>2. QED
        BY <1>4, <2>2, <3>2, <4>1 DEF WireIsInOrder
    <3>3. QED
      BY <3>1, <3>2 DEF WireIsInOrder
  <2>5. AnswersAreLate'
    <3>1. ASSUME NEW i \in OnWire', wire'[i].at = "served",
                 \A j \in OnWire' : i < j /\ wire'[j].at = "served" => wire'[j].ask = "look"
          PROVE  wire'[i].answer = bridge'
      <4>1. i \in OnWire /\ wire'[i] = wire[i]
        BY <1>2, <1>4, <3>1
      <4>2. \A j \in OnWire : i < j /\ wire[j].at = "served" => wire[j].ask = "look"
        BY <1>4, <3>1
      <4>3. QED
        BY <2>2, <3>1, <4>1, <4>2 DEF AnswersAreLate
    <3>2. ASSUME \A i \in OnWire' : wire'[i].at = "served" => wire'[i].ask = "look"
          PROVE  page'.shown = bridge' \/ \E i \in OnWire' : wire'[i].at = "sent" /\ wire'[i].ask # "look"
      <4>1. \A i \in OnWire : wire[i].at = "served" => wire[i].ask = "look"
        BY <1>4, <3>2
      <4>2. CASE page.shown = bridge
        BY <4>2
      <4>3. CASE \E i \in OnWire : wire[i].at = "sent" /\ wire[i].ask # "look"
        BY <1>4, <4>3
      <4>4. QED
        BY <2>2, <4>1, <4>2, <4>3 DEF AnswersAreLate
    <3>3. QED
      BY <3>1, <3>2 DEF AnswersAreLate
  <2>6. ProjectIsToCome'
    <3>1. \A i \in OnWire : ToSet(i)' <=> ToSet(i)
      BY <1>4 DEF ToSet
    <3>2. ToSet(n)' <=> ask \in Contexts
      BY <1>2, <1>4 DEF ToSet
    <3>3. CASE ask \in Contexts
      <4>1. \A i \in OnWire : i < n
        BY <1>4
      <4>2. QED
        BY <1>2, <1>4, <3>2, <3>3, <4>1 DEF ProjectIsToCome
    <3>4. CASE ask \notin Contexts
      <4>1. page'.project = page.project
        BY <3>4
      <4>2. ASSUME NEW i \in OnWire', ToSet(i)', \A j \in OnWire' : i < j => ~ToSet(j)'
            PROVE  wire'[i].of = page'.project
        <5>1. i \in OnWire /\ ToSet(i)
          BY <1>4, <3>1, <3>2, <3>4, <4>2
        <5>2. \A j \in OnWire : i < j => ~ToSet(j)
          BY <1>4, <3>1, <4>2
        <5>3. QED
          BY <1>4, <2>2, <4>1, <5>1, <5>2 DEF ProjectIsToCome
      <4>3. ASSUME \A i \in OnWire' : ~ToSet(i)' PROVE bridge'.project = page'.project
        <5>1. \A i \in OnWire : ~ToSet(i)
          BY <1>4, <3>1, <4>3
        <5>2. QED
          BY <2>2, <4>1, <5>1 DEF ProjectIsToCome
      <4>4. QED
        BY <4>2, <4>3 DEF ProjectIsToCome
    <3>5. QED
      BY <3>3, <3>4
  <2>7. QED
    BY <2>4, <2>5, <2>6
<1>7. QED
  BY <1>5, <1>6


LEMMA SendingKeepsButtons ==
  ASSUME ConnectionInv, NEW ask \in Asked, NEW of \in Nat \cup Projects, ask \notin Buttons,
         wire' = Append(wire, Asks(ask, of)), keysMade' = keysMade, mishaps \subseteq mishaps',
         page'.busy = page.busy, page'.secret = page.secret, page.open => page'.open
  PROVE  ButtonsAreOne' /\ SecretIsLast'
<1>1. PICK r : r = Asks(ask, of)
  OBVIOUS
<1>2. ConnectionTyped /\ ButtonsAreOne /\ SecretIsLast
  BY DEF ConnectionInv
<1>3. r \in Messages /\ r.ask = ask /\ r.at = "sent" /\ r.secret = 0
  BY <1>1, <1>2, AskIs
<1>4. PICK n : n = Len(wire) + 1
  OBVIOUS
<1>5. OnWire' = OnWire \cup {n} /\ n \notin OnWire /\ wire'[n] = r /\ \A i \in OnWire : wire'[i] = wire[i]
  <2>1. wire' = Append(wire, r)
    BY <1>1
  <2>2. QED
    BY <1>2, <1>3, <1>4, <2>1, SentIsLast
<1>6. ask \notin {"pair", "rotate"}
  BY DEF Buttons
<1>7. ButtonsAreOne'
  <2>1. page'.busy <=> \E i \in OnWire' : wire'[i].ask \in Buttons
    BY <1>2, <1>3, <1>5 DEF ButtonsAreOne
  <2>2. ASSUME NEW i \in OnWire', NEW j \in OnWire', wire'[i].ask \in Buttons, wire'[j].ask \in Buttons PROVE i = j
    <3>1. i # n /\ j # n
      BY <1>3, <1>5, <2>2
    <3>2. i \in OnWire /\ j \in OnWire /\ wire[i].ask \in Buttons /\ wire[j].ask \in Buttons
      BY <1>5, <2>2, <3>1
    <3>3. QED
      BY <1>2, <3>2 DEF ButtonsAreOne
  <2>3. page'.busy => page'.open \/ "closed early" \in mishaps'
    BY <1>2 DEF ButtonsAreOne
  <2>4. QED
    BY <2>1, <2>2, <2>3 DEF ButtonsAreOne
<1>8. SecretIsLast'
  <2>1. page'.secret # 0 => page'.secret = keysMade' /\ (page'.open \/ "closed early" \in mishaps')
    BY <1>2 DEF SecretIsLast
  <2>2. \A i \in OnWire' : wire'[i].ask \in {"pair", "rotate"} => page'.secret = 0
    BY <1>2, <1>3, <1>5, <1>6 DEF SecretIsLast
  <2>3. ASSUME NEW i \in OnWire', wire'[i].secret # 0
        PROVE  wire'[i].secret = keysMade' /\ wire'[i].ask \in {"pair", "rotate"} /\ wire'[i].at # "sent"
    <3>1. i # n
      BY <1>3, <1>5, <2>3
    <3>2. i \in OnWire /\ wire'[i] = wire[i]
      BY <1>5, <3>1
    <3>3. QED
      BY <1>2, <2>3, <3>2 DEF SecretIsLast
  <2>4. QED
    BY <2>1, <2>2, <2>3 DEF SecretIsLast
<1>9. QED
  BY <1>7, <1>8

LEMMA ProjectChangesKeeps == ASSUME ConnectionInv, ProjectChanges PROVE ConnectionInv'
<1>1. PICK p \in Projects :
        /\ page' = [page EXCEPT !.project = p]
        /\ Sends(Asks(IF p = NoProject THEN "clear" ELSE "sync", p))
        /\ UNCHANGED <<bridge, keysMade, mishaps>>
  BY DEF ProjectChanges, Projects
<1>2. PICK ask : ask = IF p = NoProject THEN "clear" ELSE "sync"
  OBVIOUS
<1>3. ask \in Asked /\ ask \in Contexts /\ ask \notin Buttons
  BY <1>2 DEF Asked, Contexts, Buttons
<1>4. wire' = Append(wire, Asks(ask, p))
  BY <1>1, <1>2 DEF Sends
<1>5. page \in Pages
  BY DEF ConnectionInv, ConnectionTyped
<1>6. /\ page' \in Pages /\ page'.project = p /\ page'.shown = page.shown
      /\ page'.busy = page.busy /\ page'.secret = page.secret /\ page'.open = page.open
  BY <1>1, <1>5 DEF Pages
<1>7. p \in Nat \cup Projects /\ mishaps \subseteq mishaps'
  BY <1>1
<1>8. ConnectionTyped' /\ (InExpectedOrder' => (WireIsInOrder /\ AnswersAreLate /\ ProjectIsToCome)')
  BY <1>1, <1>3, <1>4, <1>6, <1>7, SendingKeepsOrder
<1>9. ButtonsAreOne' /\ SecretIsLast'
  BY <1>1, <1>3, <1>4, <1>6, <1>7, SendingKeepsButtons
<1>10. QED
  BY <1>8, <1>9 DEF ConnectionInv

(* The page looks: what it is otherwise doing is as it was.                       *)
LEMMA LookingKeeps ==
  ASSUME ConnectionInv, Sends(Asks("look", page.project)), UNCHANGED <<bridge, keysMade, mishaps>>,
         NEW open \in BOOLEAN, page' = [page EXCEPT !.open = open], page.open => open
  PROVE  ConnectionInv'
<1>1. "look" \in Asked /\ "look" \notin Contexts /\ "look" \notin Buttons
  BY DEF Asked, Contexts, Buttons
<1>2. wire' = Append(wire, Asks("look", page.project))
  BY DEF Sends
<1>3. page \in Pages
  BY DEF ConnectionInv, ConnectionTyped
<1>4. page.project \in Projects
  BY <1>3 DEF Pages
<1>5. /\ page' \in Pages /\ page'.project = page.project /\ page'.shown = page.shown
      /\ page'.busy = page.busy /\ page'.secret = page.secret /\ page'.open = open
  BY <1>3 DEF Pages
<1>6. page.project \in Nat \cup Projects /\ mishaps \subseteq mishaps'
  BY <1>4
<1>7. ConnectionTyped' /\ (InExpectedOrder' => (WireIsInOrder /\ AnswersAreLate /\ ProjectIsToCome)')
  BY <1>1, <1>2, <1>5, <1>6, SendingKeepsOrder
<1>8. ButtonsAreOne' /\ SecretIsLast'
  BY <1>1, <1>2, <1>5, <1>6, SendingKeepsButtons
<1>9. QED
  BY <1>7, <1>8 DEF ConnectionInv

LEMMA OpenCenterKeeps == ASSUME ConnectionInv, OpenCenter PROVE ConnectionInv'
BY LookingKeeps DEF OpenCenter

LEMMA RefreshKeeps == ASSUME ConnectionInv, Refresh PROVE ConnectionInv'
<1>1. page \in Pages
  BY DEF ConnectionInv, ConnectionTyped
<1>2. page.open \in BOOLEAN /\ page' = [page EXCEPT !.open = page.open]
  BY <1>1 DEF Refresh, Pages
<1>3. QED
  BY <1>2, LookingKeeps DEF Refresh

LEMMA CloseCenterKeeps == ASSUME ConnectionInv, CloseCenter PROVE ConnectionInv'
<1>1. ConnectionTyped /\ ButtonsAreOne /\ SecretIsLast
  BY DEF ConnectionInv
<1>2. bridge' = bridge /\ keysMade' = keysMade /\ wire' = wire /\ OnWire' = OnWire
  BY DEF CloseCenter, OnWire
<1>3. /\ page' \in Pages /\ page'.project = page.project /\ page'.shown = page.shown
      /\ page'.busy = page.busy /\ page'.secret = 0
  BY <1>1 DEF CloseCenter, ConnectionTyped, Pages
<1>4. mishaps \subseteq mishaps' /\ (page.busy => "closed early" \in mishaps')
  BY DEF CloseCenter
<1>5. ConnectionTyped'
  BY <1>1, <1>2, <1>3 DEF ConnectionTyped
<1>6. ButtonsAreOne'
  BY <1>1, <1>2, <1>3, <1>4 DEF ButtonsAreOne
<1>7. SecretIsLast'
  BY <1>1, <1>2, <1>3 DEF SecretIsLast
<1>8. ASSUME InExpectedOrder' PROVE WireIsInOrder' /\ AnswersAreLate' /\ ProjectIsToCome'
  <2>1. InExpectedOrder
    BY <1>4, <1>8 DEF InExpectedOrder
  <2>2. WireIsInOrder /\ AnswersAreLate /\ ProjectIsToCome
    BY <2>1 DEF ConnectionInv
  <2>3. WireIsInOrder'
    BY <1>2, <2>2 DEF WireIsInOrder
  <2>4. AnswersAreLate'
    BY <1>2, <1>3, <2>2 DEF AnswersAreLate
  <2>5. ProjectIsToCome'
    BY <1>2, <1>3, <2>2 DEF ProjectIsToCome, ToSet
  <2>6. QED
    BY <2>3, <2>4, <2>5
<1>9. QED
  BY <1>5, <1>6, <1>7, <1>8 DEF ConnectionInv

LEMMA PressKeeps == ASSUME ConnectionInv, Press PROVE ConnectionInv'
<1>1. ConnectionTyped /\ ButtonsAreOne /\ SecretIsLast
  BY DEF ConnectionInv
<1>2. page.open /\ ~page.busy /\ UNCHANGED <<bridge, keysMade, mishaps>>
  BY DEF Press
<1>3. page \in Pages
  BY <1>1 DEF ConnectionTyped
<1>4. page.shown.keys \in SUBSET Nat
  BY <1>3 DEF Pages, Bridges
<1>5. PICK b \in Buttons : \E k \in IF b = "revoke" THEN page.shown.keys ELSE {0} :
        Enabled(b) /\ Sends(Asks(b, k))
  BY DEF Press
<1>6. PICK k \in Nat : Sends(Asks(b, k))
  BY <1>4, <1>5
<1>7. b \in Asked /\ b \notin Contexts
  BY DEF Asked, Contexts, Buttons
<1>8. PICK r : r = Asks(b, k)
  OBVIOUS
<1>9. r \in Messages /\ r.ask = b /\ r.at = "sent" /\ r.secret = 0
  BY <1>1, <1>7, <1>8, AskIs
<1>10. wire' = Append(wire, r)
  BY <1>6, <1>8 DEF Sends
<1>11. PICK n : n = Len(wire) + 1
  OBVIOUS
<1>12. /\ OnWire' = OnWire \cup {n} /\ n \notin OnWire /\ wire'[n] = r /\ Len(wire') = n
       /\ \A i \in OnWire : wire'[i] = wire[i]
  BY <1>1, <1>9, <1>10, <1>11, SentIsLast
<1>13. wire'[Len(wire')].ask = b
  BY <1>9, <1>12
<1>14. page' = [page EXCEPT !.busy = TRUE, !.secret = IF b \in {"pair", "rotate"} THEN 0 ELSE @]
  BY <1>13 DEF Press
<1>15. /\ page' \in Pages /\ page'.project = page.project /\ page'.shown = page.shown
       /\ page'.busy = TRUE /\ page'.open = page.open
       /\ page'.secret = IF b \in {"pair", "rotate"} THEN 0 ELSE page.secret
  BY <1>3, <1>14 DEF Pages
<1>16. ConnectionTyped' /\ (InExpectedOrder' => (WireIsInOrder /\ AnswersAreLate /\ ProjectIsToCome)')
  <2>1. k \in Nat \cup Projects /\ mishaps \subseteq mishaps' /\ wire' = Append(wire, Asks(b, k))
    BY <1>2, <1>8, <1>10
  <2>2. QED
    BY <1>2, <1>7, <1>15, <2>1, SendingKeepsOrder
<1>17. \A i \in OnWire : wire[i].ask \notin Buttons
  BY <1>1, <1>2 DEF ButtonsAreOne
<1>18. ButtonsAreOne'
  BY <1>2, <1>9, <1>12, <1>15, <1>17 DEF ButtonsAreOne
<1>19. SecretIsLast'
  <2>1. \A i \in OnWire : wire[i].ask \notin {"pair", "rotate"}
    BY <1>17 DEF Buttons
  <2>2. page'.secret # 0 => page'.secret = keysMade' /\ (page'.open \/ "closed early" \in mishaps')
    BY <1>1, <1>2, <1>15 DEF SecretIsLast
  <2>3. \A i \in OnWire' : wire'[i].ask \in {"pair", "rotate"} => page'.secret = 0
    BY <1>9, <1>12, <1>15, <2>1
  <2>4. \A i \in OnWire' : wire'[i].secret = 0
    BY <1>1, <1>9, <1>12, <2>1 DEF SecretIsLast
  <2>5. QED
    BY <2>2, <2>3, <2>4 DEF SecretIsLast
<1>20. QED
  BY <1>16, <1>18, <1>19 DEF ConnectionInv


(* What a request does to the bridge.                                             *)
LEMMA AfterIs ==
  ASSUME ConnectionTyped, NEW r \in Messages, r.ask \in Contexts => r.of \in Projects
  PROVE  /\ After(r) \in Bridges
         /\ r.ask = "look" => After(r) = bridge
         /\ r.ask \in Contexts => After(r).project = r.of
         /\ r.ask \notin Contexts => After(r).project = bridge.project
<1>1. bridge \in Bridges /\ keysMade + 1 \in Nat /\ r.ask \in Asked
  BY DEF ConnectionTyped, Messages
<1>2. "sync" \in Contexts /\ "clear" \in Contexts /\ \A a \in Contexts : a = "sync" \/ a = "clear"
  BY DEF Contexts
<1>3. CASE r.ask = "start"
  BY <1>1, <1>2, <1>3 DEF After, Bridges
<1>4. CASE r.ask = "stop"
  BY <1>1, <1>2, <1>4 DEF After, Bridges
<1>5. CASE r.ask = "pair"
  BY <1>1, <1>2, <1>5 DEF After, Bridges
<1>6. CASE r.ask = "rotate"
  BY <1>1, <1>2, <1>6 DEF After, Bridges
<1>7. CASE r.ask = "revoke"
  BY <1>1, <1>2, <1>7 DEF After, Bridges
<1>8. CASE r.ask \in Contexts
  <2>1. After(r) = [bridge EXCEPT !.project = r.of]
    BY <1>2, <1>8 DEF After
  <2>2. r.ask # "look"
    BY <1>2, <1>8
  <2>3. QED
    BY <1>1, <1>8, <2>1, <2>2 DEF Bridges
<1>9. CASE r.ask = "look"
  BY <1>1, <1>2, <1>9 DEF After, Bridges
<1>10. QED
  BY <1>1, <1>3, <1>4, <1>5, <1>6, <1>7, <1>8, <1>9 DEF Asked, Buttons

(* One request on the wire changes.                                               *)
LEMMA OneChanges ==
  ASSUME ConnectionTyped, NEW i \in OnWire, NEW q \in Messages, wire' = [wire EXCEPT ![i] = q]
  PROVE  /\ wire' \in Seq(Messages) /\ OnWire' = OnWire /\ wire'[i] = q
         /\ \A j \in OnWire : j # i => wire'[j] = wire[j]
BY DEF ConnectionTyped, OnWire

LEMMA ServeKeeps == ASSUME ConnectionInv, NEW i \in OnWire, Serve(i) PROVE ConnectionInv'
<1>1. ConnectionTyped /\ ButtonsAreOne /\ SecretIsLast
  BY DEF ConnectionInv
<1>2. PICK r : r = wire[i]
  OBVIOUS
<1>3. r \in Messages /\ (r.ask \in Contexts => r.of \in Projects)
  BY <1>1, <1>2 DEF ConnectionTyped, OnWire
<1>4. PICK key : key = IF r.ask \in {"pair", "rotate"} THEN keysMade + 1 ELSE 0
  OBVIOUS
<1>5. r.at = "sent" /\ bridge' = After(r) /\ page' = page
  BY <1>2 DEF Serve
<1>6. keysMade \in Nat /\ page \in Pages
  BY <1>1 DEF ConnectionTyped
<1>7. keysMade' = IF key = 0 THEN keysMade ELSE key
  BY <1>2, <1>4 DEF Serve
<1>8. key \in Nat /\ keysMade' \in Nat
  BY <1>4, <1>6, <1>7
<1>9. PICK q : q = [r EXCEPT !.at = "served", !.answer = After(r), !.secret = key]
  OBVIOUS
<1>10. wire' = [wire EXCEPT ![i] = q]
  BY <1>2, <1>4, <1>5, <1>9 DEF Serve
<1>11. mishaps' = IF \E j \in 1..(i - 1) : wire[j].at = "sent" THEN mishaps \union {"overtaken"} ELSE mishaps
  BY DEF Serve
<1>12. /\ After(r) \in Bridges
       /\ r.ask = "look" => After(r) = bridge
       /\ r.ask \in Contexts => After(r).project = r.of
       /\ r.ask \notin Contexts => After(r).project = bridge.project
  BY <1>1, <1>3, AfterIs
<1>13. /\ q \in Messages /\ q.at = "served" /\ q.answer = After(r) /\ q.secret = key
       /\ q.ask = r.ask /\ q.of = r.of
  BY <1>3, <1>8, <1>9, <1>12 DEF Messages
<1>14. /\ wire' \in Seq(Messages) /\ OnWire' = OnWire /\ wire'[i] = q
       /\ \A j \in OnWire : j # i => wire'[j] = wire[j]
  BY <1>1, <1>10, <1>13, OneChanges
<1>15. \A j \in OnWire : wire'[j].ask = wire[j].ask /\ wire'[j].of = wire[j].of
  BY <1>2, <1>13, <1>14
<1>16. ConnectionTyped'
  <2>1. \A j \in OnWire : wire'[j].ask \in Contexts => wire'[j].of \in Projects
    BY <1>1, <1>15 DEF ConnectionTyped
  <2>2. QED
    BY <1>5, <1>6, <1>8, <1>12, <1>14, <2>1 DEF ConnectionTyped
<1>17. ButtonsAreOne'
  <2>1. page'.busy <=> \E j \in OnWire' : wire'[j].ask \in Buttons
    BY <1>1, <1>5, <1>14, <1>15 DEF ButtonsAreOne
  <2>2. \A j, k \in OnWire' : wire'[j].ask \in Buttons /\ wire'[k].ask \in Buttons => j = k
    BY <1>1, <1>14, <1>15 DEF ButtonsAreOne
  <2>3. page'.busy => page'.open \/ "closed early" \in mishaps'
    BY <1>1, <1>5, <1>11 DEF ButtonsAreOne
  <2>4. QED
    BY <2>1, <2>2, <2>3 DEF ButtonsAreOne
<1>18. SecretIsLast'
  <2>1. key # 0 => r.ask \in {"pair", "rotate"} /\ page.secret = 0
    BY <1>1, <1>2, <1>4 DEF SecretIsLast
  <2>2. page'.secret # 0 => page'.secret = keysMade' /\ (page'.open \/ "closed early" \in mishaps')
    BY <1>1, <1>5, <1>7, <1>11, <2>1 DEF SecretIsLast
  <2>3. \A j \in OnWire' : wire'[j].ask \in {"pair", "rotate"} => page'.secret = 0
    BY <1>1, <1>5, <1>14, <1>15 DEF SecretIsLast
  <2>4. ASSUME NEW j \in OnWire', wire'[j].secret # 0
        PROVE  wire'[j].secret = keysMade' /\ wire'[j].ask \in {"pair", "rotate"} /\ wire'[j].at # "sent"
    <3>1. CASE j = i
      BY <1>7, <1>13, <1>14, <2>1, <2>4, <3>1
    <3>2. CASE j # i
      <4>1. j \in OnWire /\ wire'[j] = wire[j]
        BY <1>14, <3>2
      <4>2. wire[j].secret = keysMade /\ wire[j].ask \in {"pair", "rotate"} /\ wire[j].at # "sent"
        BY <1>1, <2>4, <4>1 DEF SecretIsLast
      <4>3. key = 0
        <5>1. SUFFICES ASSUME key # 0 PROVE FALSE
          OBVIOUS
        <5>2. r.ask \in Buttons /\ wire[j].ask \in Buttons
          BY <2>1, <4>2, <5>1 DEF Buttons
        <5>3. QED
          BY <1>1, <1>2, <3>2, <4>1, <5>2 DEF ButtonsAreOne
      <4>4. QED
        BY <1>7, <4>1, <4>2, <4>3
    <3>3. QED
      BY <3>1, <3>2
  <2>5. QED
    BY <2>2, <2>3, <2>4 DEF SecretIsLast
<1>19. ASSUME InExpectedOrder' PROVE WireIsInOrder' /\ AnswersAreLate' /\ ProjectIsToCome'
  <2>1. InExpectedOrder
    BY <1>11, <1>19 DEF InExpectedOrder
  <2>2. WireIsInOrder /\ AnswersAreLate /\ ProjectIsToCome
    BY <2>1 DEF ConnectionInv
  <2>3. \A j \in OnWire : j < i => wire[j].at # "sent"
    <3>1. "overtaken" \notin mishaps'
      BY <1>19 DEF InExpectedOrder
    <3>2. \A j \in 1..(i - 1) : wire[j].at # "sent"
      BY <1>11, <3>1
    <3>3. QED
      BY <3>2 DEF OnWire
  <2>4. \A j \in OnWire : j # i /\ wire[j].at = "sent" => i < j
    BY <2>3 DEF OnWire
  <2>5. \A j \in OnWire : i < j => wire[j].at # "served"
    BY <1>2, <1>5, <2>2 DEF WireIsInOrder
  <2>6. \A j \in OnWire : j # i /\ wire[j].at = "served" => j < i
    BY <2>5 DEF OnWire
  <2>7. WireIsInOrder'
    <3>1. ASSUME NEW j \in OnWire', NEW k \in OnWire', j < k, wire'[j].at = "sent" PROVE wire'[k].at # "served"
      <4>1. j # i /\ j \in OnWire /\ k \in OnWire /\ wire[j].at = "sent"
        BY <1>13, <1>14, <3>1
      <4>2. i < k /\ k # i
        BY <2>4, <3>1, <4>1 DEF OnWire
      <4>3. QED
        BY <1>14, <2>5, <4>1, <4>2
    <3>2. ASSUME NEW j \in OnWire', wire'[j].at = "lost" PROVE wire'[j].ask = "look"
      BY <1>13, <1>14, <2>2, <3>2 DEF WireIsInOrder
    <3>3. QED
      BY <3>1, <3>2 DEF WireIsInOrder
  <2>8. AnswersAreLate'
    <3>1. ASSUME NEW j \in OnWire', wire'[j].at = "served",
                 \A k \in OnWire' : j < k /\ wire'[k].at = "served" => wire'[k].ask = "look"
          PROVE  wire'[j].answer = bridge'
      <4>1. CASE j = i
        BY <1>5, <1>13, <1>14, <4>1
      <4>2. CASE j # i
        <5>1. j \in OnWire /\ wire'[j] = wire[j] /\ wire[j].at = "served"
          BY <1>14, <3>1, <4>2
        <5>2. j < i
          BY <2>6, <4>2, <5>1
        <5>3. r.ask = "look"
          BY <1>13, <1>14, <3>1, <5>2
        <5>4. \A k \in OnWire : j < k /\ wire[k].at = "served" => wire[k].ask = "look"
          BY <1>2, <1>14, <1>15, <3>1, <5>3
        <5>5. QED
          BY <1>5, <1>12, <2>2, <5>1, <5>3, <5>4 DEF AnswersAreLate
      <4>3. QED
        BY <4>1, <4>2
    <3>2. ASSUME \A j \in OnWire' : wire'[j].at = "served" => wire'[j].ask = "look"
          PROVE  page'.shown = bridge' \/ \E j \in OnWire' : wire'[j].at = "sent" /\ wire'[j].ask # "look"
      <4>1. r.ask = "look"
        BY <1>13, <1>14, <3>2
      <4>2. bridge' = bridge
        BY <1>5, <1>12, <4>1
      <4>3. \A j \in OnWire : wire[j].at = "served" => wire[j].ask = "look"
        BY <1>2, <1>14, <3>2, <4>1
      <4>4. CASE page.shown = bridge
        BY <1>5, <4>2, <4>4
      <4>5. CASE \E j \in OnWire : wire[j].at = "sent" /\ wire[j].ask # "look"
        BY <1>2, <1>14, <4>1, <4>5
      <4>6. QED
        BY <2>2, <4>3, <4>4, <4>5 DEF AnswersAreLate
    <3>3. QED
      BY <3>1, <3>2 DEF AnswersAreLate
  <2>9. ProjectIsToCome'
    <3>1. ~ToSet(i)' /\ \A j \in OnWire : j # i => (ToSet(j)' <=> ToSet(j))
      BY <1>13, <1>14 DEF ToSet
    <3>2. \A j \in OnWire : j # i /\ ToSet(j) => i < j
      BY <2>4 DEF ToSet
    <3>3. ASSUME NEW j \in OnWire', ToSet(j)', \A k \in OnWire' : j < k => ~ToSet(k)'
          PROVE  wire'[j].of = page'.project
      <4>1. j \in OnWire /\ j # i /\ ToSet(j)
        BY <1>14, <3>1, <3>3
      <4>2. i < j
        BY <3>2, <4>1
      <4>3. ASSUME NEW k \in OnWire, j < k PROVE ~ToSet(k)
        <5>1. k # i
          BY <4>1, <4>2, <4>3 DEF OnWire
        <5>2. QED
          BY <1>14, <3>1, <3>3, <4>3, <5>1
      <4>4. QED
        BY <1>5, <1>15, <2>2, <4>1, <4>3 DEF ProjectIsToCome
    <3>4. ASSUME \A j \in OnWire' : ~ToSet(j)' PROVE bridge'.project = page'.project
      <4>1. \A j \in OnWire : j # i => ~ToSet(j)
        BY <1>14, <3>1, <3>4
      <4>2. CASE r.ask \in Contexts
        <5>1. ToSet(i)
          BY <1>2, <1>5, <4>2 DEF ToSet
        <5>2. \A j \in OnWire : i < j => ~ToSet(j)
          BY <4>1 DEF OnWire
        <5>3. wire[i].of = page.project
          BY <2>2, <5>1, <5>2 DEF ProjectIsToCome
        <5>4. QED
          BY <1>2, <1>5, <1>12, <4>2, <5>3
      <4>3. CASE r.ask \notin Contexts
        <5>1. ~ToSet(i)
          BY <1>2, <4>3 DEF ToSet
        <5>2. bridge.project = page.project
          BY <2>2, <4>1, <5>1 DEF ProjectIsToCome
        <5>3. QED
          BY <1>5, <1>12, <4>3, <5>2
      <4>4. QED
        BY <4>2, <4>3
    <3>5. QED
      BY <3>3, <3>4 DEF ProjectIsToCome
  <2>10. QED
    BY <2>7, <2>8, <2>9
<1>20. QED
  BY <1>16, <1>17, <1>18, <1>19 DEF ConnectionInv


LEMMA LoseKeeps == ASSUME ConnectionInv, NEW i \in OnWire, Lose(i) PROVE ConnectionInv'
<1>1. ConnectionTyped /\ ButtonsAreOne /\ SecretIsLast
  BY DEF ConnectionInv
<1>2. PICK r : r = wire[i]
  OBVIOUS
<1>3. r \in Messages
  BY <1>1, <1>2 DEF ConnectionTyped, OnWire
<1>4. PICK q : q = [r EXCEPT !.at = "lost"]
  OBVIOUS
<1>5. /\ q \in Messages /\ q.at = "lost" /\ q.answer = r.answer /\ q.secret = r.secret
      /\ q.ask = r.ask /\ q.of = r.of
  BY <1>3, <1>4 DEF Messages
<1>6. wire' = [wire EXCEPT ![i] = q]
  BY <1>2, <1>4 DEF Lose
<1>7. /\ wire' \in Seq(Messages) /\ OnWire' = OnWire /\ wire'[i] = q
      /\ \A j \in OnWire : j # i => wire'[j] = wire[j]
  BY <1>1, <1>5, <1>6, OneChanges
<1>8. \A j \in OnWire : wire'[j].ask = wire[j].ask /\ wire'[j].of = wire[j].of /\ wire'[j].secret = wire[j].secret
  BY <1>2, <1>5, <1>7
<1>9. bridge' = bridge /\ keysMade' = keysMade /\ page' = page
  BY DEF Lose
<1>10. mishaps' = IF r.ask = "look" THEN mishaps ELSE mishaps \union {"lost"}
  BY <1>2 DEF Lose
<1>11. ConnectionTyped'
  <2>1. \A j \in OnWire : wire'[j].ask \in Contexts => wire'[j].of \in Projects
    BY <1>1, <1>8 DEF ConnectionTyped
  <2>2. QED
    BY <1>1, <1>7, <1>9, <2>1 DEF ConnectionTyped
<1>12. ButtonsAreOne'
  <2>1. page'.busy <=> \E j \in OnWire' : wire'[j].ask \in Buttons
    BY <1>1, <1>7, <1>8, <1>9 DEF ButtonsAreOne
  <2>2. \A j, k \in OnWire' : wire'[j].ask \in Buttons /\ wire'[k].ask \in Buttons => j = k
    BY <1>1, <1>7, <1>8 DEF ButtonsAreOne
  <2>3. page'.busy => page'.open \/ "closed early" \in mishaps'
    BY <1>1, <1>9, <1>10 DEF ButtonsAreOne
  <2>4. QED
    BY <2>1, <2>2, <2>3 DEF ButtonsAreOne
<1>13. SecretIsLast'
  <2>1. page'.secret # 0 => page'.secret = keysMade' /\ (page'.open \/ "closed early" \in mishaps')
    BY <1>1, <1>9, <1>10 DEF SecretIsLast
  <2>2. \A j \in OnWire' : wire'[j].ask \in {"pair", "rotate"} => page'.secret = 0
    BY <1>1, <1>7, <1>8, <1>9 DEF SecretIsLast
  <2>3. ASSUME NEW j \in OnWire', wire'[j].secret # 0
        PROVE  wire'[j].secret = keysMade' /\ wire'[j].ask \in {"pair", "rotate"} /\ wire'[j].at # "sent"
    <3>1. j \in OnWire /\ wire[j].secret # 0
      BY <1>7, <1>8, <2>3
    <3>2. wire[j].secret = keysMade /\ wire[j].ask \in {"pair", "rotate"} /\ wire[j].at # "sent"
      BY <1>1, <3>1 DEF SecretIsLast
    <3>3. wire'[j].at # "sent"
      BY <1>5, <1>7, <3>1, <3>2
    <3>4. QED
      BY <1>8, <1>9, <3>1, <3>2, <3>3
  <2>4. QED
    BY <2>1, <2>2, <2>3 DEF SecretIsLast
<1>14. ASSUME InExpectedOrder' PROVE WireIsInOrder' /\ AnswersAreLate' /\ ProjectIsToCome'
  <2>1. r.ask = "look" /\ mishaps' = mishaps
    BY <1>10, <1>14 DEF InExpectedOrder
  <2>2. WireIsInOrder /\ AnswersAreLate /\ ProjectIsToCome
    BY <1>14, <2>1 DEF ConnectionInv, InExpectedOrder
  <2>3. WireIsInOrder'
    <3>1. ASSUME NEW j \in OnWire', NEW k \in OnWire', j < k, wire'[j].at = "sent" PROVE wire'[k].at # "served"
      <4>1. j # i /\ j \in OnWire /\ k \in OnWire /\ wire[j].at = "sent"
        BY <1>5, <1>7, <3>1
      <4>2. wire[k].at # "served"
        BY <2>2, <3>1, <4>1 DEF WireIsInOrder
      <4>3. QED
        BY <1>5, <1>7, <4>1, <4>2
    <3>2. ASSUME NEW j \in OnWire', wire'[j].at = "lost" PROVE wire'[j].ask = "look"
      BY <1>5, <1>7, <2>1, <2>2, <3>2 DEF WireIsInOrder
    <3>3. QED
      BY <3>1, <3>2 DEF WireIsInOrder
  <2>4. AnswersAreLate'
    <3>1. ASSUME NEW j \in OnWire', wire'[j].at = "served",
                 \A k \in OnWire' : j < k /\ wire'[k].at = "served" => wire'[k].ask = "look"
          PROVE  wire'[j].answer = bridge'
      <4>1. j # i /\ j \in OnWire /\ wire'[j] = wire[j]
        BY <1>5, <1>7, <3>1
      <4>2. \A k \in OnWire : j < k /\ wire[k].at = "served" => wire[k].ask = "look"
        BY <1>2, <1>7, <2>1, <3>1
      <4>3. QED
        BY <1>9, <2>2, <3>1, <4>1, <4>2 DEF AnswersAreLate
    <3>2. ASSUME \A j \in OnWire' : wire'[j].at = "served" => wire'[j].ask = "look"
          PROVE  page'.shown = bridge' \/ \E j \in OnWire' : wire'[j].at = "sent" /\ wire'[j].ask # "look"
      <4>1. \A j \in OnWire : wire[j].at = "served" => wire[j].ask = "look"
        BY <1>2, <1>7, <2>1, <3>2
      <4>2. CASE page.shown = bridge
        BY <1>9, <4>2
      <4>3. CASE \E j \in OnWire : wire[j].at = "sent" /\ wire[j].ask # "look"
        BY <1>2, <1>7, <2>1, <4>3
      <4>4. QED
        BY <2>2, <4>1, <4>2, <4>3 DEF AnswersAreLate
    <3>3. QED
      BY <3>1, <3>2 DEF AnswersAreLate
  <2>5. ProjectIsToCome'
    <3>1. "look" \notin Contexts
      BY DEF Contexts
    <3>2. \A j \in OnWire : ToSet(j)' <=> ToSet(j)
      BY <1>2, <1>5, <1>7, <2>1, <3>1 DEF ToSet
    <3>3. ASSUME NEW j \in OnWire', ToSet(j)', \A k \in OnWire' : j < k => ~ToSet(k)'
          PROVE  wire'[j].of = page'.project
      <4>1. j \in OnWire /\ ToSet(j) /\ \A k \in OnWire : j < k => ~ToSet(k)
        BY <1>7, <3>2, <3>3
      <4>2. QED
        BY <1>8, <1>9, <2>2, <4>1 DEF ProjectIsToCome
    <3>4. (\A j \in OnWire' : ~ToSet(j)') => bridge'.project = page'.project
      BY <1>7, <1>9, <2>2, <3>2 DEF ProjectIsToCome
    <3>5. QED
      BY <3>3, <3>4 DEF ProjectIsToCome
  <2>6. QED
    BY <2>3, <2>4, <2>5
<1>15. QED
  BY <1>11, <1>12, <1>13, <1>14 DEF ConnectionInv

(* One is taken off the wire; what is left was there, in the same order.          *)
Was(i, j) == IF j < i THEN j ELSE j + 1

LEMMA OneIsTaken ==
  ASSUME ConnectionTyped, NEW i \in OnWire, wire' = WithoutAt(i)
  PROVE  /\ wire' \in Seq(Messages)
         /\ \A j \in OnWire' : Was(i, j) \in OnWire /\ Was(i, j) # i /\ wire'[j] = wire[Was(i, j)]
         /\ \A k \in OnWire : k # i => \E j \in OnWire' : k = Was(i, j)
         /\ \A j, k \in OnWire' : (j < k <=> Was(i, j) < Was(i, k)) /\ (Was(i, j) = Was(i, k) => j = k)
<1>1. wire \in Seq(Messages) /\ Len(wire) \in Nat /\ i \in 1..Len(wire)
  BY DEF ConnectionTyped, OnWire
<1>2. PICK n \in Nat : n = Len(wire) - 1
  BY <1>1
<1>3. \A j \in 1..n : Was(i, j) \in 1..Len(wire) /\ Was(i, j) # i
  BY <1>1, <1>2 DEF Was
<1>4. wire' = [j \in 1..n |-> wire[Was(i, j)]]
  BY <1>2 DEF WithoutAt, Was
<1>5. \A j \in 1..n : wire[Was(i, j)] \in Messages
  BY <1>1, <1>3
<1>6. wire' \in Seq(Messages) /\ Len(wire') = n
  BY <1>2, <1>4, <1>5
<1>7. OnWire' = 1..n
  BY <1>6 DEF OnWire
<1>8. \A j \in OnWire' : Was(i, j) \in OnWire /\ Was(i, j) # i /\ wire'[j] = wire[Was(i, j)]
  BY <1>3, <1>4, <1>7 DEF OnWire
<1>9. ASSUME NEW k \in OnWire, k # i PROVE \E j \in OnWire' : k = Was(i, j)
  <2>1. k \in 1..Len(wire)
    BY DEF OnWire
  <2>2. CASE k < i
    <3>1. k \in 1..n /\ k = Was(i, k)
      BY <1>1, <1>2, <2>1, <2>2 DEF Was
    <3>2. QED
      BY <1>7, <3>1
  <2>3. CASE i < k
    <3>1. k - 1 \in 1..n /\ k = Was(i, k - 1)
      BY <1>1, <1>2, <2>1, <2>3 DEF Was
    <3>2. QED
      BY <1>7, <3>1
  <2>4. QED
    BY <1>1, <1>9, <2>1, <2>2, <2>3
<1>10. \A j, k \in OnWire' : (j < k <=> Was(i, j) < Was(i, k)) /\ (Was(i, j) = Was(i, k) => j = k)
  BY <1>1, <1>7 DEF Was
<1>11. QED
  BY <1>6, <1>8, <1>9, <1>10

LEMMA ArrivesKeeps == ASSUME ConnectionInv, NEW i \in OnWire, Arrives(i) PROVE ConnectionInv'
<1>1. ConnectionTyped /\ ButtonsAreOne /\ SecretIsLast
  BY DEF ConnectionInv
<1>2. PICK r : r = wire[i]
  OBVIOUS
<1>3. r \in Messages /\ page \in Pages
  BY <1>1, <1>2 DEF ConnectionTyped, OnWire
<1>4. r.at # "sent" /\ bridge' = bridge /\ keysMade' = keysMade /\ wire' = WithoutAt(i)
  BY <1>2 DEF Arrives
<1>5. mishaps' = IF i > 1 THEN mishaps \union {"overtaken"} ELSE mishaps
  BY DEF Arrives
<1>6. /\ wire' \in Seq(Messages)
      /\ \A j \in OnWire' : Was(i, j) \in OnWire /\ Was(i, j) # i /\ wire'[j] = wire[Was(i, j)]
      /\ \A k \in OnWire : k # i => \E j \in OnWire' : k = Was(i, j)
      /\ \A j, k \in OnWire' : (j < k <=> Was(i, j) < Was(i, k)) /\ (Was(i, j) = Was(i, k) => j = k)
  BY <1>1, <1>4, OneIsTaken
<1>7. PICK activity \in {page.activity, ActivityOf(r)} :
        page' = [Taken(r) EXCEPT !.busy = StillBusy(r), !.activity = activity]
  BY <1>2 DEF Arrives
<1>8. activity \in Projects
  <2>1. page.project \in Projects /\ page.activity \in Projects
    BY <1>3 DEF Pages
  <2>2. ActivityOf(r) \in Projects
    BY <2>1 DEF ActivityOf
  <2>3. QED
    BY <1>7, <2>1, <2>2
<1>9. /\ Taken(r) \in Pages /\ Taken(r).project = page.project /\ Taken(r).open = page.open
      /\ Taken(r).shown = IF r.at = "lost" THEN page.shown ELSE r.answer
      /\ Taken(r).secret = IF r.at = "lost" \/ r.secret = 0 THEN page.secret ELSE r.secret
  BY <1>3 DEF Taken, Pages, Messages
<1>10. StillBusy(r) \in BOOLEAN /\ (StillBusy(r) <=> page.busy /\ r.ask \notin Buttons)
  BY <1>3 DEF StillBusy, Pages
<1>11. /\ page' \in Pages /\ page'.project = page.project /\ page'.open = page.open
       /\ page'.shown = (IF r.at = "lost" THEN page.shown ELSE r.answer)
       /\ page'.secret = (IF r.at = "lost" \/ r.secret = 0 THEN page.secret ELSE r.secret)
       /\ page'.busy = StillBusy(r)
  BY <1>7, <1>8, <1>9, <1>10 DEF Pages
<1>12. r.ask \in Buttons => \A j \in OnWire' : wire'[j].ask \notin Buttons
  BY <1>1, <1>2, <1>6 DEF ButtonsAreOne
<1>13. r.secret # 0 => r.secret = keysMade /\ r.ask \in {"pair", "rotate"} /\ r.ask \in Buttons
  BY <1>1, <1>2 DEF SecretIsLast, Buttons
<1>14. mishaps \subseteq mishaps'
  BY <1>5
<1>15. ConnectionTyped'
  <2>1. \A j \in OnWire' : wire'[j].ask \in Contexts => wire'[j].of \in Projects
    BY <1>1, <1>6 DEF ConnectionTyped
  <2>2. QED
    BY <1>1, <1>4, <1>6, <1>11, <2>1 DEF ConnectionTyped
<1>16. ButtonsAreOne'
  <2>1. page'.busy <=> \E j \in OnWire' : wire'[j].ask \in Buttons
    <3>1. CASE r.ask \in Buttons
      BY <1>10, <1>11, <1>12, <3>1
    <3>2. CASE r.ask \notin Buttons
      <4>1. (\E j \in OnWire : wire[j].ask \in Buttons) => \E j \in OnWire' : wire'[j].ask \in Buttons
        <5>1. ASSUME NEW k \in OnWire, wire[k].ask \in Buttons PROVE \E j \in OnWire' : wire'[j].ask \in Buttons
          <6>1. k # i
            BY <1>2, <3>2, <5>1
          <6>2. PICK j \in OnWire' : k = Was(i, j)
            BY <1>6, <6>1
          <6>3. QED
            BY <1>6, <5>1, <6>2
        <5>2. QED
          BY <5>1
      <4>2. (\E j \in OnWire' : wire'[j].ask \in Buttons) => \E j \in OnWire : wire[j].ask \in Buttons
        BY <1>6
      <4>3. page'.busy <=> page.busy
        BY <1>10, <1>11, <3>2
      <4>4. QED
        BY <1>1, <4>1, <4>2, <4>3 DEF ButtonsAreOne
    <3>3. QED
      BY <3>1, <3>2
  <2>2. ASSUME NEW j \in OnWire', NEW k \in OnWire', wire'[j].ask \in Buttons, wire'[k].ask \in Buttons PROVE j = k
    <3>1. Was(i, j) = Was(i, k)
      BY <1>1, <1>6, <2>2 DEF ButtonsAreOne
    <3>2. QED
      BY <1>6, <3>1
  <2>3. page'.busy => page'.open \/ "closed early" \in mishaps'
    BY <1>1, <1>10, <1>11, <1>14 DEF ButtonsAreOne
  <2>4. QED
    BY <2>1, <2>2, <2>3 DEF ButtonsAreOne
<1>17. SecretIsLast'
  <2>1. page'.secret # 0 => page'.secret = keysMade' /\ (page'.open \/ "closed early" \in mishaps')
    <3>1. CASE r.at = "lost" \/ r.secret = 0
      BY <1>1, <1>4, <1>11, <1>14, <3>1 DEF SecretIsLast
    <3>2. CASE ~(r.at = "lost" \/ r.secret = 0)
      <4>1. page.busy
        BY <1>1, <1>2, <1>13, <3>2 DEF ButtonsAreOne
      <4>2. page.open \/ "closed early" \in mishaps
        BY <1>1, <4>1 DEF ButtonsAreOne
      <4>3. QED
        BY <1>4, <1>11, <1>13, <1>14, <3>2, <4>2
    <3>3. QED
      BY <3>1, <3>2
  <2>2. ASSUME NEW j \in OnWire', wire'[j].ask \in {"pair", "rotate"} PROVE page'.secret = 0
    <3>1. wire'[j].ask \in Buttons
      BY <2>2 DEF Buttons
    <3>2. r.secret = 0
      BY <1>12, <1>13, <3>1
    <3>3. page.secret = 0
      BY <1>1, <1>6, <2>2 DEF SecretIsLast
    <3>4. QED
      BY <1>11, <3>2, <3>3
  <2>3. ASSUME NEW j \in OnWire', wire'[j].secret # 0
        PROVE  wire'[j].secret = keysMade' /\ wire'[j].ask \in {"pair", "rotate"} /\ wire'[j].at # "sent"
    <3>1. Was(i, j) \in OnWire /\ wire'[j] = wire[Was(i, j)]
      BY <1>6
    <3>2. QED
      BY <1>1, <1>4, <2>3, <3>1 DEF SecretIsLast
  <2>4. QED
    BY <2>1, <2>2, <2>3 DEF SecretIsLast
<1>18. ASSUME InExpectedOrder' PROVE WireIsInOrder' /\ AnswersAreLate' /\ ProjectIsToCome'
  <2>1. InExpectedOrder /\ ~(i > 1)
    BY <1>5, <1>18 DEF InExpectedOrder
  <2>2. WireIsInOrder /\ AnswersAreLate /\ ProjectIsToCome
    BY <2>1 DEF ConnectionInv
  <2>3. \A k \in OnWire : k = i \/ i < k
    BY <2>1 DEF OnWire
  <2>4. WireIsInOrder'
    <3>1. ASSUME NEW j \in OnWire', NEW k \in OnWire', j < k, wire'[j].at = "sent" PROVE wire'[k].at # "served"
      BY <1>6, <2>2, <3>1 DEF WireIsInOrder
    <3>2. ASSUME NEW j \in OnWire', wire'[j].at = "lost" PROVE wire'[j].ask = "look"
      BY <1>6, <2>2, <3>2 DEF WireIsInOrder
    <3>3. QED
      BY <3>1, <3>2 DEF WireIsInOrder
  <2>5. AnswersAreLate'
    <3>1. ASSUME NEW j \in OnWire', wire'[j].at = "served",
                 \A k \in OnWire' : j < k /\ wire'[k].at = "served" => wire'[k].ask = "look"
          PROVE  wire'[j].answer = bridge'
      <4>1. Was(i, j) \in OnWire /\ wire[Was(i, j)].at = "served" /\ wire'[j] = wire[Was(i, j)]
        BY <1>6, <3>1
      <4>2. ASSUME NEW k \in OnWire, Was(i, j) < k, wire[k].at = "served" PROVE wire[k].ask = "look"
        <5>1. k # i
          <6>1. i < Was(i, j)
            BY <1>6, <2>3
          <6>2. QED
            BY <4>1, <4>2, <6>1 DEF OnWire
        <5>2. PICK m \in OnWire' : k = Was(i, m)
          BY <1>6, <5>1
        <5>3. j < m /\ wire'[m] = wire[k]
          BY <1>6, <4>2, <5>2
        <5>4. QED
          BY <3>1, <4>2, <5>3
      <4>3. QED
        BY <1>4, <2>2, <4>1, <4>2 DEF AnswersAreLate
    <3>2. ASSUME \A j \in OnWire' : wire'[j].at = "served" => wire'[j].ask = "look"
          PROVE  page'.shown = bridge' \/ \E j \in OnWire' : wire'[j].at = "sent" /\ wire'[j].ask # "look"
      <4>1. ASSUME NEW k \in OnWire, k # i, wire[k].at = "served" PROVE wire[k].ask = "look"
        <5>1. PICK j \in OnWire' : k = Was(i, j)
          BY <1>6, <4>1
        <5>2. QED
          BY <1>6, <3>2, <4>1, <5>1
      <4>2. CASE r.at = "served"
        <5>1. \A k \in OnWire : i < k /\ wire[k].at = "served" => wire[k].ask = "look"
          BY <4>1 DEF OnWire
        <5>2. r.answer = bridge
          BY <1>2, <2>2, <4>2, <5>1 DEF AnswersAreLate
        <5>3. QED
          BY <1>4, <1>11, <4>2, <5>2
      <4>3. CASE r.at = "lost"
        <5>1. \A k \in OnWire : wire[k].at = "served" => wire[k].ask = "look"
          BY <1>2, <4>1, <4>3
        <5>2. CASE page.shown = bridge
          BY <1>4, <1>11, <4>3, <5>2
        <5>3. CASE \E k \in OnWire : wire[k].at = "sent" /\ wire[k].ask # "look"
          <6>1. PICK k \in OnWire : wire[k].at = "sent" /\ wire[k].ask # "look"
            BY <5>3
          <6>2. k # i
            BY <1>2, <1>4, <6>1
          <6>3. PICK j \in OnWire' : k = Was(i, j)
            BY <1>6, <6>2
          <6>4. QED
            BY <1>6, <6>1, <6>3
        <5>4. QED
          BY <2>2, <5>1, <5>2, <5>3 DEF AnswersAreLate
      <4>4. r.at = "served" \/ r.at = "lost"
        BY <1>3, <1>4 DEF Messages
      <4>5. QED
        BY <4>2, <4>3, <4>4
    <3>3. QED
      BY <3>1, <3>2 DEF AnswersAreLate
  <2>6. ProjectIsToCome'
    <3>1. ~ToSet(i)
      BY <1>2, <1>4 DEF ToSet
    <3>2. \A j \in OnWire' : ToSet(j)' <=> ToSet(Was(i, j))
      BY <1>6 DEF ToSet
    <3>3. ASSUME NEW j \in OnWire', ToSet(j)', \A k \in OnWire' : j < k => ~ToSet(k)'
          PROVE  wire'[j].of = page'.project
      <4>1. Was(i, j) \in OnWire /\ ToSet(Was(i, j)) /\ wire'[j] = wire[Was(i, j)]
        BY <1>6, <3>2, <3>3
      <4>2. ASSUME NEW k \in OnWire, Was(i, j) < k PROVE ~ToSet(k)
        <5>1. CASE k = i
          BY <3>1, <5>1
        <5>2. CASE k # i
          <6>1. PICK m \in OnWire' : k = Was(i, m)
            BY <1>6, <5>2
          <6>2. QED
            BY <1>6, <3>2, <3>3, <4>2, <6>1
        <5>3. QED
          BY <5>1, <5>2
      <4>3. QED
        BY <1>11, <2>2, <4>1, <4>2 DEF ProjectIsToCome
    <3>4. ASSUME \A j \in OnWire' : ~ToSet(j)' PROVE bridge'.project = page'.project
      <4>1. ASSUME NEW k \in OnWire PROVE ~ToSet(k)
        <5>1. CASE k = i
          BY <3>1, <5>1
        <5>2. CASE k # i
          <6>1. PICK m \in OnWire' : k = Was(i, m)
            BY <1>6, <5>2
          <6>2. QED
            BY <3>2, <3>4, <6>1
        <5>3. QED
          BY <5>1, <5>2
      <4>2. QED
        BY <1>4, <1>11, <2>2, <4>1 DEF ProjectIsToCome
    <3>5. QED
      BY <3>3, <3>4 DEF ProjectIsToCome
  <2>7. QED
    BY <2>4, <2>5, <2>6
<1>19. QED
  BY <1>15, <1>16, <1>17, <1>18 DEF ConnectionInv


LEMMA ConnectionStepSound == ASSUME ConnectionInv, [ConnectionNext]_connectionVars PROVE ConnectionInv'
<1>1. CASE ProjectChanges
  BY <1>1, ProjectChangesKeeps
<1>2. CASE OpenCenter
  BY <1>2, OpenCenterKeeps
<1>3. CASE Refresh
  BY <1>3, RefreshKeeps
<1>4. CASE CloseCenter
  BY <1>4, CloseCenterKeeps
<1>5. CASE Press
  BY <1>5, PressKeeps
<1>6. ASSUME NEW i \in 1..Len(wire), Serve(i) \/ Lose(i) \/ Arrives(i) PROVE ConnectionInv'
  BY <1>6, ServeKeeps, LoseKeeps, ArrivesKeeps DEF OnWire
<1>7. CASE UNCHANGED connectionVars
  <2>1. bridge' = bridge /\ keysMade' = keysMade /\ page' = page /\ wire' = wire /\ mishaps' = mishaps
    BY <1>7 DEF connectionVars
  <2>2. OnWire' = OnWire /\ (InExpectedOrder' <=> InExpectedOrder)
    BY <2>1 DEF OnWire, InExpectedOrder
  <2>3. ConnectionTyped' /\ ButtonsAreOne' /\ SecretIsLast'
    BY <2>1, <2>2 DEF ConnectionInv, ConnectionTyped, ButtonsAreOne, SecretIsLast
  <2>4. (WireIsInOrder => WireIsInOrder') /\ (AnswersAreLate => AnswersAreLate')
    BY <2>1, <2>2 DEF WireIsInOrder, AnswersAreLate
  <2>5. ProjectIsToCome => ProjectIsToCome'
    BY <2>1, <2>2 DEF ProjectIsToCome, ToSet
  <2>6. QED
    BY <2>2, <2>3, <2>4, <2>5 DEF ConnectionInv
<1>8. QED
  BY <1>1, <1>2, <1>3, <1>4, <1>5, <1>6, <1>7 DEF ConnectionNext

LEMMA ConnectionIsSo == ASSUME ConnectionInv PROVE ConnectionIsTrue
<1>1. page.busy <=> \E i \in 1..Len(wire) : wire[i].ask \in Buttons
  BY DEF ConnectionInv, ButtonsAreOne, OnWire
<1>2. page.secret # 0 => page.secret = keysMade /\ (page.open \/ "closed early" \in mishaps)
  BY DEF ConnectionInv, SecretIsLast
<1>3. ASSUME wire = << >>, InExpectedOrder PROVE bridge.project = page.project /\ page.shown = bridge
  <2>1. OnWire = {}
    BY <1>3 DEF OnWire
  <2>2. AnswersAreLate /\ ProjectIsToCome
    BY <1>3 DEF ConnectionInv
  <2>3. QED
    BY <2>1, <2>2 DEF AnswersAreLate, ProjectIsToCome
<1>4. QED
  BY <1>1, <1>2, <1>3 DEF ConnectionIsTrue

(* The page of the bridge has its buttons disabled exactly while one of them is   *)
(* under way, shows no credential but the last, and where all was answered in     *)
(* the order in which it was asked, shows the bridge as it is and has Agents work *)
(* on the project that is open: for any projects and numbers of requests.         *)
THEOREM ConnectionHolds == ConnectionSpec => []ConnectionIsTrue
<1>1. ConnectionInit => ConnectionInv
  BY ConnectionInitSound
<1>2. ConnectionInv /\ [ConnectionNext]_connectionVars => ConnectionInv'
  BY ConnectionStepSound
<1>3. ConnectionInv => ConnectionIsTrue
  BY ConnectionIsSo
<1>4. QED
  BY <1>1, <1>2, <1>3, PTL DEF ConnectionSpec


(* What the bridge tells the page and the Agents of itself is so, and so is what  *)
(* the page makes of it: for any numbers of requests, servers, calls and          *)
(* projects, where servers are started and stopped one at a time.                 *)
THEOREM BridgeStaysTrue == Serial => (BridgeSpec /\ ConnectionSpec => []BridgeIsTrue)
<1>1. StatusIsTrue /\ CallsAreTrue /\ ConnectionIsTrue => BridgeIsTrue
  BY DEF BridgeIsTrue
<1>2. QED
  BY <1>1, BridgeHolds, ConnectionHolds, PTL
================================================================================
