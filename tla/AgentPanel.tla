-------------------------------- MODULE AgentPanel --------------------------------
(* The Agent panel of a page and the context references a turn is given: what the   *)
(* user selects (store/selection-store, ContextSelectionController), what the panel  *)
(* attaches, sends and keeps (AgentWorkspacePanel, lib/client/agent), and how the    *)
(* server grounds a turn in the project (runner.ts 211 to 252, lib/ai/context,       *)
(* context-reference-service) while other windows change it. The turn itself is in   *)
(* AgentSession.                                                                    *)
EXTENDS Integers, Sequences, FiniteSets

CONSTANTS
  Target,          \* what can be selected: records with a kind and an id
  Kept,            \* the findings, Missions and steps the production records hold
  Reselects,       \* a user may select again, in a turn, what the turn was sent with
  MaxRevisions,    \* bound: changes of the project
  MaxAttached,     \* bound: references made
  MaxRequests      \* bound: turns the server is at

ASSUME PanelAssumption ==
  /\ Reselects \in BOOLEAN
  /\ {MaxRevisions, MaxAttached, MaxRequests} \subseteq Nat

VARIABLES
  versions,        \* of each revision of the project: the targets that exist in it
  pageRevision,    \* the revision the panel shows
  selectionMode,   \* contextSelectionMode
  selectedTarget,  \* selectedContextTarget, as a set of one or none
  drafts,          \* draftContextReferences: no two of one target
  attached,        \* references made, which numbers them
  turnStep,        \* where `send` stands
  panelSession,    \* the panel has a session
  requests,        \* the latest turn asked for and those the server is still at, by number
  turn,            \* the number of the latest one
  wanted           \* targets the user attached since the turn under way was sent

panel == <<selectionMode, selectedTarget, drafts, attached, wanted>>
sending == <<turnStep, panelSession, turn>>
panelVars == <<versions, pageRevision, panel, sending, requests>>

-------------------------------------------------------------------------------
ProjectTarget == [kind |-> "project", id |-> "project"]
PlacedKinds == {"scene", "clip", "asset", "track", "transcript-range", "timeline-point", "viewer-region"}
StoredKinds == {"qa-finding", "mission", "mission-step"}

Revision == Len(versions) - 1
TargetsAt(revision) == versions[revision + 1]
Busy == turnStep # "idle"

(* Jobs and export presets have no resolver.                                        *)
Exists(target, revision) ==
  \/ target.kind = "project"
  \/ target.kind \in PlacedKinds /\ target \in TargetsAt(revision)
  \/ target.kind \in StoredKinds /\ target \in Kept

(* Mutant: the revision a reference was captured at is not compared.                 *)
ResolvesByName(reference, revision) == Exists(reference.target, revision)
Resolves(reference, revision) ==
  /\ reference.base = revision
  /\ Exists(reference.target, revision)

PanelInit ==
  /\ versions = <<{t \in Target : t.kind \in PlacedKinds}>>
  /\ pageRevision = 0
  /\ selectionMode = FALSE
  /\ selectedTarget = {}
  /\ drafts = {}
  /\ attached = 0
  /\ turnStep = "idle"
  /\ panelSession \in BOOLEAN
  /\ requests = <<>>
  /\ turn = 0
  /\ wanted = {}

-------------------------------------------------------------------------------
(* The project changes, in this window or in another, and a scene or a clip may go.  *)
Change ==
  /\ Revision < MaxRevisions
  /\ \E gone \in SUBSET TargetsAt(Revision), here \in BOOLEAN :
       /\ Cardinality(gone) <= 1
       /\ versions' = Append(versions, TargetsAt(Revision) \ gone)
       /\ here => pageRevision = Revision
       /\ pageRevision' = IF here THEN Revision + 1 ELSE pageRevision
  /\ UNCHANGED <<panel, sending, requests>>

ShowLatest ==
  /\ pageRevision # Revision
  /\ pageRevision' = Revision
  /\ UNCHANGED <<versions, panel, sending, requests>>

-------------------------------------------------------------------------------
(* What the user selects and attaches.                                              *)
(* attachTarget: the reference of a target is kept if it is of the revision shown,   *)
(* and made again in its place if not.                                              *)
Attach(target) ==
  LET new == [id |-> attached + 1, target |-> target, base |-> pageRevision]
      same == {r \in drafts : r.target = target}
      fresh == \E r \in same : r.base = pageRevision
  IN /\ fresh \/ attached < MaxAttached
     /\ attached' = IF fresh THEN attached ELSE attached + 1
     /\ drafts' = IF fresh THEN drafts ELSE (drafts \ same) \cup {new}
     /\ wanted' = IF Busy THEN wanted \cup {target} ELSE wanted

SentWith(target) ==
  /\ Busy
  /\ \E r \in requests[turn].refs : r.target = target /\ r.base = pageRevision

(* A selection is attached at once in selection mode, during a turn as well.         *)
Select(target) ==
  /\ selectedTarget' = {target}
  /\ IF selectionMode
     THEN Attach(target) /\ (SentWith(target) => Reselects)
     ELSE UNCHANGED <<drafts, attached, wanted>>
  /\ UNCHANGED <<versions, pageRevision, selectionMode, sending, requests>>

ClearSelection ==
  /\ selectedTarget # {}
  /\ selectedTarget' = {}
  /\ UNCHANGED <<versions, pageRevision, selectionMode, drafts, attached, wanted, sending, requests>>

(* The button is disabled during a turn; Escape leaves the mode at any time.         *)
ToggleMode ==
  /\ Busy => selectionMode
  /\ selectionMode' = ~selectionMode
  /\ UNCHANGED <<versions, pageRevision, selectedTarget, drafts, attached, wanted, sending, requests>>

AddCurrentContext ==
  /\ ~Busy
  /\ \E target \in IF selectedTarget = {} THEN {ProjectTarget} ELSE selectedTarget : Attach(target)
  /\ UNCHANGED <<versions, pageRevision, selectionMode, selectedTarget, sending, requests>>

RemoveContext(reference) ==
  /\ drafts' = {r \in drafts : r.id # reference.id}
  /\ wanted' = wanted \ {reference.target}
  /\ UNCHANGED <<versions, pageRevision, selectionMode, selectedTarget, attached, sending, requests>>

-------------------------------------------------------------------------------
(* `send` and runAgentTurn.                                                         *)
Requested(refs) == [refs |-> refs, at |-> "asked", context |-> 0, resolved |-> 0, applied |-> FALSE]

Underway == {k \in DOMAIN requests : requests[k].at \notin {"refused", "ended"}}

SendTurn ==
  /\ ~Busy
  /\ \E k \in 1..MaxRequests :
       /\ k \notin Underway /\ 1..(k - 1) \subseteq Underway
       /\ turn' = k
       /\ requests' = [n \in Underway \cup {k} |->
            IF n # k THEN requests[n]
            ELSE [Requested(drafts) EXCEPT !.at = IF panelSession THEN "asked" ELSE "held"]]
  /\ wanted' = {}
  /\ turnStep' = IF panelSession THEN "streaming" ELSE "creating"
  /\ UNCHANGED <<versions, pageRevision, selectionMode, selectedTarget, drafts, attached, panelSession>>

(* The panel gives up: what was drafted stays.                                       *)
Failed == turnStep' = "idle" /\ wanted' = {} /\ UNCHANGED drafts

(* createAgentSession has no signal: an abort shows when the turn is asked for.      *)
Created ==
  /\ turnStep \in {"creating", "abandoned"}
  /\ \/ /\ panelSession' = TRUE /\ turnStep = "creating"
        /\ requests' = [requests EXCEPT ![turn].at = "asked"]
        /\ turnStep' = "streaming" /\ UNCHANGED <<drafts, wanted>>
     \/ /\ panelSession' \in {FALSE, turnStep = "abandoned"}
        /\ requests' = [k \in DOMAIN requests \ {turn} |-> requests[k]]
        /\ Failed
  /\ UNCHANGED <<versions, pageRevision, selectionMode, selectedTarget, attached, turn>>

(* Cancelled by the user, or the connection breaks: the server goes on to where it   *)
(* looks at the signal.                                                             *)
Abort ==
  /\ \/ turnStep = "creating" /\ turnStep' = "abandoned" /\ UNCHANGED <<drafts, wanted>>
     \/ turnStep = "streaming" /\ Failed
  /\ UNCHANGED <<versions, pageRevision, selectionMode, selectedTarget, attached, panelSession, turn, requests>>

(* The stream has closed: a turn-error is thrown, otherwise the session is opened.   *)
StreamClosed ==
  /\ turnStep = "streaming"
  /\ \/ requests[turn].at = "refused" /\ Failed
     \/ requests[turn].at = "ended" /\ turnStep' = "opening" /\ UNCHANGED <<drafts, wanted>>
  /\ UNCHANGED <<versions, pageRevision, selectionMode, selectedTarget, attached, panelSession, turn, requests>>

(* The references of the turn that was sent are taken off the drafts, by their id.   *)
Finished ==
  LET sentIds == {r.id : r \in requests[turn].refs}
  IN /\ turnStep' = "idle"
     /\ drafts' = {r \in drafts : r.id \notin sentIds}
     /\ wanted' = {}

Opened ==
  /\ turnStep = "opening"
  /\ \/ Failed
     \/ requests[turn].applied /\ turnStep' = "loading" /\ UNCHANGED <<drafts, wanted>>
     \/ ~requests[turn].applied /\ Finished
  /\ UNCHANGED <<versions, pageRevision, selectionMode, selectedTarget, attached, panelSession, turn, requests>>

(* A proposal was applied by itself: the project is loaded again.                    *)
Loaded ==
  /\ turnStep = "loading"
  /\ \/ Failed /\ UNCHANGED pageRevision
     \/ Finished /\ pageRevision' = Revision
  /\ UNCHANGED <<versions, selectionMode, selectedTarget, attached, panelSession, turn, requests>>

-------------------------------------------------------------------------------
(* The server, for the k-th turn asked for: AgentRunner.runTurn and the route.       *)
ServerStep(k, request) ==
  /\ requests' = [requests EXCEPT ![k] = request]
  /\ UNCHANGED <<pageRevision, panel, sending>>

(* The provider is not configured, or the session is closed.                         *)
RefuseTurn(k) ==
  /\ requests[k].at = "asked"
  /\ ServerStep(k, [requests[k] EXCEPT !.at = "refused"])
  /\ UNCHANGED versions

(* The snapshot is built of one load of the project.                                 *)
Build(k) ==
  /\ requests[k].at = "asked"
  /\ ServerStep(k, [requests[k] EXCEPT !.at = "built", !.context = Revision])
  /\ UNCHANGED versions

(* The references are resolved against another load, if there are any.               *)
Resolve(k) ==
  /\ requests[k].at = "built"
  /\ LET refs == requests[k].refs
         all == \A r \in refs : Resolves(r, Revision)
     IN ServerStep(k, [requests[k] EXCEPT
          !.at = IF all THEN "resolved" ELSE "refused",
          !.resolved = IF refs = {} THEN requests[k].context ELSE Revision])
  /\ UNCHANGED versions

RecordTurn(k) ==
  /\ requests[k].at = "resolved"
  /\ ServerStep(k, [requests[k] EXCEPT !.at = "running"])
  /\ UNCHANGED versions

(* The turn ends. Its proposal may be applied by itself, to the revision it was      *)
(* made at, and also if the page has left since the turn was completed.              *)
Settle(k) ==
  /\ requests[k].at = "running"
  /\ \E applied \in BOOLEAN :
       /\ applied => requests[k].context = Revision /\ Revision < MaxRevisions
       /\ versions' = IF applied THEN Append(versions, TargetsAt(Revision)) ELSE versions
       /\ ServerStep(k, [requests[k] EXCEPT !.at = "ended", !.applied = applied])

User ==
  \/ \E t \in Target : Select(t)
  \/ ClearSelection \/ ToggleMode \/ AddCurrentContext
  \/ \E r \in drafts : RemoveContext(r)
  \/ SendTurn \/ Abort
PageStep == Created \/ StreamClosed \/ Opened \/ Loaded
ServerSide == \E k \in DOMAIN requests : RefuseTurn(k) \/ Build(k) \/ Resolve(k) \/ RecordTurn(k) \/ Settle(k)
PanelStep == Change \/ ShowLatest \/ User \/ PageStep \/ ServerSide

-------------------------------------------------------------------------------
PanelTypeOK ==
  /\ pageRevision \in 0..Revision
  /\ turnStep \in {"idle", "creating", "abandoned", "streaming", "opening", "loading"}
  /\ \A r \in drafts : r.id \in 1..attached /\ r.base \in 0..Revision
  /\ \A r, s \in drafts : r.target = s.target => r = s

Grounded(request) == request.at \in {"running", "ended"}

(* A turn that is recorded was grounded in one revision of the project: the snapshot *)
(* and the references were read by two loads with other writes between them, and yet *)
(* every reference was captured at the snapshot's revision and names what is in it    *)
(* (runner.ts:216 and 221, context-reference-service.ts:84).                         *)
GroundedTogether ==
  \A k \in DOMAIN requests : Grounded(requests[k]) =>
    /\ requests[k].resolved = requests[k].context
    /\ \A r \in requests[k].refs :
         r.base = requests[k].context /\ Exists(r.target, requests[k].context)

(* The end of a turn takes a reference off the drafts only if a recorded turn carries *)
(* it, and leaves what the user attached while the turn ran: a turn that failed or    *)
(* was refused can be sent again as it was (AgentWorkspacePanel.tsx:230 to 237).      *)
DraftsAreKept ==
  turnStep' = "idle" /\ turnStep # "idle" =>
    /\ \A r \in drafts \ drafts' :
         Grounded(requests[turn]) /\ r \in requests[turn].refs
    /\ \A t \in wanted : \E r \in drafts' : r.target = t

(* What is sent is what the user sees attached, and what is attached is not lost, by   *)
(* every step: the turns it leaves recorded are grounded, the drafts it ends on kept.  *)
PanelIsTrue == [][GroundedTogether' /\ DraftsAreKept]_panelVars
===============================================================================
