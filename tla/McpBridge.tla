------------------------------- MODULE McpBridge -------------------------------
(* lib/mcp: the bridge that lets another Agent's program on this machine call   *)
(* the shared tools.  Its controller keeps the status that the page shows, the  *)
(* credentials and the project that is open; its server listens, admits a       *)
(* request, runs the tool against a timer and the caller's patience, and        *)
(* answers.  A tool that is given up goes on by itself: what an answer says of  *)
(* the proposals that were made is the question of this module.                 *)
EXTENDS Naturals, FiniteSets

CONSTANTS
  Request,      \* requests, each made once
  Project,      \* projects that may be open
  Concurrency,  \* LOCAL_MCP_MAX_CONCURRENCY
  RateLimit,    \* LOCAL_MCP_RATE_LIMIT_PER_MINUTE
  MaxServers,   \* bound: servers that are created
  MaxIssued,    \* bound: credentials that are issued
  None,         \* no server, no project
  Serial        \* start and stop wait for one another, as the page's buttons do

ASSUME BridgeAssumption ==
  /\ {Concurrency, RateLimit, MaxServers, MaxIssued} \subseteq Nat
  /\ None \notin 1..MaxServers
  /\ Serial \in BOOLEAN

VARIABLES
  admin,        \* the calls of the page that are under way
  server,       \* this.server of the server object
  listening,    \* the servers that accept connections
  created,      \* how many have been created
  status, address,       \* what the controller says of itself
  credentials, issued,   \* the valid ones, and how many there have been
  seen,         \* those whose last request is no more than a minute ago
  active,       \* the open project
  rate,         \* of each credential: requests in its window
  activeRequests,
  request,      \* where each is
  sessions,     \* the session files there are, by project and credential
  editProposals     \* in them: whose, and in which session

listener   == <<server, listening, created, status, address>>
clients    == <<credentials, issued, seen, rate>>
calls      == <<activeRequests, request>>
durable    == <<sessions, editProposals>>
bridgeVars == <<admin, listener, clients, active, calls, durable>>

Credential == 1..MaxIssued

Unsent == [at |-> "unsent", kind |-> "", key |-> 0, to |-> None,
           project |-> None, asked |-> None, tool |-> "none", answer |-> ""]

BridgeInit ==
  /\ admin = {} /\ server = None /\ listening = {} /\ created = 0
  /\ status = "stopped" /\ address = None
  /\ credentials = {} /\ issued = 0 /\ seen = {}
  /\ active = None
  /\ rate = [c \in Credential |-> 0] /\ activeRequests = 0
  /\ request = [r \in Request |-> Unsent]
  /\ sessions = {} /\ editProposals = {}

-------------------------------------------------------------------------------
(* start: a second one while the first still waits for its socket creates a     *)
(* server of its own.                                                           *)
Quiet == Serial => admin = {}

StartServer ==
  /\ Quiet /\ server = None /\ created < MaxServers
  /\ created' = created + 1
  /\ status' = "starting"
  /\ admin' = admin \union {[op |-> "start", of |-> created + 1]}
  /\ UNCHANGED <<server, listening, address, clients, active, calls, durable>>

NotBound(a) ==
  /\ status' = "error"
  /\ UNCHANGED <<server, listening, address>>

Bound(a) ==
  /\ server' = a.of /\ listening' = listening \union {a.of}
  /\ address' = a.of /\ status' = "ready"

Started ==
  \E a \in admin :
    /\ a.op = "start" /\ admin' = admin \ {a}
    /\ Bound(a) \/ NotBound(a)
    /\ UNCHANGED <<created, clients, active, calls, durable>>

(* stop: the server is forgotten at once, and the status told when its last     *)
(* connection has ended.                                                        *)
Stop ==
  /\ Quiet
  /\ server' = None
  /\ IF server = None
     THEN /\ address' = None /\ status' = "stopped"
          /\ UNCHANGED <<admin, listening>>
     ELSE /\ listening' = listening \ {server}
          /\ admin' = admin \union {[op |-> "stop", of |-> server]}
          /\ UNCHANGED <<address, status>>
  /\ UNCHANGED <<created, clients, active, calls, durable>>

Connected(s) == {r \in Request : request[r].to = s}

Stopped ==
  \E a \in admin :
    /\ a.op = "stop" /\ Connected(a.of) = {}
    /\ admin' = admin \ {a}
    /\ address' = None /\ status' = "stopped"
    /\ UNCHANGED <<server, listening, created, clients, active, calls, durable>>

-------------------------------------------------------------------------------
(* Credentials.  Rotation revokes all of them before it issues another.         *)
Issue(kept) ==
  /\ issued < MaxIssued
  /\ issued' = issued + 1
  /\ credentials' = kept \union {issued + 1}
  /\ seen' = seen \intersect kept
  /\ UNCHANGED <<admin, listener, rate, active, calls, durable>>

IssueCredential  == Issue(credentials)
RotateCredential == Issue({})

RevokeCredential ==
  \E c \in credentials :
    /\ credentials' = credentials \ {c} /\ seen' = seen \ {c}
    /\ UNCHANGED <<admin, listener, issued, rate, active, calls, durable>>

(* A minute without a request: the client shows as disconnected, and its next   *)
(* request opens a new window.                                                  *)
MinutePasses(c) ==
  /\ rate[c] > 0
  /\ rate' = [rate EXCEPT ![c] = 0] /\ seen' = seen \ {c}
  /\ UNCHANGED <<admin, listener, credentials, issued, active, calls, durable>>

(* observeAuthenticatedRequest: nothing, once the credential is revoked.        *)
Observed(r) ==
  LET c == request[r].key
  IN  IF c \in credentials
      THEN /\ seen' = seen \union {c}
           /\ status' = IF status \in {"ready", "disconnected"} THEN "connected" ELSE status
      ELSE UNCHANGED <<seen, status>>

(* getSnapshot.                                                                 *)
ShownStatus == CASE status = "connected" /\ seen = {} -> "disconnected"
           [] status = "ready" /\ seen # {} -> "connected"
           [] OTHER -> status

-------------------------------------------------------------------------------
(* The open project.  It is read before it is made the active one, so that of   *)
(* two that are opened one after the other either may come last.                *)
SyncContext ==
  /\ active' \in Project
  /\ UNCHANGED <<admin, listener, clients, calls, durable>>

ClearContext ==
  /\ active' = None /\ active # None
  /\ UNCHANGED <<admin, listener, clients, calls, durable>>

-------------------------------------------------------------------------------
(* The tools' contracts.  superRefine lets through only those that agree with   *)
(* their risk; the bridge lists and runs those that are callable.               *)
Contracts ==
  [risk : 0..4, scopes : SUBSET {"propose", "write"}, mode : {"auto", "ask", "always-ask", "deny"},
   override : BOOLEAN, revision : {"none", "snapshot", "expected-revision"},
   idempotency : {"read-only", "proposal-only", "stable-operation-id"}]

WellFormed(c) ==
  /\ c.risk \in 0..1 => c.mode = "auto"
  /\ c.risk \in 2..3 => c.mode = "ask"
  /\ c.risk = 4 => c.mode \in {"always-ask", "deny"}
  /\ c.risk = 0 => c.idempotency = "read-only"
  /\ c.risk = 1 => c.revision = "snapshot" /\ c.idempotency = "proposal-only" /\ "write" \notin c.scopes
  /\ c.risk = 2 => c.revision = "expected-revision"
  /\ c.risk >= 2 => c.idempotency = "stable-operation-id"
  /\ c.mode \in {"always-ask", "deny"} => ~c.override

Callable(c) ==
  \/ c.risk = 0
  \/ /\ c.risk = 1 /\ "propose" \in c.scopes /\ "write" \notin c.scopes
     /\ c.mode = "auto" /\ ~c.override
     /\ c.revision = "snapshot" /\ c.idempotency = "proposal-only"

(* What an Agent of the Studio itself is given: the same two kinds of tools.    *)
Adapted(c) ==
  \/ /\ c.risk = 0 /\ c.mode = "auto" /\ ~c.override /\ c.idempotency = "read-only"
  \/ /\ c.risk = 1 /\ "propose" \in c.scopes /\ "write" \notin c.scopes
     /\ c.mode = "auto" /\ ~c.override
     /\ c.revision = "snapshot" /\ c.idempotency = "proposal-only"

-------------------------------------------------------------------------------
(* handle, up to the first wait: who asks is known, has requests left in this   *)
(* minute, and finds room.  A refusal is answered at once.                      *)
RequestKinds == {"malformed", "list", "read", "propose"}

(* A request that is answered before it has reached a tool.                     *)
Told == [Unsent EXCEPT !.at = "end", !.answer = "told"]

Authenticated(c) == c \in credentials
RateAllowed(c) == Authenticated(c) /\ rate[c] < RateLimit
Room == activeRequests < Concurrency

Send(r) ==
  /\ request[r].at = "unsent"
  /\ \E s \in listening, k \in RequestKinds, c \in 1..issued :
       /\ rate' = IF RateAllowed(c) THEN [rate EXCEPT ![c] = @ + 1] ELSE rate
       /\ IF RateAllowed(c) /\ Room
          THEN /\ activeRequests' = activeRequests + 1
               /\ request' = [request EXCEPT ![r].at = "body", ![r].kind = k, ![r].key = c,
                                             ![r].to = s]
          ELSE /\ request' = [request EXCEPT ![r] = Told]
               /\ UNCHANGED activeRequests
  /\ UNCHANGED <<admin, listener, credentials, issued, seen, active, durable>>

(* finally: the place is given back, whatever the answer.                       *)
Free == activeRequests' = activeRequests - 1
ToldNow(r) == Free /\ request' = [request EXCEPT ![r] = Told]

(* A call is answered while its tool may go on.                                 *)
Answered(r, answer) ==
  Free /\ request' = [request EXCEPT ![r].at = "end", ![r].to = None, ![r].answer = answer]

(* The body has come: what it asks is checked, and a call is bound to the open  *)
(* project.                                                                     *)
Received(r) ==
  /\ request[r].at = "body"
  /\ CASE request[r].kind = "malformed" -> ToldNow(r) /\ UNCHANGED <<seen, status>>
       [] request[r].kind = "list" -> ToldNow(r) /\ Observed(r)
       [] request[r].kind \in {"read", "propose"} /\ active = None -> ToldNow(r) /\ Observed(r)
       [] OTHER -> /\ request' = [request EXCEPT ![r].at = "context", ![r].project = active, ![r].asked = active]
                   /\ UNCHANGED <<activeRequests, seen, status>>
  /\ UNCHANGED <<admin, server, listening, created, address, credentials, issued, rate, active, durable>>

(* Mutant: the context is built of the project that is open by then.            *)
ContextOfTheOpen(r) == IF active = None THEN request[r].project ELSE active
ContextOf(r) == request[r].project

(* createExecutionContext, and the start of the tool.  The caller may have gone *)
(* in the meantime.                                                             *)
ContextBuilt(r) ==
  /\ request[r].at = "context"
  /\ IF request[r].to # None
     THEN /\ request' = [request EXCEPT ![r].at = "race", ![r].project = ContextOf(r),
                            ![r].tool = IF request[r].kind = "read" THEN "read" ELSE "look"]
          /\ UNCHANGED <<activeRequests, seen, status>>
     ELSE ToldNow(r) /\ Observed(r)
  /\ UNCHANGED <<admin, server, listening, created, address, credentials, issued, rate, active, durable>>

ContextFails(r) ==
  /\ request[r].at = "context" /\ ToldNow(r)
  /\ UNCHANGED <<admin, listener, clients, active, durable>>

(* raceExecution: the timer, or the caller who goes away, ends the race; the    *)
(* tool is not stopped.                                                         *)
Timeout(r) ==
  /\ request[r].at = "race" /\ Answered(r, "timeout") /\ Observed(r)
  /\ UNCHANGED <<admin, server, listening, created, address, credentials, issued, rate, active, durable>>

CallerLeaves(r) ==
  /\ request[r].to # None
  /\ \/ request[r].at = "body" /\ ToldNow(r) /\ UNCHANGED <<seen, status>>
     \/ /\ request[r].at = "context" /\ request' = [request EXCEPT ![r].to = None]
        /\ UNCHANGED <<activeRequests, seen, status>>
     \/ request[r].at = "race" /\ Answered(r, "cancelled") /\ Observed(r)
  /\ UNCHANGED <<admin, server, listening, created, address, credentials, issued, rate, active, durable>>

-------------------------------------------------------------------------------
(* create_edit_proposal: the session of this credential in this project is      *)
(* looked for, created, or found after all when another has created it; then    *)
(* the proposal is written into it.  The write may fail when it has replaced    *)
(* the file already.                                                            *)
SessionOf(r) == <<request[r].project, request[r].key>>

ToolGoes(r, place) == request' = [request EXCEPT ![r].tool = place]

LookForSession(r) ==
  /\ request[r].tool = "look"
  /\ ToolGoes(r, IF SessionOf(r) \in sessions THEN "propose" ELSE "create")
  /\ UNCHANGED <<admin, listener, clients, active, activeRequests, durable>>

CreateSession(r) ==
  /\ request[r].tool = "create"
  /\ sessions' = sessions \union {SessionOf(r)}
  /\ ToolGoes(r, "propose")
  /\ UNCHANGED <<admin, listener, clients, active, activeRequests, editProposals>>

(* The tool has ended: whoever waits for it still has the answer.               *)
ToolEnds(r, answer) ==
  IF request[r].at = "race"
  THEN /\ activeRequests' = activeRequests - 1
       /\ request' = [request EXCEPT ![r].tool = "none", ![r].at = "end", ![r].to = None, ![r].answer = answer]
       /\ Observed(r)
  ELSE ToolGoes(r, "none") /\ UNCHANGED <<activeRequests, seen, status>>

Proposed(r) == [of |-> r, session |-> SessionOf(r)]

Propose(r) ==
  /\ request[r].tool = "propose"
  /\ editProposals' = editProposals \union {Proposed(r)}
  /\ ToolEnds(r, "success") \/ ToolEnds(r, "error")
  /\ UNCHANGED <<admin, server, listening, created, address, credentials, issued, rate, active, sessions>>

ReadContext(r) ==
  /\ request[r].tool = "read" /\ ToolEnds(r, "success")
  /\ UNCHANGED <<admin, server, listening, created, address, credentials, issued, rate, active, durable>>

(* It throws, at any of its steps.                                              *)
ToolFails(r) ==
  /\ request[r].tool # "none" /\ ToolEnds(r, "error")
  /\ UNCHANGED <<admin, server, listening, created, address, credentials, issued, rate, active, durable>>

-------------------------------------------------------------------------------
BridgeAdmin ==
  \/ StartServer \/ Started \/ Stop \/ Stopped
  \/ IssueCredential \/ RotateCredential \/ RevokeCredential
  \/ SyncContext \/ ClearContext
  \/ \E c \in Credential : MinutePasses(c)

BridgeRequest(r) ==
  \/ Send(r) \/ Received(r) \/ ContextBuilt(r) \/ ContextFails(r) \/ Timeout(r) \/ CallerLeaves(r)
  \/ LookForSession(r) \/ CreateSession(r) \/ Propose(r) \/ ReadContext(r) \/ ToolFails(r)

BridgeNext == BridgeAdmin \/ \E r \in Request : BridgeRequest(r)

BridgeSpec == BridgeInit /\ [][BridgeNext]_bridgeVars

-------------------------------------------------------------------------------
(* What the page shows of the bridge is so whenever no start and no stop is     *)
(* under way: it is up, with an address, exactly if one server listens, the one *)
(* that stop would close.                                                       *)
StatusIsTrue ==
  admin = {} =>
    /\ ShownStatus \in {"ready", "connected", "disconnected"} <=> server # None
    /\ listening = IF server = None THEN {} ELSE {server}
    /\ address = server

ContractsAgree ==
  \A c \in Contracts : WellFormed(c) =>
    /\ Adapted(c) => Callable(c)
    /\ Callable(c) => c.risk = 0 \/ ("propose" \in c.scopes /\ "write" \notin c.scopes)

(* The places are those of the requests that are under way, and enough; a       *)
(* request makes one proposal at most, in the project that was open when it was *)
(* let in, whatever has been opened since, and one exactly if it is answered    *)
(* success; none is made before the tool runs.  And the tools that may be       *)
(* called, by either kind of Agent, are the well-formed ones that read or       *)
(* propose.                                                                     *)
InFlight(r) == request[r].at \in {"body", "context", "race"}
MadeBy(r) == {p \in editProposals : p.of = r}

CallsAreTrue ==
  /\ activeRequests = Cardinality({r \in Request : InFlight(r)}) /\ activeRequests <= Concurrency
  /\ \A r \in Request :
       /\ Cardinality(MadeBy(r)) <= 1
       /\ \A p \in MadeBy(r) : p.session = <<request[r].asked, request[r].key>> /\ p.session \in sessions
       /\ request[r].answer = "told" => MadeBy(r) = {}
       /\ request[r].answer = "success" /\ request[r].kind = "propose" => MadeBy(r) # {}
  /\ ContractsAgree
===============================================================================
