---------------------------- MODULE MCAgentProposals ----------------------------
(* AgentProposals for a turn whose safe edits are applied and two processes     *)
(* that serve confirmations and, checked beside it, McpBridge, by which the     *)
(* Agents outside the Studio propose edits, and ConnectionPage, on which the    *)
(* user manages that bridge.  They share no variable; which of them moves is    *)
(* chosen at the start.                                                         *)
EXTENDS AgentProposals, McpBridge, ConnectionPage, TLC

CONSTANTS t1, t2, c1, c2, r1, r2, p1, p2
BothModes == (t1 :> "apply-safe-edits") @@ (t2 :> "review-first")
SafeEdits == (t1 :> "apply-safe-edits")
Interchangeable == Permutations(Request) \union Permutations(Project)

VARIABLE part

(* What the page finds of the bridge matters to the page only.                  *)
SideBySideInit ==
  /\ part \in {"proposals", "bridge", "connection"}
  /\ Init /\ BridgeInit /\ ConnectionInit
  /\ part # "connection" => bridge.project = NoProject /\ ~bridge.up

SideBySideNext ==
  /\ UNCHANGED part
  /\ \/ part = "proposals" /\ Next /\ UNCHANGED <<bridgeVars, connectionVars>>
     \/ part = "bridge" /\ BridgeNext /\ UNCHANGED <<vars, connectionVars>>
     \/ part = "connection" /\ ConnectionNext /\ UNCHANGED <<vars, bridgeVars>>

SideBySide == SideBySideInit /\ [][SideBySideNext]_<<part, vars, bridgeVars, connectionVars>>

(* The bridge is what the page and the Agents are told of it.                   *)
BridgeIsTrue == StatusIsTrue /\ CallsAreTrue /\ ConnectionIsTrue
===============================================================================
