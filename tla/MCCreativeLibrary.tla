---------------------------- MODULE MCCreativeLibrary ---------------------------
(* CreativeLibrary for two processes and two assets of two versions and,        *)
(* checked beside it, ProviderStream, EditProtection, WorkspacePage and         *)
(* AssetParameters.  They share no variable; which of them moves is chosen at   *)
(* the start.                                                                   *)
EXTENDS CreativeLibrary, ProviderStream, EditProtection, WorkspacePage, AssetParameters, TLC

CONSTANTS a1, a2, p1, p2
EventsOfEach == ("responses" :> 3) @@ ("chat" :> 4) @@ ("plan" :> 3) @@ ("completion" :> 1)

(* A first plan that is approved and may repair or not, or is not approved, or   *)
(* declares nothing, and a second one of the ordinary kind.                      *)
Terms(declared, approved, loops) == [declared |-> declared, approved |-> approved, loops |-> loops]
TwoPlans == <<{Terms(VisualTargets, TRUE, 0), Terms(VisualTargets, TRUE, 1),
               Terms(VisualTargets, FALSE, 1), Terms({}, FALSE, 1)},
              {Terms(VisualTargets, FALSE, 1)}>>

VARIABLE part

SideBySideInit ==
  /\ part \in {"library", "stream", "protection", "page", "parameters"}
  /\ Init /\ StreamInit /\ ProtectionInit /\ PageInit /\ ParametersInit
  /\ part # "stream" => dialect = "responses"
  /\ part # "protection" => project = First /\ records["canvas"] = "none"
  /\ part # "parameters" => parameter = [type |-> "boolean", default |-> Absent, required |-> FALSE]
  /\ part # "page" => page.film = a1 /\ revision[a2] = 0

SideBySideNext ==
  /\ UNCHANGED part
  /\ \/ part = "library" /\ Next /\ UNCHANGED <<streamVars, protectionVars, pageVars, parameterVars>>
     \/ part = "stream" /\ StreamNext /\ UNCHANGED <<vars, protectionVars, pageVars, parameterVars>>
     \/ part = "protection" /\ ProtectionNext /\ UNCHANGED <<vars, streamVars, pageVars, parameterVars>>
     \/ part = "page" /\ PageNext /\ UNCHANGED <<vars, streamVars, protectionVars, parameterVars>>
     \/ part = "parameters" /\ Give /\ UNCHANGED <<vars, streamVars, protectionVars, pageVars>>

SideBySide == SideBySideInit /\ [][SideBySideNext]_<<part, vars, streamVars, protectionVars, pageVars, parameterVars>>

(* The library's records are what its readers, its index and its schema take them *)
(* for.                                                                           *)
LibraryIsTrue == IndexAgrees /\ ManifestsAreSound /\ DefaultsAreAllowed
===============================================================================
