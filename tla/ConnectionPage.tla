----------------------------- MODULE ConnectionPage -----------------------------
(* ConnectionCenter and the route it calls: the page on which a user starts and  *)
(* stops the bridge and pairs other Agents with it, and which tells the bridge   *)
(* what project is open.  It sends some requests one at a time (its buttons are  *)
(* disabled meanwhile) and others whenever the project changes or three seconds  *)
(* have passed; whatever the bridge answers last is what the page shows.  A      *)
(* request is served, here, in one step; McpBridge has the steps of each.        *)
EXTENDS Naturals, Sequences

CONSTANTS
  ProjectId, NoProject,
  MaxInFlight,  \* bound: requests under way
  MaxAsked      \* bound: requests in all

VARIABLES
  bridge,    \* is it up, the credentials that are valid, the project Agents work on
  keysMade,  \* how many credentials there have been
  page,      \* what the page has of all that, and what it is doing
  wire,      \* the requests under way, oldest first
  asked,     \* how many there have been
  mishaps    \* history: what has gone against the page's expectation

connectionVars == <<bridge, keysMade, page, wire, asked, mishaps>>

Buttons == {"start", "stop", "pair", "rotate", "revoke"}
Contexts == {"sync", "clear"}

(* A POST of the route, or (look) a GET with the activity of a project.          *)
Asks(ask, of) == [ask |-> ask, of |-> of, at |-> "sent", answer |-> bridge, secret |-> 0]

Sends(r) ==
  /\ Len(wire) < MaxInFlight /\ asked < MaxAsked
  /\ wire' = Append(wire, r) /\ asked' = asked + 1

(* The bridge outlives the page: it may be up, with another project, when the    *)
(* page is first shown, and the page begins by clearing it.                      *)
ConnectionInit ==
  /\ bridge \in [up : BOOLEAN, keys : {{}}, project : ProjectId \union {NoProject}]
  /\ keysMade = 0
  /\ page = [project |-> NoProject, open |-> FALSE, secret |-> 0, busy |-> FALSE,
             shown |-> [up |-> FALSE, keys |-> {}, project |-> NoProject],
             activity |-> NoProject]
  /\ wire = <<Asks("clear", NoProject)>> /\ asked = 1
  /\ mishaps = {}

-------------------------------------------------------------------------------
(* The page.  Every change of the project or of what is selected in it is sent.  *)
ProjectChanges ==
  \E p \in ProjectId \union {NoProject} :
    /\ page' = [page EXCEPT !.project = p]
    /\ Sends(Asks(IF p = NoProject THEN "clear" ELSE "sync", p))
    /\ UNCHANGED <<bridge, keysMade, mishaps>>

OpenCenter ==
  /\ ~page.open /\ page' = [page EXCEPT !.open = TRUE]
  /\ Sends(Asks("look", page.project))
  /\ UNCHANGED <<bridge, keysMade, mishaps>>

Refresh ==
  /\ page.open /\ Sends(Asks("look", page.project))
  /\ UNCHANGED <<bridge, keysMade, page, mishaps>>

(* It may be closed while a button's request is under way.                       *)
CloseCenter ==
  /\ page.open /\ page' = [page EXCEPT !.open = FALSE, !.secret = 0]
  /\ mishaps' = IF page.busy THEN mishaps \union {"closed early"} ELSE mishaps
  /\ UNCHANGED <<bridge, keysMade, wire, asked>>

(* A button; those that show a new credential forget the one before first.       *)
Enabled(button) ==
  CASE button = "start" -> ~page.shown.up
    [] button \in {"stop", "pair", "rotate"} -> page.shown.up
    [] OTHER -> TRUE

Press ==
  /\ page.open /\ ~page.busy
  /\ \E b \in Buttons : \E k \in IF b = "revoke" THEN page.shown.keys ELSE {0} :
       Enabled(b) /\ Sends(Asks(b, k))
  /\ page' = [page EXCEPT !.busy = TRUE,
                          !.secret = IF wire'[Len(wire')].ask \in {"pair", "rotate"} THEN 0 ELSE @]
  /\ UNCHANGED <<bridge, keysMade, mishaps>>

-------------------------------------------------------------------------------
(* The route.  A request for a project reads the project before it makes it the  *)
(* active one, and may so be overtaken by one that came later.                   *)
After(r) ==
  CASE r.ask = "start" -> [bridge EXCEPT !.up = TRUE]
    [] r.ask = "stop" -> [bridge EXCEPT !.up = FALSE]
    [] r.ask = "pair" -> [bridge EXCEPT !.keys = @ \union {keysMade + 1}]
    [] r.ask = "rotate" -> [bridge EXCEPT !.keys = {keysMade + 1}]
    [] r.ask = "revoke" -> [bridge EXCEPT !.keys = @ \ {r.of}]
    [] r.ask \in Contexts -> [bridge EXCEPT !.project = r.of]
    [] OTHER -> bridge

Serve(i) ==
  LET key == IF wire[i].ask \in {"pair", "rotate"} THEN keysMade + 1 ELSE 0
  IN  /\ wire[i].at = "sent"
      /\ bridge' = After(wire[i])
      /\ keysMade' = IF key = 0 THEN keysMade ELSE key
      /\ wire' = [wire EXCEPT ![i] = [@ EXCEPT !.at = "served", !.answer = bridge', !.secret = key]]
      /\ mishaps' = IF \E j \in 1..(i - 1) : wire[j].at = "sent"
                    THEN mishaps \union {"overtaken"} ELSE mishaps
      /\ UNCHANGED <<page, asked>>

(* The route throws, or the answer is lost after it has been served.             *)
Lose(i) ==
  /\ wire[i].at # "lost"
  /\ wire' = [wire EXCEPT ![i].at = "lost"]
  /\ mishaps' = IF wire[i].ask = "look" THEN mishaps ELSE mishaps \union {"lost"}
  /\ UNCHANGED <<bridge, keysMade, page, asked>>

(* Mutant: a failed action leaves the buttons disabled.                          *)
BusyUntilAnswered(r) == page.busy /\ (r.ask \notin Buttons \/ r.at = "lost")
StillBusy(r) == page.busy /\ r.ask \notin Buttons

(* applyPayload, and what follows in refresh and runAction.  The activity that   *)
(* came with it is taken if its project is still the open one.                   *)
Taken(r) ==
  IF r.at = "lost" THEN page
  ELSE [page EXCEPT !.shown = r.answer, !.secret = IF r.secret = 0 THEN @ ELSE r.secret]

ActivityOf(r) == IF page.project = r.of THEN r.of ELSE page.activity

WithoutAt(i) == [j \in 1..(Len(wire) - 1) |-> wire[IF j < i THEN j ELSE j + 1]]

Arrives(i) ==
  LET r == wire[i]
  IN  /\ r.at # "sent"
      /\ \E activity \in IF r.ask = "look" THEN {page.activity, ActivityOf(r)} ELSE {page.activity} :
           page' = [Taken(r) EXCEPT !.busy = StillBusy(r), !.activity = activity]
      /\ wire' = WithoutAt(i)
      /\ mishaps' = IF i > 1 THEN mishaps \union {"overtaken"} ELSE mishaps
      /\ UNCHANGED <<bridge, keysMade, asked>>

ConnectionNext ==
  \/ ProjectChanges \/ OpenCenter \/ Refresh \/ CloseCenter \/ Press
  \/ \E i \in 1..Len(wire) : Serve(i) \/ Lose(i) \/ Arrives(i)

ConnectionSpec == ConnectionInit /\ [][ConnectionNext]_connectionVars

-------------------------------------------------------------------------------
(* The buttons are disabled exactly while one of them is under way, whatever     *)
(* becomes of it; a credential the page shows is the last one there was, even    *)
(* when its answer came late, and it is shown only on the open page unless the   *)
(* page was closed before the answer.  When all is answered, and in the order in *)
(* which it was asked, Agents work on the project that is open in the page, and  *)
(* what the page shows of the bridge is so.                                      *)
InExpectedOrder == mishaps \intersect {"overtaken", "lost"} = {}

ConnectionIsTrue ==
  /\ page.busy <=> \E i \in 1..Len(wire) : wire[i].ask \in Buttons
  /\ page.secret # 0 => page.secret = keysMade /\ (page.open \/ "closed early" \in mishaps)
  /\ wire = <<>> /\ InExpectedOrder => bridge.project = page.project /\ page.shown = bridge
===============================================================================
