------------------------------ MODULE EditorSession ------------------------------
(* Browser windows that edit one project: what each shows (store/project-store.ts), *)
(* its undo and redo stacks (store/history-store.ts) and the calls it has under way  *)
(* (lib/client/project-mutations.ts, components/timeline/useTimelineProjectActions,  *)
(* components/script/ScriptEditor, components/studio/AgentWorkspacePanel and         *)
(* useWorkspaceProjectRuntime), against a server that accepts a change of its latest *)
(* revision only (ProjectMutation has the coordinator itself).                       *)
EXTENDS ScriptTimeline

CONSTANTS
  Window,
  Length,            \* frames of the video
  MAX_HISTORY,       \* entries a stack keeps (MAX_HISTORY_ENTRIES)
  UndoneTogether,    \* a window may undo or redo while it is still undoing or redoing
  AgentBehind,       \* a proposal may be applied in a window that shows an older revision
  MaxEdits,          \* bound: changes of the project
  MaxCalls,          \* bound: calls of a window under way
  MaxSent,           \* bound: calls made
  MaxFaults          \* bound: calls that are lost

ASSUME WindowAssumption ==
  /\ {UndoneTogether, AgentBehind} \subseteq BOOLEAN
  /\ {MaxEdits, MaxCalls, MaxSent, MaxFaults} \subseteq Nat
  /\ {Length, MAX_HISTORY} \subseteq Nat \ {0}

VARIABLES
  project,     \* the server's document
  shown,       \* of each window: the document it shows
  undo, redo,  \* of each window: its stacks, the latest entry last
  calls,       \* the calls under way
  sent, faults \* how many were made, and were lost

editorVars == <<project, shown, undo, redo, calls, sent, faults>>
stacks == <<undo, redo>>

-------------------------------------------------------------------------------
Whole == Span(0, Length)
Started(base) ==
  [revision |-> 0, base |-> base, cut |-> {}, length |-> Length,
   clips |-> {[start |-> 0, len |-> Length, source |-> 0]}]

(* One clip shows the video; transcription has recorded the base, or an older       *)
(* project has none.                                                               *)
EditorInit ==
  \E base \in {<<>>, <<Whole>>} :
    /\ project = Started(base)
    /\ shown = [w \in Window |-> project]
    /\ undo = [w \in Window |-> <<>>]
    /\ redo = [w \in Window |-> <<>>]
    /\ calls = {}
    /\ sent = 0 /\ faults = 0

-------------------------------------------------------------------------------
(* history-store.                                                                  *)
(* Mutant: an entry is taken at any revision.                                        *)
FitsAlways(stack, revision) == TRUE

Entry(before, after) == [before |-> before, after |-> after, expected |-> after.revision]
Prune(stack) == SubSeq(stack, IF Len(stack) > MAX_HISTORY THEN Len(stack) - MAX_HISTORY + 1 ELSE 1, Len(stack))
Push(w, entry) ==
  /\ undo' = [undo EXCEPT ![w] = Prune(Append(@, entry))]
  /\ redo' = [redo EXCEPT ![w] = <<>>]

(* takeUndo, takeRedo: the latest entry moves to the other stack, where it expects   *)
(* the revision its restore will make; one that does not fit clears both.           *)
Fits(stack, revision) == Last(stack).expected = revision
Moved(from, to, revision) == Prune(Append(to, [Last(from) EXCEPT !.expected = revision + 1]))

(* rollbackUndo, rollbackRedo: the entry, if it is still there, moves back.          *)
SameEdit(entry, other) == entry.before = other.before /\ entry.after = other.after
PutBack(from, to, entry, revision) ==
  LET i == SelectLastInSeq(from, LAMBDA other : SameEdit(entry, other))
  IN IF i = 0 THEN <<from, to>>
     ELSE <<RemoveAt(from, i), Prune(Append(to, [from[i] EXCEPT !.expected = revision]))>>

-------------------------------------------------------------------------------
(* A call: who made it and how, what the window showed, the revision it expects, the *)
(* entry it restores, how far it has come and the document it has got.  A command    *)
(* changes the revision it was made on or nothing, so which one it is is chosen when  *)
(* it is accepted.  A call whose failure changes nothing in the window ends there.   *)
Restores == {"undo", "redo"}
Reloads == {"timeline"} \union Restores   \* on a conflict
Records == {"timeline", "agent"}          \* in the history
CallOf(w, kind, expects, entry) ==
  [window |-> w, kind |-> kind, before |-> {shown[w]}, expects |-> expects, entry |-> entry,
   state |-> "sent", got |-> {}]
Of(w, kinds) == {c \in calls : c.window = w /\ c.kind \in kinds}
Send(c) ==
  /\ sent < MaxSent /\ Cardinality({d \in calls : d.window = c.window}) < MaxCalls
  /\ c \notin calls
  /\ calls' = calls \union {c}
  /\ sent' = sent + 1
Becomes(c, state, got) == calls' = (calls \ {c}) \union {[c EXCEPT !.state = state, !.got = got]}
Fails(c) == IF c.kind \in Restores THEN Becomes(c, "failed", {}) ELSE calls' = calls \ {c}

(* postCommand and postTransaction of the timeline.                                *)
EditTimeline(w) ==
  /\ Send(CallOf(w, "timeline", shown[w].revision, {}))
  /\ UNCHANGED <<project, shown, stacks, faults>>

(* setStatus of the script editor, one at a time.                                   *)
EditScript(w) ==
  /\ Of(w, {"script"}) = {}
  /\ Send(CallOf(w, "script", shown[w].revision, {}))
  /\ UNCHANGED <<project, shown, stacks, faults>>

(* applyProposal, one at a time: it changes the revision the proposal was made of,   *)
(* which need not be the one the window shows.                                      *)
ApplyProposal(w) ==
  /\ Of(w, {"agent"}) = {}
  /\ AgentBehind \/ shown[w].revision = project.revision
  /\ Send(CallOf(w, "agent", project.revision, {}))
  /\ UNCHANGED <<project, shown, stacks, faults>>

(* undo and redo of the timeline: the call is made on what is taken.                *)
MayRestore(w) == UndoneTogether \/ Of(w, Restores) = {}
Forget(w) ==
  /\ undo' = [undo EXCEPT ![w] = <<>>]
  /\ redo' = [redo EXCEPT ![w] = <<>>]
  /\ UNCHANGED <<project, shown, calls, sent, faults>>
Undo(w) ==
  /\ MayRestore(w) /\ undo[w] # <<>>
  /\ IF ~Fits(undo[w], shown[w].revision) THEN Forget(w)
     ELSE /\ Send(CallOf(w, "undo", shown[w].revision, {Last(undo[w])}))
          /\ undo' = [undo EXCEPT ![w] = Front(@)]
          /\ redo' = [redo EXCEPT ![w] = Moved(undo[w], @, shown[w].revision)]
          /\ UNCHANGED <<project, shown, faults>>
Redo(w) ==
  /\ MayRestore(w) /\ redo[w] # <<>>
  /\ IF ~Fits(redo[w], shown[w].revision) THEN Forget(w)
     ELSE /\ Send(CallOf(w, "redo", shown[w].revision, {Last(redo[w])}))
          /\ redo' = [redo EXCEPT ![w] = Front(@)]
          /\ undo' = [undo EXCEPT ![w] = Moved(redo[w], @, shown[w].revision)]
          /\ UNCHANGED <<project, shown, faults>>

(* openProject reads the project anew.                                              *)
Open(w) ==
  /\ Of(w, {"open"}) = {}
  /\ Send([CallOf(w, "open", 0, {}) EXCEPT !.before = {}])
  /\ UNCHANGED <<project, shown, stacks, faults>>

-------------------------------------------------------------------------------
(* The server: what the call makes of the project's latest revision.                *)
Changes(c, doc) ==
  CASE c.kind \in Records -> TimelineEdits(doc)
    [] c.kind = "script"  -> {WithStatus(doc, s, s \notin doc.cut) : s \in {t \in Segment : StatusAllowed(doc, t, t \notin doc.cut)}}
    [] c.kind = "undo"    -> {entry.before : entry \in c.entry}
    [] c.kind = "redo"    -> {entry.after : entry \in c.entry}
Read(c) ==
  /\ c.state = "sent" /\ c.kind = "open"
  /\ Becomes(c, "answered", {project})
  /\ UNCHANGED <<project, shown, stacks, sent, faults>>
AcceptCall(c) ==
  /\ c.state = "sent" /\ c.kind # "open" /\ c.expects = project.revision
  /\ project.revision < MaxEdits
  /\ \E doc \in Changes(c, project) : project' = [doc EXCEPT !.revision = project.revision + 1]
  /\ Becomes(c, "answered", {project'})
  /\ UNCHANGED <<shown, stacks, sent, faults>>
(* A revision conflict, or a segment that the script editor must leave as it is.    *)
Refuse(c) ==
  /\ c.state = "sent" /\ c.kind # "open"
  /\ \/ /\ c.expects # project.revision
        /\ IF c.kind \in Reloads THEN Becomes(c, "conflict", {}) ELSE Fails(c)
     \/ /\ c.expects = project.revision /\ c.kind = "script"
        /\ \E s \in Segment : ~StatusAllowed(project, s, s \notin project.cut)
        /\ Fails(c)
  /\ UNCHANGED <<project, shown, stacks, sent, faults>>
(* reloadProject, after a conflict.                                                *)
Reload(c) ==
  /\ c.state = "conflict"
  /\ Becomes(c, "reloaded", {project})
  /\ UNCHANGED <<project, shown, stacks, sent, faults>>
(* The call or its answer is lost.                                                 *)
Lose(c) ==
  /\ c.state # "failed" /\ faults < MaxFaults
  /\ faults' = faults + 1
  /\ Fails(c)
  /\ UNCHANGED <<project, shown, stacks, sent>>

-------------------------------------------------------------------------------
(* The window gets the outcome: publishProjectIfActive (openProject sets what it has *)
(* read), the entry of the change, or the entry back that was taken.                 *)
Publishable(c, doc) == c.kind = "open" \/ doc.revision >= shown[c.window].revision
Publish(c) == shown' = [shown EXCEPT ![c.window] =
  IF \E doc \in c.got : Publishable(c, doc) THEN CHOOSE doc \in c.got : TRUE ELSE @]
RecordEdit(c) ==
  IF c.kind \in Records THEN \E before \in c.before, after \in c.got : Push(c.window, Entry(before, after))
                        ELSE UNCHANGED stacks
Rollback(c) ==
  LET w == c.window IN
  \/ c.kind \notin Restores /\ UNCHANGED stacks
  \/ \E entry \in c.entry :
       LET back == IF c.kind = "undo" THEN PutBack(redo[w], undo[w], entry, c.expects)
                                      ELSE PutBack(undo[w], redo[w], entry, c.expects)
       IN /\ undo' = [undo EXCEPT ![w] = IF c.kind = "undo" THEN back[2] ELSE back[1]]
          /\ redo' = [redo EXCEPT ![w] = IF c.kind = "undo" THEN back[1] ELSE back[2]]
Return(c) ==
  /\ \/ c.state = "answered" /\ RecordEdit(c)
     \/ c.state \in {"failed", "reloaded"} /\ Rollback(c)
  /\ Publish(c)
  /\ calls' = calls \ {c}
  /\ UNCHANGED <<project, sent, faults>>

-------------------------------------------------------------------------------
Page(w) == EditTimeline(w) \/ EditScript(w) \/ ApplyProposal(w) \/ Undo(w) \/ Redo(w) \/ Open(w)
Server(c) == Read(c) \/ AcceptCall(c) \/ Refuse(c) \/ Reload(c)
EditorNext ==
  \/ \E w \in Window : Page(w)
  \/ \E c \in calls : Server(c) \/ Lose(c) \/ Return(c)
EditorSpec == EditorInit /\ [][EditorNext]_editorVars

-------------------------------------------------------------------------------
Document ==
  [revision : 0 .. MaxEdits, base : {<<>>} \union {<<Span(0, to)>> : to \in 1 .. Length}, cut : SUBSET Segment, length : 1 .. Length,
   clips : SUBSET [start : 0 .. Length - 1, len : 1 .. Length, source : 0 .. Length - 1]]
Stored == [before : Document, after : Document, expected : 0 .. MaxEdits + 1]
EditorTypeOK ==
  /\ project \in Document
  /\ shown \in [Window -> Document]
  /\ \A w \in Window : \A stack \in {undo[w], redo[w]} :
       Len(stack) <= MAX_HISTORY /\ ToSet(stack) \subseteq Stored
  /\ \A c \in calls : c.before \subseteq Document /\ c.got \subseteq Document /\ c.window \in Window
  /\ sent \in 0 .. MaxSent /\ faults \in 0 .. MaxFaults
  /\ \A c \in project.clips : End(c) <= project.length /\ SourceOf(c).to <= Length

(* Which calls of these kinds the server accepts in a step.                         *)
Accepted(kinds) ==
  {c \in calls : c.kind \in kinds /\ c.state = "sent" /\ [c EXCEPT !.state = "answered", !.got = {project'}] \in calls'}
Content(doc) == [doc EXCEPT !.revision = 0]

(* An accepted undo takes back exactly one change, the one its entry names, and a    *)
(* redo brings exactly it back: nothing another window, the script editor or an      *)
(* agent has done meanwhile goes with it (store/history-store.ts takes an entry only *)
(* at the revision it expects).                                                     *)
RestoreIsExact == [][
  \A c \in Accepted(Restores) : \A entry \in c.entry :
    /\ entry.after.revision = entry.before.revision + 1
    /\ Content(project) = Content(IF c.kind = "undo" THEN entry.after ELSE entry.before) ]_editorVars

(* Where the page puts a segment on the timeline, to seek to it and to highlight it,  *)
(* the track plays it from its first frame to its last (lib/script/model.ts,         *)
(* getSegmentTimelineRange), as long as the script can be edited.                     *)
Played(doc) == UNION {FramesOf(SourceOf(c)) : c \in doc.clips}
SegmentsPlayAsShown(doc) ==
  \A s \in Segment \ doc.cut :
    (Canonical(doc) /\ FramesOf(SegmentRange[s]) \subseteq Played(doc)) =>
      \E on \in SegmentOnTimeline(doc, s) :
        /\ Size(on) = Size(SegmentRange[s])
        /\ \A f \in FramesOf(on) : Plays(doc)[f] = {SegmentRange[s].from + (f - on.from)}

(* A segment is where the page puts it, and an accepted cut or return of one changes *)
(* exactly its frames of what is played, plays the rest end to end in the source's   *)
(* order, and gives back nothing that another cut or a trim has taken away, whatever *)
(* was edited and undone between (lib/script/editing.ts, buildScriptStatusTransaction). *)
CutIsExact == [][
  /\ project' # project => SegmentsPlayAsShown(project')
  /\ \A c \in Accepted({"script"}) :
    LET Frames(segments) == UNION {FramesOf(SegmentRange[s]) : s \in segments}
        base == UNION {FramesOf(r) : r \in ToSet(Base(project))}
        plays == Plays(project')
    IN /\ Played(project') = (Played(project) \ Frames(project'.cut \ project.cut))
            \union ((base \intersect Frames(project.cut \ project'.cut)) \ Frames(project'.cut))
       /\ DOMAIN plays = 0 .. project'.length - 1
       /\ \A f \in DOMAIN plays : Cardinality(plays[f]) = 1
       /\ \A f, g \in DOMAIN plays : f < g => \A x \in plays[f], y \in plays[g] : x < y ]_editorVars
================================================================================
