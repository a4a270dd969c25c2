----------------------------- MODULE WorkspacePage ------------------------------
(* components/studio/useWorkspaceProjectRuntime.ts: which project the           *)
(* workspace page shows, while commands, a file, a reload, an opening and a     *)
(* creation are answered in any order.  Commands run one after the other, in a  *)
(* chain of promises, each on what the page shows when its turn comes; openings *)
(* are numbered, and the answer to an older one is dropped; an answer to a      *)
(* command is shown if its project still is, at no later a revision.            *)
(*                                                                              *)
(* The server is here only the revision of each project (ProjectMutation is     *)
(* its module), and the list of recent projects is left out.  Each request is   *)
(* two steps: the server answers, the page hears of it.                         *)
EXTENDS Integers, Sequences

CONSTANTS
  Film,        \* projects
  NoFilm,      \* nothing is shown, or nothing is asked for
  MaxCommands, MaxOpenings, MaxImports, MaxReloads, MaxOthers,  \* bounds
  Hasty        \* TRUE: commands, files and saves are asked for while an opening
               \* is under way, openings while an import or a save is, creations
               \* while commands are queued

VARIABLES
  revision,    \* server: each project's revision; -1: not created
  page,        \* the project store: [film, rev]
  chain,       \* mutationChainRef: commands not over, the first one at work
  given,       \* commands given; the number of the last one
  transition,  \* projectTransitionRef
  openings,    \* openings and creations under way
  upload,      \* the file that is imported
  reload,      \* the save button's reload
  imports, reloads, others,
  told,        \* history: the latest revision of each project the page was given
  asked,       \* history: the project the page should show
  strayed      \* history: a command was made of another project than the one
               \* that was shown when it was given

pageVars == <<revision, page, chain, given, transition, openings, upload, reload,
              imports, reloads, others, told, asked, strayed>>

Nothing == [film |-> NoFilm, rev |-> -1]
NoRequest == [at |-> "none", film |-> NoFilm, base |-> -1, rev |-> -1]

PageInit ==
  /\ revision \in [Film -> {-1, 0}]
  /\ \E f \in Film : revision[f] = 0 /\ page = [film |-> f, rev |-> 0]
  /\ chain = << >> /\ given = 0 /\ transition = 0 /\ openings = {}
  /\ upload = NoRequest /\ reload = NoRequest
  /\ imports = 0 /\ reloads = 0 /\ others = 0
  /\ told = [f \in Film |-> IF f = page.film THEN 0 ELSE -1]
  /\ asked = page.film /\ strayed = FALSE

PageTypeOK ==
  LET Revisions == -1 .. (MaxCommands + 2 * MaxImports + MaxOthers)
      Requests == [at : {"none", "asked", "answered", "refused", "follows",
                         "followed", "reloads", "reloaded"},
                   film : Film \cup {NoFilm}, base : Revisions, rev : Revisions]
  IN  /\ revision \in [Film -> Revisions] /\ told \in [Film -> Revisions]
      /\ page \in [film : Film, rev : Revisions]
      /\ chain \in Seq([nr : 1 .. MaxCommands, for : Film, work : Requests])
      /\ {upload, reload} \subseteq Requests
      /\ given \in 0 .. MaxCommands /\ transition \in 0 .. MaxOpenings
      /\ \A o \in openings : o.nr \in 1 .. MaxOpenings /\ o.after \in 0 .. MaxCommands
      /\ asked \in Film /\ strayed \in BOOLEAN

(* canPublishProject.  Mutant: the revision is not compared.                    *)
MayShowAny(film, rev) == page.film = film
MayShow(film, rev) == page.film = film /\ rev >= page.rev

Hear(film, rev) == told' = [told EXCEPT ![film] = IF rev > @ THEN rev ELSE @]

Publish(film, rev) ==
  /\ page' = IF MayShow(film, rev) THEN [film |-> film, rev |-> rev] ELSE page
  /\ Hear(film, rev)

(* A command, or an import, at the server: made at the revision it was meant    *)
(* for, or refused; a lost answer of a command is a failure like another.       *)
Served(request) ==
  \/ /\ request.base = revision[request.film]
     /\ revision' = [revision EXCEPT ![request.film] = @ + 1]
  \/ request.base # revision[request.film] /\ UNCHANGED revision

ServedAs(request, done, refused) ==
  IF request.base = revision[request.film]
  THEN [request EXCEPT !.at = done, !.rev = revision[request.film] + 1]
  ELSE [request EXCEPT !.at = refused]

-------------------------------------------------------------------------------
(* Commands                                                                     *)

Quiet == openings = {}

(* The first command is at work as soon as the one before it is over, based on  *)
(* what the page shows then.                                                    *)
Turn(commands, shown) ==
  /\ chain' = IF commands = << >> \/ commands[1].work # NoRequest THEN commands
              ELSE [commands EXCEPT ![1].work =
                      [at |-> "asked", film |-> shown.film, base |-> shown.rev, rev |-> -1]]
  /\ strayed' = (strayed \/ (chain' # << >> /\ chain'[1].work.film # chain'[1].for))

PersistCommand ==
  /\ given < MaxCommands /\ (Hasty \/ Quiet)
  /\ given' = given + 1
  /\ Turn(Append(chain, [nr |-> given + 1, for |-> page.film, work |-> NoRequest]), page)
  /\ UNCHANGED <<revision, page, transition, openings, upload, reload, imports,
                 reloads, others, told, asked>>

AtWork == IF chain = << >> THEN NoRequest ELSE chain[1].work
Works(at) == chain # << >> /\ AtWork.at = at
Work(request) == chain' = [chain EXCEPT ![1].work = request]

CommandServed ==
  /\ Works("asked")
  /\ Served(AtWork) /\ Work(ServedAs(AtWork, "answered", "refused"))
  /\ UNCHANGED <<page, given, transition, openings, upload, reload, imports,
                 reloads, others, told, asked, strayed>>

(* It failed before the server took it, or its answer was lost.                 *)
CommandFails ==
  /\ Works("asked") \/ Works("answered") \/ Works("refused")
  /\ Turn(Tail(chain), page)
  /\ UNCHANGED <<revision, page, given, transition, openings, upload, reload,
                 imports, reloads, others, told, asked>>

CommandAnswered ==
  /\ Works("answered")
  /\ Publish(AtWork.film, AtWork.rev)
  /\ Turn(Tail(chain), page')
  /\ UNCHANGED <<revision, given, transition, openings, upload, reload, imports,
                 reloads, others, asked>>

(* After a conflict the latest project is read before the chain goes on.        *)
ReadLatest ==
  /\ Works("refused")
  /\ Work([AtWork EXCEPT !.at = "reloaded", !.rev = revision[AtWork.film]])
  /\ UNCHANGED <<revision, page, given, transition, openings, upload, reload,
                 imports, reloads, others, told, asked, strayed>>

LatestArrives ==
  /\ Works("reloaded")
  /\ Publish(AtWork.film, AtWork.rev)
  /\ Turn(Tail(chain), page')
  /\ UNCHANGED <<revision, given, transition, openings, upload, reload, imports,
                 reloads, others, asked>>

-------------------------------------------------------------------------------
(* Openings and creations                                                       *)

Transition(film, at, after) ==
  /\ transition < MaxOpenings
  /\ Hasty \/ (upload = NoRequest /\ reload = NoRequest)
  /\ transition' = transition + 1
  /\ openings' = openings \cup
       {[nr |-> transition + 1, film |-> film, at |-> at, after |-> after, rev |-> -1]}
  /\ asked' = film
  /\ UNCHANGED <<revision, page, chain, given, upload, reload, imports, reloads,
                 others, told, strayed>>

(* An opening waits for the commands given before it.                           *)
(* Mutant: it does not.                                                         *)
AwaitedNone == 0
Awaited == given

OpenProject(film) == revision[film] >= 0 /\ Transition(film, "waits", Awaited)
CreateNewProject(film) ==
  /\ revision[film] = -1 /\ \A o \in openings : o.film # film
  /\ Hasty \/ Len(chain) <= 1
  /\ Transition(film, "creates", 0)

Over(nr) == \A i \in DOMAIN chain : chain[i].nr > nr

OpeningServed(o) ==
  /\ \/ o.at = "waits" /\ Over(o.after) /\ UNCHANGED revision
     \/ o.at = "creates" /\ revision' = [revision EXCEPT ![o.film] = 0]
  /\ openings' = (openings \ {o}) \cup
       {[o EXCEPT !.at = "loaded", !.rev = revision'[o.film]]}
  /\ UNCHANGED <<page, chain, given, transition, upload, reload, imports, reloads,
                 others, told, asked, strayed>>

(* It is shown unless a newer one has begun, whatever the page shows.           *)
OpeningAnswered(o) ==
  /\ o.at = "loaded"
  /\ openings' = openings \ {o}
  /\ page' = IF o.nr = transition THEN [film |-> o.film, rev |-> o.rev] ELSE page
  /\ IF o.nr = transition THEN Hear(o.film, o.rev) ELSE UNCHANGED told
  /\ UNCHANGED <<revision, chain, given, transition, upload, reload, imports,
                 reloads, others, asked, strayed>>

(* One that fails leaves the page at what it shows.                             *)
OpeningFails(o) ==
  /\ o.at \in {"waits", "creates"} => Over(o.after)
  /\ openings' = openings \ {o}
  /\ asked' = IF o.nr = transition THEN page.film ELSE asked
  /\ UNCHANGED <<revision, page, chain, given, transition, upload, reload, imports,
                 reloads, others, told, strayed>>

-------------------------------------------------------------------------------
(* A file, beside the chain; the canvas may be matched to it by a command of    *)
(* its own, and only its answer is shown then.                                  *)

UploadFile ==
  /\ upload = NoRequest /\ imports < MaxImports /\ (Hasty \/ Quiet)
  /\ imports' = imports + 1
  /\ upload' = [at |-> "asked", film |-> page.film, base |-> page.rev, rev |-> -1]
  /\ UNCHANGED <<revision, page, chain, given, transition, openings, reload,
                 reloads, others, told, asked, strayed>>

UploadServed ==
  /\ upload.at \in {"asked", "follows"}
  /\ Served(upload)
  /\ upload' = ServedAs(upload, IF upload.at = "asked" THEN "answered" ELSE "followed",
                        "refused")
  /\ UNCHANGED <<page, chain, given, transition, openings, reload, imports, reloads,
                 others, told, asked, strayed>>

FollowUp ==
  /\ upload.at = "answered"
  /\ upload' = [upload EXCEPT !.at = "follows", !.base = upload.rev]
  /\ UNCHANGED <<revision, page, chain, given, transition, openings, reload,
                 imports, reloads, others, told, asked, strayed>>

UploadAnswered ==
  /\ upload.at \in {"answered", "followed"}
  /\ Publish(upload.film, upload.rev)
  /\ upload' = NoRequest
  /\ UNCHANGED <<revision, chain, given, transition, openings, reload, imports,
                 reloads, others, asked, strayed>>

UploadFails ==
  /\ upload # NoRequest
  /\ upload' = NoRequest
  /\ UNCHANGED <<revision, page, chain, given, transition, openings, reload,
                 imports, reloads, others, told, asked, strayed>>

-------------------------------------------------------------------------------
(* The save button: it waits for the chain and reads the project again.         *)

SaveProject ==
  /\ reload = NoRequest /\ reloads < MaxReloads /\ (Hasty \/ Quiet)
  /\ reloads' = reloads + 1
  /\ reload' = [NoRequest EXCEPT !.at = "asked", !.base = given]
  /\ UNCHANGED <<revision, page, chain, given, transition, openings, upload,
                 imports, others, told, asked, strayed>>

(* The project it reads is the one shown then.                                  *)
SaveServed ==
  /\ reload.at = "asked" /\ Over(reload.base)
  /\ reload' = [reload EXCEPT !.at = "reloaded", !.film = page.film,
                              !.rev = revision[page.film]]
  /\ UNCHANGED <<revision, page, chain, given, transition, openings, upload,
                 imports, reloads, others, told, asked, strayed>>

SaveAnswered ==
  /\ reload.at = "reloaded"
  /\ Publish(reload.film, reload.rev)
  /\ reload' = NoRequest
  /\ UNCHANGED <<revision, chain, given, transition, openings, upload, imports,
                 reloads, others, asked, strayed>>

(* Jobs, workflows and other pages edit the project too.                        *)
EditByOtherPages(film) ==
  /\ others < MaxOthers /\ revision[film] >= 0
  /\ others' = others + 1
  /\ revision' = [revision EXCEPT ![film] = @ + 1]
  /\ UNCHANGED <<page, chain, given, transition, openings, upload, reload, imports,
                 reloads, told, asked, strayed>>

PageNext ==
  \/ PersistCommand \/ CommandServed \/ CommandFails
  \/ CommandAnswered \/ ReadLatest \/ LatestArrives
  \/ \E f \in Film : OpenProject(f) \/ CreateNewProject(f) \/ EditByOtherPages(f)
  \/ \E o \in openings : OpeningServed(o) \/ OpeningAnswered(o) \/ OpeningFails(o)
  \/ UploadFile \/ UploadServed \/ FollowUp \/ UploadAnswered \/ UploadFails
  \/ SaveProject \/ SaveServed \/ SaveAnswered

-------------------------------------------------------------------------------
(* Whatever is answered when: a command is made of the project it was given     *)
(* for, never of the one opened since; the page never goes back behind a        *)
(* revision of its project that it was given; and when no opening is under way  *)
(* it shows the project asked for last, or what it showed if that one failed.   *)
PageIsTrue ==
  /\ ~strayed
  /\ page.rev >= told[page.film]
  /\ openings = {} => page.film = asked
===============================================================================
