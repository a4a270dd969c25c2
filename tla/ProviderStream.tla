----------------------------- MODULE ProviderStream -----------------------------
(* One round of an Agent turn with a model's service: the service answers with  *)
(* a stream of events that the connection cuts into chunks anywhere; a provider *)
(* (lib/ai/providers) is a generator that puts the events together again and    *)
(* yields what they mean; the runner (lib/ai/runner.ts) collects what it yields *)
(* until the round is complete, or gives it up.  AgentSession takes a round as  *)
(* one step.                                                                   *)
EXTENDS Naturals, Sequences, FiniteSets, SequencesExt

CONSTANTS
  Dialects,   \* of "responses" (OpenAI), "chat" (DeepSeek), "plan", "completion" (Volcengine)
  MaxEvents,  \* bound: events of an answer, in each dialect
  MaxCuts     \* bound: chunks that end before what is there does

VARIABLES
  dialect,
  answer,   \* what the service answers, as it goes over the wire
  wire,     \* what of it has not been read
  buffer,   \* what has been read and not been taken
  gen,      \* the generator: where it is, what it remembers, what it is to yield
  held,     \* what it must give back: its timer, its listener, its reader
  round,    \* the runner: where it is, and what it has collected
  fired,    \* of "timer", "clock", "cancel", "refused", "broken": what has happened
  cuts

streamVars == <<dialect, answer, wire, buffer, gen, held, round, fired, cuts>>

-------------------------------------------------------------------------------
(* What the services say.  A call's arguments come in pieces, 1 and then 2; id 0 *)
(* stands for none, and a text that is no event of the dialect for "noise".      *)
Whole == <<1, 2>>
Event(kind) == [kind |-> kind]
Item(id, args) == [kind |-> "item", id |-> id, args |-> args]
Piece(i, id, args) == [kind |-> "piece", at |-> i, id |-> id, args |-> args]
FinishEvent(why) == [kind |-> "finish", why |-> why]

Goes(d) ==
  CASE d = "responses" -> {Event("text"), Event("ping"), Item(1, Whole), Item(2, Whole), Item(2, <<1>>)}
    [] d = "chat" -> {Event("text"), FinishEvent("stop"), FinishEvent("calls"), FinishEvent("length"),
                      Piece(0, 1, <<1>>), Piece(0, 0, <<2>>), Piece(1, 2, Whole)}
    [] d = "plan" -> {Event("text"), Event("ping"), FinishEvent("stop"), FinishEvent("length")}
    [] OTHER -> {}

Ends(d) ==
  CASE d = "responses" -> {Event("end"), Event("fail"), Event("noise")}
    [] d = "completion" -> {Event("noise")} \union
         [kind : {"body"}, why : {"stop", "length"}, text : BOOLEAN,
          calls : {<< >>, <<Item(1, Whole)>>, <<Item(1, Whole), Item(2, <<1>>)>>}]
    [] OTHER -> {Event("end"), Event("noise")}

(* A line ends with CR LF, an event with an empty line; the answer may stop     *)
(* anywhere.                                                                    *)
CR == Event("CR")
LF == Event("LF")
Tokens(events) == FlattenSeq([i \in DOMAIN events |-> <<events[i], CR, LF, CR, LF>>])
EventsOf(tokens) == SelectSeq(tokens, LAMBDA t : t \notin {CR, LF})

Sequences(d) ==
  UNION {[1..n -> Goes(d)] : n \in 0..(MaxEvents[d] - 1)}
Answers(d) ==
  LET whole == {Tokens(s) : s \in Sequences(d)} \union {Tokens(Append(s, e)) : s \in Sequences(d), e \in Ends(d)}
  IN  whole \union {SubSeq(t, 1, Len(t) - n) : t \in {w \in whole : w # << >>}, n \in {2, 4}}

Opening == [at |-> "fetch", finish |-> "", pending |-> << >>, ids |-> {}, saw |-> FALSE, out |-> << >>]

StreamInit ==
  /\ dialect \in Dialects
  /\ answer = << >> /\ wire = << >> /\ buffer = << >>
  /\ gen = Opening /\ held = {"timer", "listener"}
  /\ round = [at |-> "next", text |-> 0, calls |-> << >>, completed |-> FALSE]
  /\ fired = {} /\ cuts = 0

-------------------------------------------------------------------------------
(* The request: answered, or refused or lost.                                   *)
Says(gone, out) == [gone EXCEPT !.at = "last", !.out = out]
Error == Event("error")

Fetched ==
  /\ gen.at = "fetch" /\ fired = {}
  /\ answer' \in Answers(dialect) /\ wire' = answer'
  /\ gen' = [gen EXCEPT !.at = "read"] /\ held' = held \union {"reader"}
  /\ UNCHANGED <<dialect, buffer, round, fired, cuts>>

NotFetched ==
  /\ gen.at = "fetch" /\ fired = {}
  /\ fired' = {"refused"} /\ held' = {}
  /\ gen' = Says(gen, <<Error>>)
  /\ UNCHANGED <<dialect, answer, wire, buffer, round, cuts>>

-------------------------------------------------------------------------------
(* readSseData: a chunk is joined to the buffer, whose line ends are then put   *)
(* right; an event is taken as soon as an empty line ends it.                   *)
RECURSIVE Unix(_)
Unix(s) ==
  CASE Len(s) < 2 -> s
    [] s[1] = CR /\ s[2] = LF -> <<LF>> \o Unix(SubSeq(s, 3, Len(s)))
    [] OTHER -> <<s[1]>> \o Unix(Tail(s))

(* Mutant: line ends are put right in the chunk only.                           *)
JoinedApart(chunk) == buffer \o Unix(chunk)
Joined(chunk) == Unix(buffer \o chunk)

Boundaries == {i \in 1..(Len(buffer) - 1) : buffer[i] = LF /\ buffer[i + 1] = LF}
Streams == dialect # "completion"
Waits == gen.at = "read" /\ gen.out = << >> /\ (Streams => Boundaries = {})

Chunk ==
  /\ Waits /\ "timer" \notin fired /\ wire # << >>
  /\ \E n \in 1..Len(wire) :
       /\ n < Len(wire) => cuts < MaxCuts
       /\ cuts' = IF n < Len(wire) THEN cuts + 1 ELSE cuts
       /\ buffer' = Joined(SubSeq(wire, 1, n))
       /\ wire' = SubSeq(wire, n + 1, Len(wire))
  /\ UNCHANGED <<dialect, answer, gen, held, round, fired>>

-------------------------------------------------------------------------------
(* What an event means in each dialect: what the generator remembers after it,  *)
(* with what it is to yield; "last" when it returns then.                       *)
CallOf(id, args) == [kind |-> "call", id |-> id, args |-> args]
Right(id, args) == id # 0 /\ args = Whole
Yields(out) == [gen EXCEPT !.out = out]

(* The calls up to the first that is not right, and then the error.             *)
RECURSIVE Checked(_)
Checked(calls) ==
  CASE calls = << >> -> <<Event("completed")>>
    [] Right(Head(calls).id, Head(calls).args) -> <<Head(calls)>> \o Checked(Tail(calls))
    [] OTHER -> <<Error>>

ResponsesEvent(e) ==
  CASE e.kind = "text" -> Yields(<<e>>)
    [] e.kind = "ping" -> gen
    [] e.kind = "item" /\ e.id \in gen.ids -> gen
    [] e.kind = "item" /\ Right(e.id, e.args) -> [Yields(<<CallOf(e.id, e.args)>>) EXCEPT !.ids = @ \union {e.id}]
    [] e.kind = "end" -> Says(gen, <<Event("completed")>>)
    [] OTHER -> Says(gen, <<Error>>)

(* Mutant: what comes of a call replaces what came of it before.                *)
PutReplaced(e, old) == [id |-> IF e.id = 0 THEN old.id ELSE e.id, args |-> e.args]
Put(e, old) == [id |-> IF e.id = 0 THEN old.id ELSE e.id, args |-> old.args \o e.args]

PieceOf(e) ==
  LET old == IF \E p \in Range(gen.pending) : p.at = e.at
             THEN CHOOSE p \in Range(gen.pending) : p.at = e.at
             ELSE [at |-> e.at, id |-> 0, args |-> << >>]
      new == [at |-> e.at] @@ Put(e, old)
      others == SelectSeq(gen.pending, LAMBDA p : p.at # e.at)
  IN  SetToSortSeq(Range(others) \union {new}, LAMBDA p, q : p.at < q.at)

ChatDone ==
  CASE gen.finish = "calls" /\ gen.pending # << >> ->
         Says(gen, Checked([i \in DOMAIN gen.pending |-> CallOf(gen.pending[i].id, gen.pending[i].args)]))
    [] gen.finish = "stop" /\ gen.pending = << >> -> Says(gen, <<Event("completed")>>)
    [] OTHER -> Says(gen, <<Error>>)

ChatEvent(e) ==
  CASE e.kind = "text" -> Yields(<<e>>)
    [] e.kind = "piece" -> [gen EXCEPT !.pending = PieceOf(e)]
    [] e.kind = "finish" -> [gen EXCEPT !.finish = e.why]
    [] e.kind = "end" -> ChatDone
    [] OTHER -> Says(gen, <<Error>>)

PlanEvent(e) ==
  CASE e.kind = "text" -> [Yields(<<e>>) EXCEPT !.saw = TRUE]
    [] e.kind = "ping" -> gen
    [] e.kind = "finish" -> [gen EXCEPT !.finish = e.why]
    [] e.kind = "end" /\ gen.finish \in {"", "stop"} /\ gen.saw -> Says(gen, <<Event("completed")>>)
    [] OTHER -> Says(gen, <<Error>>)

CompletionBody(e) ==
  IF e.kind # "body" \/ e.why = "length" \/ (e.calls = << >> /\ ~e.text) THEN Says(gen, <<Error>>)
  ELSE IF e.calls = << >> THEN Says(gen, <<Event("text"), Event("completed")>>)
  ELSE Says(gen, Checked([i \in DOMAIN e.calls |-> CallOf(e.calls[i].id, e.calls[i].args)]))

Meant(e) == CASE dialect = "responses" -> ResponsesEvent(e)
              [] dialect = "chat" -> ChatEvent(e)
              [] OTHER -> PlanEvent(e)

(* Of a block without an event nothing is said; one with two is no JSON.        *)
Block(tokens) ==
  LET events == EventsOf(tokens)
  IN  CASE events = << >> -> gen
        [] Len(events) = 1 -> Meant(events[1])
        [] OTHER -> Says(gen, <<Error>>)

Take ==
  /\ gen.at = "read" /\ gen.out = << >> /\ Streams /\ Boundaries # {}
  /\ LET i == CHOOSE b \in Boundaries : \A c \in Boundaries : b <= c
     IN  /\ gen' = Block(SubSeq(buffer, 1, i - 1))
         /\ buffer' = SubSeq(buffer, i + 2, Len(buffer))
  /\ UNCHANGED <<dialect, answer, wire, held, round, fired, cuts>>

(* The answer has ended: what is left of it is taken for an event, and a stream *)
(* without a last event is an error.  What does not stream is read whole.       *)
AtEnd ==
  LET left == Block(buffer)
  IN  IF left.at = "last" THEN left ELSE Says(gen, Append(left.out, Error))

NoMore ==
  /\ Waits /\ wire = << >> /\ "timer" \notin fired
  /\ gen' = CASE Streams -> AtEnd
              [] EventsOf(buffer) = << >> -> Says(gen, <<Error>>)
              [] OTHER -> CompletionBody(EventsOf(buffer)[1])
  /\ buffer' = << >>
  /\ UNCHANGED <<dialect, answer, wire, held, round, fired, cuts>>

(* The connection breaks, or is given up by the provider's timer or, when the   *)
(* runner has left, by its signal.                                              *)
Breaks ==
  /\ Waits /\ "broken" \notin fired /\ round.at = "next"
  /\ fired' = fired \union {"broken"} /\ gen' = Says(gen, <<Error>>)
  /\ UNCHANGED <<dialect, answer, wire, buffer, held, round, cuts>>

TimerFires ==
  /\ gen.at \in {"fetch", "read"} /\ round.at = "next" /\ "timer" \notin fired
  /\ fired' = fired \union {"timer"}
  /\ UNCHANGED <<dialect, answer, wire, buffer, gen, held, round, cuts>>

GivenUp ==
  /\ gen.at = "fetch" \/ Waits
  /\ "timer" \in fired \/ round.at # "next"
  /\ gen' = Says(gen, <<Error>>)
  /\ held' = IF gen.at = "fetch" THEN {} ELSE held
  /\ UNCHANGED <<dialect, answer, wire, buffer, round, fired, cuts>>

-------------------------------------------------------------------------------
(* runTurn: what is yielded is collected while the generator waits.             *)
Collected(e) ==
  CASE e.kind = "text" -> [round EXCEPT !.text = @ + 1]
    [] e.kind = "call" -> [round EXCEPT !.calls = Append(@, e)]
    [] e.kind = "completed" -> [round EXCEPT !.completed = TRUE]
    [] OTHER -> [round EXCEPT !.at = "failed"]

Collect ==
  /\ round.at = "next" /\ gen.out # << >>
  /\ round' = Collected(Head(gen.out))
  /\ gen' = [gen EXCEPT !.out = Tail(@)]
  /\ UNCHANGED <<dialect, answer, wire, buffer, held, fired, cuts>>

(* The generator returns, by itself or because the runner closes it.            *)
Return ==
  /\ \/ gen.at = "last" /\ gen.out = << >>
     \/ round.at # "next" /\ (gen.at = "last" \/ (gen.at = "read" /\ ~Waits))
  /\ gen' = [gen EXCEPT !.at = "done", !.out = << >>] /\ held' = {}
  /\ round' = IF round.at # "next" THEN round
              ELSE [round EXCEPT !.at = IF round.completed THEN "ran" ELSE "failed"]
  /\ UNCHANGED <<dialect, answer, wire, buffer, fired, cuts>>

(* The turn's time is up, or the user cancels it: the runner leaves, while the  *)
(* generator may still wait for the service.                                    *)
LeaveStream(why) ==
  /\ round.at = "next" /\ gen.at \in {"fetch", "read"}
  /\ fired' = fired \union {why}
  /\ round' = [round EXCEPT !.at = why]
  /\ UNCHANGED <<dialect, answer, wire, buffer, gen, held, cuts>>

StreamNext ==
  \/ Fetched \/ NotFetched \/ Chunk \/ Take \/ NoMore \/ Breaks \/ TimerFires \/ GivenUp
  \/ Collect \/ Return
  \/ \E why \in {"clock", "cancel"} : LeaveStream(why)

StreamSpec == StreamInit /\ [][StreamNext]_streamVars

-------------------------------------------------------------------------------
(* What an answer means, however it is cut: whether it is complete, and the     *)
(* calls it makes.                                                              *)
Said == EventsOf(answer)
SaidOf(kind) == {i \in DOMAIN Said : Said[i].kind = kind}
LastWhy == IF SaidOf("finish") = {} THEN "" ELSE Said[Max(SaidOf("finish"))].why
Indexes == {Said[i].at : i \in SaidOf("piece")}
PiecesAt(k) == SelectSeq(Said, LAMBDA e : e.kind = "piece" /\ e.at = k)
IdAt(k) == LET ids == {i \in DOMAIN PiecesAt(k) : PiecesAt(k)[i].id # 0}
           IN  IF ids = {} THEN 0 ELSE PiecesAt(k)[Max(ids)].id
ArgsAt(k) == FlattenSeq([i \in DOMAIN PiecesAt(k) |-> PiecesAt(k)[i].args])
FirstItems == {i \in SaidOf("item") : \A j \in SaidOf("item") : j < i => Said[j].id # Said[i].id}

Asked ==
  CASE dialect = "responses" ->
         LET order == SetToSortSeq(FirstItems, LAMBDA i, j : i < j)
         IN  [i \in DOMAIN order |-> CallOf(Said[order[i]].id, Said[order[i]].args)]
    [] dialect = "chat" ->
         LET order == SetToSortSeq(Indexes, LAMBDA i, j : i < j)
         IN  [i \in DOMAIN order |-> CallOf(IdAt(order[i]), ArgsAt(order[i]))]
    [] dialect = "completion" -> [i \in DOMAIN Said[1].calls |-> CallOf(Said[1].calls[i].id, Said[1].calls[i].args)]
    [] OTHER -> << >>

Complete ==
  /\ Said # << >>
  /\ CASE dialect = "responses" -> SaidOf("end") # {}
       [] dialect = "chat" -> /\ SaidOf("end") # {}
                              /\ LastWhy = IF Indexes = {} THEN "stop" ELSE "calls"
       [] dialect = "plan" -> SaidOf("end") # {} /\ LastWhy \in {"", "stop"} /\ SaidOf("text") # {}
       [] OTHER -> /\ Said[1].kind = "body" /\ Said[1].why = "stop"
                   /\ Said[1].text \/ Said[1].calls # << >>
  /\ \A i \in DOMAIN Asked : Right(Asked[i].id, Asked[i].args)

Texts == IF dialect # "completion" THEN Cardinality(SaidOf("text")) ELSE IF Asked = << >> THEN 1 ELSE 0

(* A round runs exactly if the service's answer is complete and nothing has come *)
(* in between, with the calls it makes, each once and in their order, wherever   *)
(* the chunks ended; when the generator is done it has given back all it held.   *)
RoundIsWhole ==
  /\ round.at = "ran" => Complete /\ round.calls = Asked /\ round.text = Texts
  /\ round.at = "failed" => fired # {} \/ ~Complete
  /\ gen.at = "done" => held = {} /\ round.at # "next"
===============================================================================
