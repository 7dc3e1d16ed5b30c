---------------------------- MODULE OpenAIStream ----------------------------
(***************************************************************************)
(* The reply that src/llm/openai_stream.c puts together from the events of the  *)
(* Codex service, and the request around it (perform_stream of                   *)
(* src/llm/openai.c): one retry after a refused token, no reply unless the       *)
(* service has completed it.                                                *)
(*                                                                         *)
(* A text is a sequence of pieces, an event what its JSON says.  The service     *)
(* sends the items of an answer in order, calls of tools side by side, and may   *)
(* leave kinds of events out (habit).  Left out: comment and event lines, size   *)
(* limits, ill-formed events, memory that runs out.                          *)
(***************************************************************************)
EXTENDS ReplyText, Integers, FiniteSets, FiniteSetsExt

CONSTANTS Outputs,   \* the answers: sequences of items
          Habits,    \* the kinds of events that a service leaves out
          Marks      \* the pieces with nothing but comment markers and blanks

VARIABLES
  codex,   \* [output, habit, left, status, attempt] of the exchange
  event,   \* the event whose closing blank line is still to come (event_data)
  parser   \* StreamParser and its response
stream == <<codex, event, parser>>

None == [type |-> "none"]
NewParser == [content |-> <<>>, heard |-> <<>>, calls |-> <<>>, state |-> <<>>, phase |-> "",
              thinking |-> FALSE, deltas |-> FALSE, completed |-> FALSE, failed |-> FALSE, ok |-> TRUE]

\* ---- the service ----
\* What the service says of item i.  An index counts from 0 in the code, here 0
\* is none; a service may leave out the indexes, or the item's name in the
\* events of its arguments.
Events(i, it, habit) ==
  LET say(type, of) == [type |-> type, at |-> IF "index" \in habit THEN 0 ELSE i,
                        item |-> IF "item" \in habit THEN "" ELSE it.id, of |-> of]
      part(p) == Each(p, LAMBDA x : say("summary.delta", x)) \o <<say("summary.done", p)>>
      all == CASE it.kind = "reasoning" -> Flat(Each(it.summary, part)) \o <<say("item.done", it)>>
               [] it.kind = "message" -> Each(it.text, LAMBDA x : say("text.delta", x)) \o <<say("item.done", it)>>
               [] it.kind = "call" -> <<say("item.added", [it EXCEPT !.args = <<>>])>>
                                      \o Each(it.args, LAMBDA x : say("args.delta", x))
                                      \o <<say("args.done", it.args), say("item.done", it)>>
  IN SelectSeq(all, LAMBDA e : e.type \notin habit)
Sent(i) == codex.left[i] = <<>>
IsCall(i) == codex.output[i].kind = "call"
Next1(i) == /\ ~Sent(i) /\ \A j \in 1 .. i - 1 : Sent(j) \/ (IsCall(i) /\ \A k \in j .. i : IsCall(k))
OpenAIStreamInit ==
  /\ codex \in {[output |-> o, habit |-> h, left |-> [i \in DOMAIN o |-> Events(i, o[i], h)],
                 status |-> "asked", attempt |-> 0] : o \in Outputs, h \in Habits}
  /\ event = None /\ parser = NewParser

\* ---- perform_stream ----
\* A refused token is renewed once; then the same request goes out again.
Respond ==
  /\ codex.status = "asked"
  /\ \/ codex' = [codex EXCEPT !.status = "streaming"]
     \/ codex.attempt = 0 /\ codex' = [codex EXCEPT !.attempt = 1]
     \/ codex' = [codex EXCEPT !.status = "failed"]
  /\ event' = None /\ parser' = NewParser

\* ---- the text ----
\* emit_summary_text: what is nothing but markers is not shown.
Summarize(p, text) == FoldLeft(LAMBDA q, x : IF x \in Marks THEN q ELSE Think(q, x), p, text)

\* ---- the calls ----
Matches(c, at, item, id) == (at > 0 /\ c.at = at) \/ (item # "" /\ c.item = item) \/ (id # "" /\ c.id = id)
Find(calls, at, item, id) ==
  LET S == {k \in DOMAIN calls : Matches(calls[k], at, item, id)} IN IF S = {} THEN 0 ELSE Min(S)
Clash(old, new) == old # "" /\ new # "" /\ old # new
Either(old, new) == IF new # "" THEN new ELSE old
\* Mutant of Upsert: the arguments of the finished item come behind the deltas.
UpsertAppend(p, at, it) ==
  LET k == Find(p.calls, at, it.id, it.call)
      c == p.calls[k]
  IN IF k = 0 THEN [p EXCEPT !.calls = Append(@, [at |-> at, item |-> it.id, id |-> it.call, name |-> it.name, args |-> it.args])]
     ELSE [p EXCEPT !.calls[k] = [at |-> at, item |-> it.id, id |-> it.call, name |-> it.name, args |-> c.args \o it.args]]
Upsert(p, at, it) ==
  LET k == Find(p.calls, at, it.id, it.call)
      c == p.calls[k]
  IN IF k = 0 THEN [p EXCEPT !.calls = Append(@, [at |-> at, item |-> it.id, id |-> it.call, name |-> it.name, args |-> it.args])]
     ELSE IF (c.at > 0 /\ at > 0 /\ c.at # at) \/ Clash(c.item, it.id) \/ Clash(c.id, it.call) \/ Clash(c.name, it.name) THEN [p EXCEPT !.ok = FALSE]
     ELSE [p EXCEPT !.calls[k] = [at |-> IF c.at > 0 THEN c.at ELSE at, item |-> Either(c.item, it.id), id |-> Either(c.id, it.call),
                                  name |-> Either(c.name, it.name), args |-> it.args]]
\* parse_argument_delta: a call nobody has named yet gets a place of its own.
Argue(p, at, item, text, done) ==
  LET q == IF Find(p.calls, at, item, "") > 0 THEN p
           ELSE [p EXCEPT !.calls = Append(@, [at |-> at, item |-> item, id |-> "", name |-> "", args |-> <<>>])]
      k == IF Find(p.calls, at, item, "") > 0 THEN Find(p.calls, at, item, "") ELSE Len(q.calls)
  IN [q EXCEPT !.calls[k].args = IF done THEN text ELSE @ \o text]
Phase(p, it) == IF it.phase = "" THEN p ELSE [p EXCEPT !.phase = it.phase]

\* ---- the events ----
\* append_reasoning_item; the summary is told again only when no block is open.
Reasoned(p, it) ==
  LET q == [p EXCEPT !.state = Append(@, it.id)]
      r == IF q.thinking THEN q ELSE Summarize(q, Flat(it.summary))
  IN [CloseThinking(r) EXCEPT !.deltas = FALSE]
\* merge_completed_output: the reasoning items of the whole answer replace those
\* seen on the way.
Merged(p, output) ==
  LET merge(q, i) == CASE output[i].kind = "call" -> Upsert(q, i, output[i])
                       [] output[i].kind = "message" -> Phase(q, output[i])
                       [] OTHER -> q
      ids == Each(SelectSeq(output, LAMBDA it : it.kind = "reasoning"), LAMBDA it : it.id)
      all == FoldLeft(merge, p, [i \in DOMAIN output |-> i])
  IN IF ids = <<>> THEN all ELSE [all EXCEPT !.state = ids]
Processed(p, e) ==
  CASE e.type = "text.delta" -> Say(CloseThinking(p), e.of)
    [] e.type = "summary.delta" -> [Summarize(p, <<e.of>>) EXCEPT !.deltas = TRUE]
    [] e.type = "summary.done" -> IF p.deltas THEN p ELSE Summarize(p, e.of)
    [] e.type \in {"item.added", "item.done"} /\ e.of.kind = "call" -> Upsert(p, e.at, e.of)
    [] e.type = "item.done" /\ e.of.kind = "reasoning" -> Reasoned(p, e.of)
    [] e.type = "item.done" /\ e.of.kind = "message" -> Phase(p, e.of)
    [] e.type = "args.delta" -> Argue(p, e.at, e.item, <<e.of>>, FALSE)
    [] e.type = "args.done" -> Argue(p, e.at, e.item, e.of, TRUE)
    [] e.type = "completed" -> Merged([p EXCEPT !.completed = TRUE], e.of)
    [] e.type = "failed" -> [p EXCEPT !.failed = TRUE]

\* ---- the lines ----
DataLine ==
  /\ codex.status = "streaming" /\ event = None
  /\ \/ \E i \in DOMAIN codex.left : /\ Next1(i) /\ event' = Head(codex.left[i])
                                     /\ codex' = [codex EXCEPT !.left[i] = Tail(@)]
     \/ /\ \A i \in DOMAIN codex.left : Sent(i)
        /\ ~parser.completed /\ ~parser.failed
        /\ event' = [type |-> "completed", of |-> IF "output" \in codex.habit THEN <<>> ELSE codex.output]
        /\ UNCHANGED codex
     \/ ~parser.completed /\ ~parser.failed /\ event' = [type |-> "failed"] /\ UNCHANGED codex
  /\ UNCHANGED parser
\* stream_process_event; when it fails the transfer is given up.
Took(p) == /\ parser' = p /\ event' = None
           /\ codex' = IF p.ok THEN codex ELSE [codex EXCEPT !.status = "failed"]
BlankLine == codex.status = "streaming" /\ event # None /\ Took(Processed(parser, event))
Complete(calls) == \A k \in DOMAIN calls : calls[k].id # "" /\ calls[k].name # ""
\* Mutant of Finished: a call without its id or name passes.
FinishedLoose(p) == IF p.ok /\ p.completed /\ ~p.failed THEN CloseThinking(p) ELSE [p EXCEPT !.ok = FALSE]
Finished(p) ==
  IF p.ok /\ p.completed /\ ~p.failed /\ Complete(p.calls) THEN CloseThinking(p) ELSE [p EXCEPT !.ok = FALSE]
\* stream_finish, wherever the service closes the connection: the last event
\* needs no blank line.
Hangup ==
  /\ codex.status = "streaming"
  /\ LET p == Finished(IF event = None THEN parser ELSE Processed(parser, event))
     IN /\ parser' = p /\ codex' = [codex EXCEPT !.status = IF p.ok THEN "ok" ELSE "failed"]
  /\ event' = None
\* The transfer itself fails or is too slow.
Lost == codex.status = "streaming" /\ codex' = [codex EXCEPT !.status = "failed"] /\ UNCHANGED <<event, parser>>
OpenAIStreamNext == Respond \/ DataLine \/ BlankLine \/ Hangup \/ Lost

(***************************************************************************)
(* Properties.                                                              *)
(***************************************************************************)
OfKind(output, kind) == SelectSeq(output, LAMBDA it : it.kind = kind)
\* A reply that is handed on is the whole answer: every piece of text and of
\* summary once, the summary between tags that are closed, each call once with
\* its own id, name and final arguments, and the caller has heard just that.
ReplyIsAnswer ==
  codex.status = "ok" =>
    LET said == Inside(parser.content)
        called == OfKind(codex.output, "call")
    IN /\ said.ok /\ ~said.in /\ parser.heard = parser.content
       /\ said.text = Flat(Each(OfKind(codex.output, "message"), LAMBDA it : it.text))
       /\ said.thought = SelectSeq(Flat(Each(OfKind(codex.output, "reasoning"), LAMBDA it : Flat(it.summary))), LAMBDA x : x \notin Marks)
       /\ Len(parser.calls) = Len(called)
       /\ \A i \in DOMAIN codex.output : IsCall(i) =>
            \E k \in DOMAIN parser.calls : /\ parser.calls[k].id = codex.output[i].call /\ parser.calls[k].name = codex.output[i].name
                                           /\ parser.calls[k].args = codex.output[i].args
       /\ parser.state = Each(OfKind(codex.output, "reasoning"), LAMBDA it : it.id)
=============================================================================
