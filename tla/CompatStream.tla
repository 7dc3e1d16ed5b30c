---------------------------- MODULE CompatStream ----------------------------
(***************************************************************************)
(* The reply of a server that speaks /v1/chat/completions, as it streams in      *)
(* (src/llm/openai_compatible_stream.c, openai_compatible_chat_stream_request)   *)
(* and as it is read in one piece (openai_compatible_parse_response).            *)
(*                                                                         *)
(* The answer is [thought, text, calls], pieces in order; a server tells the     *)
(* thinking first and names a call in its first delta.  Left out: bodies of       *)
(* requests, other choices than the first, memory that runs out.                *)
(***************************************************************************)
EXTENDS ReplyText, Integers, FiniteSets

CONSTANT Answers

VARIABLES
  served,  \* [answer, said, status, cut]: what the server has to say and has said
  reader   \* StreamParser and its response
compat == <<served, reader>>

NewReader == [content |-> <<>>, heard |-> <<>>, calls |-> <<>>, thinking |-> FALSE]
CompatInit ==
  /\ served \in {[answer |-> a, said |-> [thought |-> 0, text |-> 0, calls |-> [i \in DOMAIN a.calls |-> 0]],
                  status |-> "asked", cut |-> "no"] : a \in Answers}
  /\ reader = NewReader

\* ---- one event ----
Delta == [thought |-> "", text |-> "", calls |-> <<>>]
\* forward_reasoning_delta
Forward(p, piece) == IF piece = "" THEN p ELSE Think(p, piece)
\* ensure_tool_call: the calls up to an index are made together.
Blank == [id |-> <<>>, name |-> <<>>, args |-> <<>>]
Ensured(calls, i) == IF i <= Len(calls) THEN calls ELSE calls \o [k \in 1 .. i - Len(calls) |-> Blank]
Added(c, d) == [id |-> c.id \o d.id, name |-> c.name \o d.name, args |-> c.args \o d.args]
\* Mutant of Called: the calls of a delta all go to the first.
CalledFirst(calls, d) == LET all == Ensured(calls, 1) IN [all EXCEPT ![1] = Added(@, d)]
Called(calls, d) == LET all == Ensured(calls, d.at) IN [all EXCEPT ![d.at] = Added(@, d)]
Told(p, d) ==
  LET q == Forward(p, d.thought)
      r == IF d.text = "" THEN q ELSE Say(CloseThinking(q), d.text)
  IN [r EXCEPT !.calls = FoldLeft(Called, @, d.calls)]

\* ---- the exchange ----
\* A status that is no success: its body is for the log only.
CompatRespond == /\ served.status = "asked" /\ \E to \in {"streaming", "failed"} : served' = [served EXCEPT !.status = to]
                 /\ UNCHANGED reader
\* What the server may say next, and what it has said then.
Upcoming ==
  LET a == served.answer
      n == served.said
      thoughts == {m \in {n.thought + 1} : m <= Len(a.thought)}
      texts == {m \in {n.text + 1} : m <= Len(a.text)}
      first(i) == n.calls[i] = 0
      piece(i) == [at |-> i, id |-> IF first(i) THEN <<a.calls[i].id>> ELSE <<>>, name |-> IF first(i) THEN <<a.calls[i].name>> ELSE <<>>,
                   args |-> IF n.calls[i] < Len(a.calls[i].args) THEN <<a.calls[i].args[n.calls[i] + 1]>> ELSE <<>>]
      open == {i \in DOMAIN a.calls : n.calls[i] < Len(a.calls[i].args) \/ first(i)}
  IN IF thoughts # {} THEN {<<[Delta EXCEPT !.thought = a.thought[m]], [n EXCEPT !.thought = m]>> : m \in thoughts}
     ELSE {<<[Delta EXCEPT !.text = a.text[m]], [n EXCEPT !.text = m]>> : m \in texts}
          \cup (IF texts # {} THEN {} ELSE {<<[Delta EXCEPT !.calls = <<piece(i)>>], [n EXCEPT !.calls[i] = @ + 1]>> : i \in open})
          \cup (IF texts = {} /\ open = DOMAIN a.calls /\ (\A i \in open : first(i)) /\ open # {}
                THEN {<<[Delta EXCEPT !.calls = [i \in DOMAIN a.calls |-> piece(i)]], [n EXCEPT !.calls = [i \in DOMAIN a.calls |-> 1]]>>}
                ELSE {})
\* A whole line, with its end or, the last of all, without one: it is then read
\* by stream_parser_finish.
DeltaLine ==
  /\ served.status = "streaming" /\ served.cut = "no"
  /\ \E u \in Upcoming, last \in BOOLEAN :
       /\ reader' = Told(reader, u[1])
       /\ served' = [served EXCEPT !.said = u[2], !.cut = IF last THEN "after" ELSE "no"]
\* The connection ends: in a line, whose JSON does not parse, or between two.
CompatClose ==
  /\ served.status = "streaming"
  /\ \/ served.cut = "no" /\ Upcoming # {} /\ served' = [served EXCEPT !.status = "failed"] /\ UNCHANGED reader
     \/ reader' = CloseThinking(reader) /\ served' = [served EXCEPT !.status = "ok"]
CompatNext == CompatRespond \/ DeltaLine \/ CompatClose

\* ---- in one piece ----
\* Without thinking and without text there is no content at all.
Buffered(a) ==
  [content |-> (IF a.thought # <<>> THEN <<"<think>">> \o a.thought \o <<"</think>">> ELSE <<>>) \o a.text,
   calls |-> [i \in DOMAIN a.calls |-> [id |-> <<a.calls[i].id>>, name |-> <<a.calls[i].name>>, args |-> a.calls[i].args]]]

\* A reply that streamed to its end is the one that a buffered request brings;
\* one that the server cut short is the front of it, its tags closed.
StreamedAsBuffered ==
  served.status = "ok" =>
    LET whole == Buffered(served.answer)
        said == Inside(reader.content)
    IN /\ reader.heard = reader.content /\ said.ok /\ ~said.in
       /\ Upcoming = {} => reader.content = whole.content /\ reader.calls = whole.calls
       /\ IsPrefix(said.thought, served.answer.thought) /\ IsPrefix(said.text, served.answer.text)
=============================================================================
