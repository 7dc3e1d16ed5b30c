---------------------------- MODULE OllamaStream ----------------------------
(***************************************************************************)
(* The reply of Ollama (src/llm/ollama.c): lines of JSON that come in bytes of    *)
(* any cut, kept until their end is there (write_cb), and a last line that may    *)
(* have none (ollama_chat_request).                                            *)
(*                                                                         *)
(* A line is [thought, text, calls]; a call is [name, args], its name "" when     *)
(* the server sends none.  Left out: bodies of requests, memory that runs out.   *)
(***************************************************************************)
EXTENDS ReplyText, Integers, FiniteSets

CONSTANTS Talks,     \* sequences of lines
          Bursts     \* how many lines may come at once

VARIABLES
  talk,    \* [lines, at, ended, status]: what is sent, the lines that are in, the last one has its end
  collected      \* WriteBuf and the response: [held, content, heard, thinking, calls]
ollama == <<talk, collected>>

OllamaInit ==
  /\ talk \in {[lines |-> t, at |-> 0, ended |-> e, status |-> "streaming"] : t \in Talks, e \in BOOLEAN}
  /\ collected = [held |-> <<>>, content |-> <<>>, heard |-> <<>>, thinking |-> FALSE, calls |-> <<>>]

\* forward_chunk, with on_ollama_chunk behind it.
Chunked(p, line) ==
  LET q == IF line.thought = "" THEN p ELSE Think(p, line.thought)
  IN IF line.text = "" THEN q ELSE Say(CloseThinking(q), line.text)
\* Mutant of Collected: a line's calls take the place of those before it.
CollectedOver(p, line) == [p EXCEPT !.calls = SelectSeq(line.calls, LAMBDA c : c.name # "")]
\* parse_stream_tool_calls: no call without a name, and no id.
Collected(p, line) == [p EXCEPT !.calls = @ \o SelectSeq(line.calls, LAMBDA c : c.name # "")]
Line(p, line) == Collected(Chunked(p, line), line)
\* The lines whose end has come are read, what is left waits at the front.
WholeLine(i) == i < Len(talk.lines) \/ talk.ended
Bytes ==
  /\ talk.status = "streaming"
  /\ \E n \in Bursts, part \in BOOLEAN :
       LET upto == talk.at + n
           last == IF part /\ upto < Len(talk.lines) THEN <<talk.lines[upto + 1]>> ELSE <<>>
           read == {i \in talk.at + 1 .. upto : WholeLine(i)}
           tail == {i \in talk.at + 1 .. upto : ~WholeLine(i)}
       IN /\ upto <= Len(talk.lines) /\ (n > 0 \/ last # <<>>)
          /\ collected' = [FoldLeft(LAMBDA p, i : IF i \in read THEN Line(p, talk.lines[i]) ELSE p, collected, [i \in DOMAIN talk.lines |-> i])
                       EXCEPT !.held = IF tail # {} THEN <<talk.lines[Len(talk.lines)]>> ELSE last]
          /\ talk' = [talk EXCEPT !.at = upto]
\* The transfer is over: what is held is parsed when it is whole, its text is
\* forwarded, its calls are not looked at.
OllamaDone ==
  /\ talk.status = "streaming" /\ talk' = [talk EXCEPT !.status = "ok"]
  /\ collected' = IF collected.held # <<>> /\ talk.at = Len(talk.lines) THEN Chunked(collected, collected.held[1]) ELSE collected
OllamaFails == talk.status = "streaming" /\ talk' = [talk EXCEPT !.status = "failed"] /\ UNCHANGED collected
OllamaNext == Bytes \/ OllamaDone \/ OllamaFails

\* ollama_parse_response, of the answer in one piece: calls have ids of their own.
OneLine(lines) ==
  LET thought == SelectSeq(Each(lines, LAMBDA l : l.thought), LAMBDA x : x # "")
      text == SelectSeq(Each(lines, LAMBDA l : l.text), LAMBDA x : x # "")
  IN [content |-> (IF thought = <<>> THEN <<>> ELSE <<"<think>">> \o thought \o <<"</think>">>) \o text,
      calls |-> Flat(Each(lines, LAMBDA l : l.calls))]

\* However the bytes are cut, the caller hears every piece of the lines that came,
\* once and in order, thinking between tags, and the calls of the lines that
\* ended are all there.
EveryLineOnce ==
  talk.status = "ok" =>
    LET came == SubSeq(talk.lines, 1, talk.at)
        ended == IF talk.at > 0 /\ ~WholeLine(talk.at) THEN Front(came) ELSE came
        said == Inside(collected.content)
    IN /\ collected.heard = collected.content /\ said.ok
       /\ said.text = SelectSeq(Each(came, LAMBDA l : l.text), LAMBDA x : x # "")
       /\ said.thought = SelectSeq(Each(came, LAMBDA l : l.thought), LAMBDA x : x # "")
       /\ collected.calls = SelectSeq(Flat(Each(ended, LAMBDA l : l.calls)), LAMBDA c : c.name # "")
\* Claim (ollama.c:295, "the final JSON line is still sitting in the buffer:
\* parse it here to deliver the last chunk and tool calls").
LastLineCounts ==
  talk.status = "ok" /\ talk.at = Len(talk.lines) =>
    collected.calls = SelectSeq(OneLine(talk.lines).calls, LAMBDA c : c.name # "")
\* Claim (tui_stream.h:2, "the stream layers
\* emit explicit ... deltas"): what is opened is closed.
ThinkingCloses == talk.status = "ok" => ~Inside(collected.content).in
=============================================================================
