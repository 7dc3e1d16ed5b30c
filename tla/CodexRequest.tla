---------------------------- MODULE CodexRequest ----------------------------
(***************************************************************************)
(* The request that src/llm/openai_request.c makes of a conversation, and the     *)
(* conversations it is given: those the runs of src/agent leave behind with each  *)
(* provider.                                                                *)
(*                                                                         *)
(* A message is [role, content, calls, answers, state]: content is "none", "" or  *)
(* "text", calls are names of calls (NULL and "" are both NoId), answers the call    *)
(* that a tool's message answers, state the reasoning items kept for Codex.  Left  *)
(* out: sizes, the wording of what is converted, memory that runs out.          *)
(***************************************************************************)
EXTENDS Integers, Sequences, SequencesExt, FiniteSets

CONSTANTS Backends,   \* the providers a conversation may meet
          ToolSets,   \* the tools of a request: sequences of [name, fits]
          MaxHistory, MaxCallsEach  \* bounds
ASSUME RequestAssumption == {MaxHistory, MaxCallsEach} \subseteq Nat

VARIABLES
  history,
  waiting,   \* the calls of the last response that have no answer yet
  asks,      \* what comes next: "user", "model" or "tools"
  backends,  \* the providers met so far (not in the code)
  fresh,     \* the next unused name of a call (not in the code)
  counter,   \* call_seq of ollama.c, from 1 in each process
  converted    \* the last one: [history, tools, body]
requests == <<history, waiting, asks, backends, fresh, counter, converted>>

NoId == <<>>
Msg(role, content) == [role |-> role, content |-> content, calls |-> <<>>, answers |-> NoId, state |-> <<>>]
Refused == [input |-> <<>>, instructions |-> 0, tools |-> <<>>, ok |-> FALSE]

\* ---- one message ----
\* prior_function_call_exists
CalledBefore(h, before, id) == \E i \in 1 .. before - 1 : id \in ToSet(h[i].calls)
\* function_call_id_seen
Seen(h, i, k, id) == CalledBefore(h, i, id) \/ \E j \in 1 .. k - 1 : h[i].calls[j] = id
\* prior_tool_output_exists
Answered(h, before, id) == \E i \in 1 .. before - 1 : h[i].role = "tool" /\ h[i].answers = id
\* add_tool_output
OutputFits(h, i) ==
  /\ h[i].answers # NoId /\ h[i].content # "none" /\ h[i].calls = <<>>
  /\ CalledBefore(h, i, h[i].answers) /\ ~Answered(h, i, h[i].answers)
\* Of a user's and an assistant's message (add_function_call_input).
SpeechFits(h, i) ==
  /\ h[i].role = "user" => h[i].calls = <<>>
  /\ h[i].content = "none" => h[i].calls # <<>>
  /\ \A k \in DOMAIN h[i].calls : h[i].calls[k] # NoId /\ ~Seen(h, i, k, h[i].calls[k])
\* Mutant of Speech: the reasoning comes behind the message it led to.
SpeechLate(m, i) ==
  (IF m.content = "text" \/ (m.content = "" /\ m.calls = <<>>) THEN <<[item |-> "message", of |-> i, id |-> NoId]>> ELSE <<>>)
  \o [k \in DOMAIN m.calls |-> [item |-> "call", of |-> i, id |-> m.calls[k]]]
  \o (IF m.role = "assistant" THEN [k \in DOMAIN m.state |-> [item |-> "reasoning", of |-> i, id |-> m.state[k]]] ELSE <<>>)
\* Reasoning first, then the text unless calls make it needless, then the calls.
Speech(m, i) ==
  (IF m.role = "assistant" THEN [k \in DOMAIN m.state |-> [item |-> "reasoning", of |-> i, id |-> m.state[k]]] ELSE <<>>)
  \o (IF m.content = "text" \/ (m.content = "" /\ m.calls = <<>>) THEN <<[item |-> "message", of |-> i, id |-> NoId]>> ELSE <<>>)
  \o [k \in DOMAIN m.calls |-> [item |-> "call", of |-> i, id |-> m.calls[k]]]

\* ---- the request ----
FitsAt(h, i) == CASE h[i].role = "system" -> h[i].content # "none" /\ h[i].calls = <<>>
                [] h[i].role = "tool" -> OutputFits(h, i)
                [] OTHER -> SpeechFits(h, i)
\* add_input_messages: what the system says becomes the instructions.
Items(h, i) == CASE h[i].role = "system" -> <<>>
                 [] h[i].role = "tool" -> <<[item |-> "output", of |-> i, id |-> h[i].answers]>>
                 [] OTHER -> Speech(h[i], i)
Input(h) == LET upTo[n \in 0 .. Len(h)] == IF n = 0 THEN <<>> ELSE upTo[n - 1] \o Items(h, n) IN upTo[Len(h)]
\* convert_tools: one that does not fit spoils the request, none leaves them out.
ToolNames(tools) == [k \in DOMAIN tools |-> tools[k].name]
Body(h, tools) ==
  IF Input(h) = <<>> \/ (\E i \in DOMAIN h : ~FitsAt(h, i)) \/ (\E k \in DOMAIN tools : ~tools[k].fits) THEN Refused
  ELSE [input |-> Input(h), instructions |-> Cardinality({i \in DOMAIN h : h[i].role = "system"}), tools |-> ToolNames(tools), ok |-> TRUE]

\* ---- the conversations ----
RequestInit ==
  /\ history = <<Msg("system", "text")>> /\ waiting = <<>> /\ asks = "user" /\ backends = {}
  /\ fresh = 1 /\ counter = 1 /\ converted = [history |-> <<>>, tools |-> <<>>, body |-> Refused]
Room == Len(history) < MaxHistory
UserSpeaks ==
  /\ asks = "user" /\ Room /\ history' = Append(history, Msg("user", "text")) /\ asks' = "model"
  /\ UNCHANGED <<waiting, backends, fresh, counter, converted>>
Id(n) == <<"call", n>>
NumberedId(m) == <<"numbered", m>>
\* What a response brings: Codex and streams of compatible servers always have
\* content, streams of Ollama name no calls, its buffered replies number them.
Contents(b) == IF b \in {"codex", "compat"} THEN {"", "text"} ELSE {"none", "", "text"}
Names(b, n) == [k \in 1 .. n |-> CASE b = "ollama" -> NoId [] b = "ollama buffered" -> NumberedId(counter + k - 1) [] OTHER -> Id(fresh + k - 1)]
\* perform_stream and agent_llm_call: a response without content leaves no
\* message, its calls are made all the same.
ModelSpeaks ==
  /\ asks = "model" /\ Room
  /\ \E b \in Backends, tools \in ToolSets, n \in 0 .. MaxCallsEach :
       LET body == Body(history, tools)
       IN /\ backends' = backends \cup {b}
          /\ converted' = IF b = "codex" THEN [history |-> history, tools |-> tools, body |-> body] ELSE converted
          /\ IF b = "codex" /\ ~body.ok THEN asks' = "user" /\ UNCHANGED <<history, waiting, fresh, counter>>
             ELSE \E content \in Contents(b) :
                    /\ content = "none" => n > 0
                    /\ history' = IF content = "none" THEN history
                                  ELSE Append(history, [Msg("assistant", content) EXCEPT !.calls = Names(b, n), !.state = IF b = "codex" THEN <<"r">> ELSE <<>>])
                    /\ waiting' = Names(b, n) /\ asks' = IF n = 0 THEN "user" ELSE "tools"
                    /\ fresh' = fresh + n /\ counter' = IF b = "ollama buffered" THEN counter + n ELSE counter
\* The model is not reached; the question stays.
ModelFails == asks = "model" /\ asks' = "user" /\ UNCHANGED <<history, waiting, backends, fresh, counter, converted>>
ToolsRun ==
  /\ asks = "tools" /\ asks' = "model" /\ waiting' = <<>>
  /\ history' = history \o [k \in DOMAIN waiting |-> [Msg("tool", "text") EXCEPT !.answers = waiting[k]]]
  /\ UNCHANGED <<backends, fresh, counter, converted>>
\* The program is started again with the stored conversation.
Restart == /\ asks = "user" /\ backends # {} /\ counter' = 1
           /\ UNCHANGED <<history, waiting, asks, backends, fresh, converted>>
RequestNext == UserSpeaks \/ ModelSpeaks \/ ModelFails \/ ToolsRun \/ Restart

(***************************************************************************)
(* Properties and claims.                                                   *)
(***************************************************************************)
\* A conversation with Codex, or with streams of compatible servers, goes on with
\* Codex: the request is made, every message is in it in order, each call once,
\* its output behind it, and reasoning before what it led to.
HistoryGoesOn ==
  LET h == converted.history
      input == converted.body.input
  IN (h # <<>> /\ backends \subseteq {"codex", "compat"} /\ \A k \in DOMAIN converted.tools : converted.tools[k].fits) =>
       /\ converted.body.ok
       /\ \A i, j \in DOMAIN input : i < j => input[i].of <= input[j].of
       /\ \A i \in DOMAIN h : h[i].role # "system" => \E j \in DOMAIN input : input[j].of = i
       /\ \A i, j \in DOMAIN input : /\ input[i].item = "call" /\ input[j].item = "call" /\ input[i].id = input[j].id => i = j
                                     /\ input[i].item = "reasoning" /\ input[j].of = input[i].of /\ input[j].item # "reasoning" => i < j
       /\ \A j \in DOMAIN input : input[j].item = "output" => \E i \in 1 .. j - 1 : input[i].item = "call" /\ input[i].id = input[j].id
\* Claim (llm/README.md:8, "the agent loop never needs to know which backend it is
\* talking to"): the same whatever the conversation has met.
AnyHistoryGoesOn == converted.history # <<>> /\ (\A k \in DOMAIN converted.tools : converted.tools[k].fits) => converted.body.ok
=============================================================================
