------------------------------ MODULE AgentCall ------------------------------
(***************************************************************************)
(* The messages of a run and the calls of the model: agent_run_new,             *)
(* agent_llm_call and the streaming loop of src/agent/agent_run.c, the context   *)
(* window of src/agent/context.c and the breaker of src/utils/circuit_breaker.c. *)
(*                                                                         *)
(* A message is [role, turn, chars, calls].  Left out: what is said, metrics,    *)
(* the stored session, memory that runs out; how the tools run is in Approvals.  *)
(***************************************************************************)
EXTENDS Integers, Sequences, SequencesExt, FiniteSets, FiniteSetsExt

CONSTANTS MaxMessages, MaxChars,  \* agent.max_context_messages and _chars
          MaxIterations, Threshold, Cooldown,
          Sizes,             \* lengths of contents
          MaxTurns, MaxToolCalls, MaxClock  \* bounds
ASSUME CallAssumption ==
  /\ {MaxMessages, MaxIterations, Threshold, Cooldown} \subseteq Nat \ {0}
  /\ {MaxChars, MaxTurns, MaxToolCalls, MaxClock} \subseteq Nat /\ Sizes \subseteq Nat

VARIABLES
  messages, streaming,
  run,       \* where the run is: "idle", "loop", "tools", "done", "lost"
  iter, turn,
  pending,   \* the calls of tools that the last response asks for
  breaker,   \* [state, failures, opened]
  clock,
  summary,   \* the summary has something in it
  shown,     \* the turn whose tool calls the last response shows, 0 for none
  window,    \* the messages before and after the last cut (not in the code)
  trials     \* the calls of the model: [at, failed] (not in the code)
call == <<messages, streaming, run, iter, turn, pending, breaker, clock, summary, shown, window, trials>>

M(role, t, chars, calls) == [role |-> role, turn |-> t, chars |-> chars, calls |-> calls]
NoWindow == [from |-> <<>>, to |-> <<>>]
CallInit ==
  /\ messages = <<>> /\ streaming \in BOOLEAN /\ run = "idle" /\ iter = 0 /\ turn = 0 /\ pending = 0
  /\ breaker = [state |-> "closed", failures |-> 0, opened |-> 0] /\ clock = 0
  /\ summary = FALSE /\ shown = 0 /\ window = NoWindow /\ trials = <<>>

\* ---- the window ----
Is(msgs, i, role) == i \in DOMAIN msgs /\ msgs[i].role = role
Indices(msgs) == [i \in DOMAIN msgs |-> i]
Cap(n, m) == IF n < m THEN n ELSE m
Group(msgs, i) ==
  CASE Is(msgs, i, "system") -> 1
    [] Is(msgs, i, "tool") -> 2
    [] OTHER -> IF i > Len(msgs) - (IF MaxMessages * 2 < 5 THEN 1 ELSE (MaxMessages * 2) \div 5) THEN 3 ELSE 4
\* score_cmp: by group, the later message first.
Order(msgs) ==
  SortSeq(Indices(msgs), LAMBDA i, j : Group(msgs, i) < Group(msgs, j) \/ (Group(msgs, i) = Group(msgs, j) /\ i > j))
\* A tool's message takes the assistant's before it along, and both count: an
\* assistant's that comes up again counts twice.
Picked(msgs) ==
  FoldLeft(LAMBDA acc, i :
    IF acc.n >= MaxMessages THEN acc
    ELSE LET pair == IF Is(msgs, i, "tool") /\ Is(msgs, i - 1, "assistant") THEN {i - 1} \ acc.set ELSE {}
         IN [set |-> acc.set \cup {i} \cup pair, n |-> acc.n + 1 + Cardinality(pair)],
    [set |-> {}, n |-> 0], Order(msgs)).set
\* Mutant of Paired: only a call brings what it brought, not the other way round.
PairedAhead(msgs, kept) ==
  FoldLeft(LAMBDA set, i : IF i > 1 /\ i \in set /\ Is(msgs, i, "assistant") /\ Is(msgs, i + 1, "tool") THEN set \cup {i + 1} ELSE set,
    kept, Indices(msgs))
\* In one pass from the front: a tool's message brings the assistant's before it,
\* which brings only a tool's message that is still ahead.
Paired(msgs, kept) ==
  FoldLeft(LAMBDA set, i :
    LET with == IF i > 1 /\ i \in set /\ Is(msgs, i, "tool") /\ Is(msgs, i - 1, "assistant") THEN set \cup {i - 1} ELSE set
    IN IF i > 1 /\ i \in with /\ Is(msgs, i, "assistant") /\ Is(msgs, i + 1, "tool") THEN with \cup {i + 1} ELSE with,
    kept, Indices(msgs))
At(msgs, kept) == FoldLeft(LAMBDA seq, i : IF i \in kept THEN Append(seq, msgs[i]) ELSE seq, <<>>, Indices(msgs))
Selected(msgs) ==
  IF Len(msgs) <= MaxMessages THEN msgs
  ELSE LET all == At(msgs, Paired(msgs, Picked(msgs))) IN SubSeq(all, 1, Cap(Len(all), MaxMessages))
Tokens(m) == m.chars \div 4 + 1
Sum(S, cost(_)) == FoldSet(LAMBDA i, t : cost(i) + t, 0, S)
\* The system's messages, and the newest ones up to the first that is too big.
Trimmed(msgs, budget) ==
  LET others == {i \in DOMAIN msgs : ~Is(msgs, i, "system")}
      cost(i) == Tokens(msgs[i])
      fits == {i \in others : Sum({j \in others : j >= i}, cost) <= budget}
  IN IF Sum(DOMAIN msgs, cost) <= budget THEN msgs ELSE At(msgs, Paired(msgs, (DOMAIN msgs \ others) \cup fits))
Budget == IF MaxChars \div 4 < 1 THEN 1 ELSE MaxChars \div 4
Fits(msgs) == Len(msgs) <= MaxMessages /\ Sum(DOMAIN msgs, LAMBDA i : msgs[i].chars) <= MaxChars
\* The cut reads as many messages as it was asked to keep; what is read behind
\* the last one that was kept is undefined.
ReadsPast(msgs) == ~Fits(msgs) /\ Cap(Len(msgs), MaxMessages) > Len(Selected(msgs))
Window(msgs) == IF Fits(msgs) THEN msgs ELSE Trimmed(Selected(msgs), Budget)

\* ---- the breaker ----
Available == breaker.state # "open" \/ clock - breaker.opened >= Cooldown
\* Mutant of Recorded: one failure more than the threshold is borne.
RecordedLate(ok) ==
  IF ok THEN [breaker EXCEPT !.failures = 0, !.state = "closed"]
  ELSE [state |-> IF breaker.failures >= Threshold THEN "open" ELSE breaker.state, failures |-> breaker.failures + 1, opened |-> clock]
\* Of a call that was let through; half open lasts no longer than the call.
Recorded(ok) ==
  IF ok THEN [breaker EXCEPT !.failures = 0, !.state = "closed"]
  ELSE [state |-> IF breaker.failures + 1 >= Threshold THEN "open" ELSE breaker.state,
        failures |-> breaker.failures + 1,
        opened |-> IF breaker.failures + 1 >= Threshold THEN clock ELSE breaker.opened]

\* ---- a run ----
StartRun ==
  /\ run \in {"idle", "done"} /\ turn < MaxTurns
  /\ \E chars \in Sizes : messages' = Append(messages, M("user", turn + 1, chars, 0))
  /\ turn' = turn + 1 /\ run' = "loop" /\ iter' = 0 /\ shown' = 0
  /\ UNCHANGED <<streaming, pending, breaker, clock, summary, window, trials>>
\* Asked to stop, too many calls of the model, or an open breaker.
GiveUp ==
  /\ run = "loop" /\ run' = "done"
  /\ UNCHANGED <<messages, streaming, iter, turn, pending, breaker, clock, summary, shown, window, trials>>
\* inject_system_with_summary: in the first system message, or before all.
System(msgs) ==
  IF \E i \in DOMAIN msgs : msgs[i].role = "system" THEN msgs ELSE <<M("system", 0, 0, 0)>> \o msgs
\* Mutant of Attached: the turn's own message does not end the search.
AttachedAny(msgs) ==
  LET held == {i \in DOMAIN msgs : msgs[i].role = "assistant" /\ msgs[i].calls > 0}
  IN IF held = {} THEN 0 ELSE msgs[Max(held)].turn
\* attach_tool_calls_to_resp: the last calls behind the last user's message.
Attached(msgs) ==
  LET held == {i \in DOMAIN msgs : /\ msgs[i].role = "assistant" /\ msgs[i].calls > 0
                                   /\ \A j \in DOMAIN msgs : j > i => msgs[j].role # "user"}
  IN IF held = {} THEN 0 ELSE msgs[Max(held)].turn
\* Only agent_run_new cuts, and what is cut is gone from the agent too.  A
\* response without content leaves no message, its calls are made all the same.
CallModel ==
  /\ run = "loop" /\ iter < MaxIterations /\ Available
  /\ LET asked == System(messages)
         cut == ~streaming /\ ~Fits(asked)
         sent == IF cut THEN Window(asked) ELSE asked
     IN IF cut /\ ReadsPast(asked) THEN run' = "lost" /\ UNCHANGED <<messages, iter, pending, breaker, summary, shown, window, trials>>
        ELSE /\ window' = (IF cut THEN [from |-> asked, to |-> sent] ELSE window)
             /\ summary' \in (IF cut /\ Len(sent) < Len(asked) THEN {summary, TRUE} ELSE {summary})
             /\ iter' = iter + 1
             /\ \E ok \in BOOLEAN :
                  /\ trials' = Append(trials, [at |-> clock, failed |-> ~ok]) /\ breaker' = Recorded(ok)
                  /\ IF ~ok THEN messages' = sent /\ run' = "done" /\ UNCHANGED <<shown, pending>>
                     ELSE \E calls \in 0 .. MaxToolCalls, content \in BOOLEAN :
                            LET all == IF content THEN Append(sent, M("assistant", turn, 0, calls)) ELSE sent
                            IN /\ messages' = all /\ pending' = calls
                               /\ IF calls = 0 THEN run' = "done" /\ shown' = Attached(all) ELSE run' = "tools" /\ UNCHANGED shown
  /\ UNCHANGED <<streaming, turn, clock>>
\* One message for each call, whether it ran, was denied or is unknown.
RunTools ==
  /\ run = "tools"
  /\ \E chars \in Sizes :
       messages' = messages \o [k \in 1 .. pending |-> M("tool", turn, chars, 0)]
  /\ run' = "loop" /\ pending' = 0 /\ UNCHANGED <<streaming, iter, turn, breaker, clock, summary, shown, window, trials>>
Tick ==
  /\ clock < MaxClock /\ clock' = clock + 1
  /\ UNCHANGED <<messages, streaming, run, iter, turn, pending, breaker, summary, shown, window, trials>>
CallNext == StartRun \/ GiveUp \/ CallModel \/ RunTools \/ Tick

(***************************************************************************)
(* Properties and claims.                                                   *)
(***************************************************************************)
\* What the window leaves is in order, has the system's message, is no longer
\* than it may be and has no tool's message without the call right before it.
WindowSound ==
  LET from == window.from
      to == window.to
  IN window # NoWindow =>
       /\ Is(to, 1, "system") /\ Len(to) <= MaxMessages
       /\ \E kept \in SUBSET DOMAIN from :
            /\ to = At(from, kept)
            /\ \A i \in kept : Is(from, i, "tool") /\ Is(from, i - 1, "assistant") => i - 1 \in kept
\* After as many failures in a row as the breaker bears the model is called
\* again only when the breaker has cooled down.
BreakerHolds ==
  \A k \in DOMAIN trials :
    k > Threshold /\ (\A j \in k - Threshold .. k - 1 : trials[j].failed) => trials[k].at - trials[k - 1].at >= Cooldown
\* The response of a streaming run shows only the tool calls of its own turn.
ShownOfThisTurn == streaming => shown \in {0, turn}
\* Claim (agent_run.c:131, "tool_calls from previous turns are never attached to
\* a later response"): the same of every run.
NoOldCalls == shown \in {0, turn}
\* Claim (context.c:297, "keep at least ... the most recent user+assistant+tool
\* exchange"): the question that a call is about goes to the model.
QuestionSent == window # NoWindow => \E i \in DOMAIN window.to : window.to[i].role = "user" /\ window.to[i].turn = Max({window.from[k].turn : k \in DOMAIN window.from})
\* Claim (context.c:201, "ensure tool results aren't orphaned"): what a tool
\* brings stands behind the message that called it.
ToolsAnswerCalls ==
  \A i \in DOMAIN messages : messages[i].role = "tool" => \E k \in 1 .. i - 1 : messages[k].role = "assistant" /\ messages[k].calls > 0
                                                          /\ \A j \in k + 1 .. i : messages[j].role = "tool"
\* Claim (context.h:36, "on return the number kept"): the window reads no more
\* messages than were selected.
ReadsWhatItKept == run # "lost"
=============================================================================
