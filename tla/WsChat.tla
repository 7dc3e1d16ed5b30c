------------------------------- MODULE WsChat -------------------------------
(***************************************************************************)
(* The WebSocket chat of the server (src/server/routes/routes_ws*.c) and   *)
(* the agent runs it starts (src/agent/agent_run.c, agent_tools.c).        *)
(*                                                                         *)
(* There is one thread.  A run started by a frame blocks it, except while  *)
(* the run waits for an approval or an answer of the user: then            *)
(* ws_approval_cb and ws_ask_user_cb run the event loop themselves, and    *)
(* whatever arrives is handled inside the wait: frames that start runs of  *)
(* the same connection or of another one, answers, closes, a logout.  Runs *)
(* so form a stack, and only its top makes progress.                       *)
(*                                                                         *)
(* The contents of messages and the session are left out: see the README.  *)
(***************************************************************************)
EXTENDS Integers, Sequences

CONSTANTS Conns,           \* connections
          MaxIterations,   \* max_iterations of an agent run
          MaxCalls,        \* bound: tool calls in one response
          MaxRequests,     \* bound: approval requests
          MaxDepth,        \* bound: runs on the stack
          MaxGeneration    \* bound: logouts and unlocks

ASSUME BoundsAssumption ==
  /\ MaxIterations \in Nat /\ MaxCalls \in Nat /\ MaxRequests \in Nat
  /\ MaxDepth \in Nat /\ MaxGeneration \in Nat

VARIABLES
  stack,        \* the running agent runs, innermost last
  ctx,          \* WSChatCtx of each connection, with its agent
  unlocked,     \* ServerContext.state = STATE_UNLOCKED
  generation,   \* ServerContext.auth_generation
  lastId,       \* approval_counter
  crashed,      \* a freed context was used
  approved,     \* history: the requests that a user approved
  ran,          \* history: connection and request of the tools that ran
  overlapped    \* history: connections with a run started inside a run

vars == <<stack, ctx, unlocked, generation, lastId, crashed, approved, ran, overlapped>>

Requests == 1 .. MaxRequests

\* A run: waiting for the model, going through the tool calls of a response,
\* or waiting for the user.
Frame == [conn  : Conns,
          step  : {"llm", "tools", "approval", "ask"},
          id    : Requests \cup {0},
          calls : 0 .. MaxCalls,
          iter  : 0 .. MaxIterations]

Context == [life     : {"none", "live", "freed"},
            open     : BOOLEAN,           \* c->ws
            closing  : BOOLEAN,
            runs     : Nat,               \* active_runs
            pending  : Requests \cup {0}, \* pending_request_id
            done     : BOOLEAN,           \* approval_done
            result   : BOOLEAN,           \* approval_result
            cancel   : BOOLEAN,           \* agent->cancel_requested
            gen      : 0 .. MaxGeneration]

TypeOK ==
  /\ stack \in Seq(Frame)
  /\ ctx \in [Conns -> Context]
  /\ unlocked \in BOOLEAN /\ generation \in 0 .. MaxGeneration
  /\ lastId \in Requests \cup {0}
  /\ crashed \in BOOLEAN
  /\ approved \in SUBSET Requests
  /\ ran \in SUBSET (Conns \X Requests)
  /\ overlapped \in [Conns -> BOOLEAN]

NoContext == [life |-> "none", open |-> FALSE, closing |-> FALSE, runs |-> 0,
              pending |-> 0, done |-> FALSE, result |-> FALSE,
              cancel |-> FALSE, gen |-> 0]

Init ==
  /\ stack = <<>> /\ ctx = [c \in Conns |-> NoContext]
  /\ unlocked = TRUE /\ generation = 0 /\ lastId = 0 /\ crashed = FALSE
  /\ approved = {} /\ ran = {} /\ overlapped = [c \in Conns |-> FALSE]

Top == stack[Len(stack)]
Idle == stack = <<>>
TopAlive == ~crashed /\ ~Idle /\ ctx[Top.conn].life # "freed"

\* The event loop runs at the bottom of the stack or in a wait of the top.
LoopRuns == ~crashed /\ (Idle \/ (TopAlive /\ Top.step \in {"approval", "ask"}))

\* ws_chat_on_message takes frames of the present generation only.
Valid(c) == unlocked /\ ctx[c].gen = generation
Hears(c) == LoopRuns /\ ctx[c].open /\ Valid(c)

-----------------------------------------------------------------------------
(* What arrives on the loop                                                *)

\* An upgraded connection: routes_ws_chat_init.  The queue it flushes at the
\* end is empty, no frame was read before.
Connect(c) ==
  /\ LoopRuns /\ unlocked /\ ctx[c].life = "none"
  /\ ctx' = [ctx EXCEPT ![c].life = "live", ![c].open = TRUE, ![c].gen = generation]
  /\ UNCHANGED <<stack, unlocked, generation, lastId, crashed, approved, ran, overlapped>>

\* A "message", "edit" or "regenerate" frame.
StartRun(c) ==
  /\ Hears(c) /\ Len(stack) < MaxDepth
  /\ ctx' = [ctx EXCEPT ![c].runs = @ + 1, ![c].cancel = FALSE]
  /\ stack' = Append(stack, [conn |-> c, step |-> "llm", id |-> 0, calls |-> 0, iter |-> 0])
  /\ overlapped' = [overlapped EXCEPT ![c] = @ \/ ctx[c].runs > 0]
  /\ UNCHANGED <<unlocked, generation, lastId, crashed, approved, ran>>

\* Mutant of Respond: any answer counts, a late one to an earlier request too.
AnyAnswerCounts(c, id, ok) ==
  /\ Hears(c) /\ id <= ctx[c].pending
  /\ ctx' = [ctx EXCEPT ![c].result = ok, ![c].done = TRUE]
  /\ approved' = IF ok THEN approved \cup {id} ELSE approved
  /\ UNCHANGED <<stack, unlocked, generation, lastId, crashed, ran, overlapped>>

\* An "approval_response" frame counts for the pending request only.
Respond(c, id, ok) ==
  /\ Hears(c) /\ id = ctx[c].pending
  /\ ctx' = [ctx EXCEPT ![c].result = ok, ![c].done = TRUE]
  /\ approved' = IF ok THEN approved \cup {id} ELSE approved
  /\ UNCHANGED <<stack, unlocked, generation, lastId, crashed, ran, overlapped>>

\* A "stop" frame.
Stop(c) ==
  /\ Hears(c)
  /\ ctx' = [ctx EXCEPT ![c].cancel = TRUE, ![c].done = TRUE]
  /\ UNCHANGED <<stack, unlocked, generation, lastId, crashed, approved, ran, overlapped>>

\* Mutants of Close: the context goes at once; the run of the connection is
\* taken for ended.
CloseDestroys(c) ==
  /\ LoopRuns /\ ctx[c].open
  /\ ctx' = [ctx EXCEPT ![c].closing = TRUE, ![c].open = FALSE, ![c].life = "freed"]
  /\ UNCHANGED <<stack, unlocked, generation, lastId, crashed, approved, ran, overlapped>>

CloseDropsRun(c) ==
  /\ LoopRuns /\ ctx[c].open
  /\ ctx' = [ctx EXCEPT ![c].closing = TRUE, ![c].open = FALSE, ![c].cancel = TRUE,
                        ![c].runs = IF @ = 0 THEN 0 ELSE @ - 1]
  /\ UNCHANGED <<stack, unlocked, generation, lastId, crashed, approved, ran, overlapped>>

\* ws_chat_on_close.
Close(c) ==
  /\ LoopRuns /\ ctx[c].open
  /\ ctx' = [ctx EXCEPT ![c].closing = TRUE, ![c].open = FALSE,
                        ![c].done = TRUE, ![c].result = FALSE,
                        ![c].cancel = TRUE,
                        ![c].life = IF ctx[c].runs = 0 THEN "freed" ELSE "live"]
  /\ UNCHANGED <<stack, unlocked, generation, lastId, crashed, approved, ran, overlapped>>

\* Mutant of Logout: an answer that was given but not yet read stands.
LogoutKeepsAnswer ==
  /\ LoopRuns /\ unlocked /\ generation < MaxGeneration
  /\ ctx' = [c \in Conns |->
               IF ctx[c].life # "live" THEN ctx[c]
               ELSE [ctx[c] EXCEPT !.cancel = TRUE, !.done = TRUE]]
  /\ unlocked' = FALSE /\ generation' = generation + 1
  /\ UNCHANGED <<stack, lastId, crashed, approved, ran, overlapped>>

\* handle_logout, with routes_ws_invalidate_auth over all contexts.
Logout ==
  /\ LoopRuns /\ unlocked /\ generation < MaxGeneration
  /\ ctx' = [c \in Conns |->
               IF ctx[c].life # "live" THEN ctx[c]
               ELSE [ctx[c] EXCEPT !.cancel = TRUE, !.done = TRUE, !.result = FALSE]]
  /\ unlocked' = FALSE /\ generation' = generation + 1
  /\ UNCHANGED <<stack, lastId, crashed, approved, ran, overlapped>>

\* handle_unlock of a locked server.
Unlock ==
  /\ LoopRuns /\ ~unlocked /\ generation < MaxGeneration
  /\ unlocked' = TRUE /\ generation' = generation + 1
  /\ UNCHANGED <<stack, ctx, lastId, crashed, approved, ran, overlapped>>

-----------------------------------------------------------------------------
(* The innermost run                                                       *)

Cancelled(f) == ctx[f.conn].cancel \/ f.iter = MaxIterations

\* Mutant of EndRun: the caller leaves the freeing to the close callback.
EndRunKeepsContext ==
  /\ stack' = SubSeq(stack, 1, Len(stack) - 1)
  /\ ctx' = [ctx EXCEPT ![Top.conn].runs = @ - 1]
  /\ UNCHANGED <<unlocked, generation, lastId, crashed, approved, ran, overlapped>>

\* The run ends: its caller in routes_ws drops active_runs and destroys the
\* context of a connection that was closed meanwhile.
EndRun ==
  LET c == Top.conn
  IN  /\ stack' = SubSeq(stack, 1, Len(stack) - 1)
      /\ ctx' = [ctx EXCEPT ![c].runs = @ - 1,
                            ![c].life = IF ctx[c].closing THEN "freed" ELSE @]
      /\ UNCHANGED <<unlocked, generation, lastId, crashed, approved, ran, overlapped>>

GoOn(f) ==
  /\ stack' = [stack EXCEPT ![Len(stack)] = f]
  /\ UNCHANGED <<unlocked, generation, crashed, approved, overlapped>>

\* agent_run_loop stops before a call when cancelled or out of iterations.
GiveUp == TopAlive /\ Top.step = "llm" /\ Cancelled(Top) /\ EndRun

\* The model fails, or answers without tool calls.
LastResponse == TopAlive /\ Top.step = "llm" /\ ~Cancelled(Top) /\ EndRun

\* It answers with some tool calls.
CallTools ==
  /\ TopAlive /\ Top.step = "llm" /\ ~Cancelled(Top)
  /\ \E n \in 1 .. MaxCalls :
       GoOn([Top EXCEPT !.step = "tools", !.calls = n, !.iter = @ + 1])
  /\ UNCHANGED <<ctx, lastId, ran>>

\* execute_tool_calls went through all of them.
ToolsDone ==
  /\ TopAlive /\ Top.step = "tools" /\ Top.calls = 0
  /\ GoOn([Top EXCEPT !.step = "llm"])
  /\ UNCHANGED <<ctx, lastId, ran>>

InTools == TopAlive /\ Top.step = "tools" /\ Top.calls > 0

NextCall(f) == [f EXCEPT !.step = "tools", !.id = 0, !.calls = @ - 1]

\* A call of an unknown tool, of one that needs no approval, or any call for
\* a user that is gone: ws_approval_cb and ws_ask_user_cb return at once.
SimpleCall ==
  /\ InTools
  /\ GoOn(NextCall(Top))
  /\ UNCHANGED <<ctx, lastId, ran>>

\* ws_approval_cb up to its loop: a new request replaces the pending one.
RequestApproval ==
  /\ InTools /\ ctx[Top.conn].open /\ lastId < MaxRequests
  /\ lastId' = lastId + 1
  /\ ctx' = [ctx EXCEPT ![Top.conn].pending = lastId',
                        ![Top.conn].done = FALSE, ![Top.conn].result = FALSE]
  /\ GoOn([Top EXCEPT !.step = "approval", !.id = lastId'])
  /\ UNCHANGED ran

\* The rest of it: the tool runs if the flag says approved.
EndApproval ==
  /\ TopAlive /\ Top.step = "approval"
  /\ ctx[Top.conn].done \/ ~ctx[Top.conn].open
  /\ ran' = IF ctx[Top.conn].result THEN ran \cup {<<Top.conn, Top.id>>} ELSE ran
  /\ GoOn(NextCall(Top))
  /\ UNCHANGED <<ctx, lastId>>

\* ws_ask_user_cb.  Its flag is left out: the wait may end at any time, by an
\* answer, a stop, a close, a logout or its deadline, and what the user
\* answers is data.
AskUser ==
  /\ InTools /\ ctx[Top.conn].open
  /\ GoOn([Top EXCEPT !.step = "ask"])
  /\ UNCHANGED <<ctx, lastId, ran>>

EndAsk ==
  /\ TopAlive /\ Top.step = "ask"
  /\ GoOn(NextCall(Top))
  /\ UNCHANGED <<ctx, lastId, ran>>

\* The outer run goes on with a context that an inner one destroyed.
UseAfterFree ==
  /\ ~crashed /\ ~Idle /\ ctx[Top.conn].life = "freed"
  /\ crashed' = TRUE
  /\ UNCHANGED <<stack, ctx, unlocked, generation, lastId, approved, ran, overlapped>>

Run ==
  \/ GiveUp \/ LastResponse \/ CallTools \/ ToolsDone \/ SimpleCall
  \/ RequestApproval \/ EndApproval \/ AskUser \/ EndAsk \/ UseAfterFree

Client(c) ==
  \/ Connect(c) \/ StartRun(c) \/ Stop(c) \/ Close(c)
  \/ \E id \in Requests, ok \in BOOLEAN : Respond(c, id, ok)

Next == Run \/ (\E c \in Conns : Client(c)) \/ Logout \/ Unlock

Spec == Init /\ [][Next]_vars

\* The thread runs: calls of the model and of tools return, questions time out.
FairSpec == Spec /\ WF_vars(Run)

-----------------------------------------------------------------------------
(* Properties                                                              *)

\* A tool that needs approval runs only after the user approved that very
\* request, on a connection that never had a run started inside a run.
OwnApproval ==
  \A r \in ran : r[2] \in approved \/ overlapped[r[1]]

\* The context of a connection outlives the runs that use it, under the same
\* condition; a close while a run waits leaves the freeing to the run.
ContextOutlivesRuns ==
  /\ \A i \in 1 .. Len(stack) :
       ctx[stack[i].conn].life = "live" \/ overlapped[stack[i].conn]
  /\ \A c \in Conns : (ctx[c].life = "live" /\ ctx[c].closing) => ctx[c].runs > 0

\* Nothing is done for a user who is gone or logged out: no call of the
\* model begins and no approved tool runs, whatever was pending or nested.
ExpiredDoesNothing ==
  [][\A c \in Conns :
       (~ctx[c].open \/ ~Valid(c)) =>
         /\ \A id \in Requests : <<c, id>> \in ran' => <<c, id>> \in ran
         /\ ~(CallTools /\ Top.conn = c)]_vars

\* When all users are gone the runs end and all contexts are freed, also
\* those that waited for an approval.
AllGone == \A c \in Conns : ctx[c].life = "live" => ctx[c].closing
Drains ==
  AllGone ~> (crashed \/ ~AllGone \/ \A c \in Conns : ctx[c].life # "live")

-----------------------------------------------------------------------------
(* Claims that the code does not keep; see the README.                     *)

\* src/server/README.md: "websocket frames are serialized per connection by
\* the loop"; src/safety/README.md: "no approval bypass".
NoApprovalBypass == \A r \in ran : r[2] \in approved

\* routes_ws.h: a logout "cancels the active agent run [...] and unblocks
\* pending approval/ask_user prompts".
LogoutEndsRuns ==
  \A c \in Conns :
    (ctx[c].life = "live" /\ ~Valid(c)) ~>
      (crashed \/ \A i \in 1 .. Len(stack) : stack[i].conn # c)
=============================================================================
