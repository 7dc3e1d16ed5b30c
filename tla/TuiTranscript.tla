--------------------------- MODULE TuiTranscript ---------------------------
(***************************************************************************)
(* The chat pane of the terminal UI (src/tui/tui_chat.c) against the          *)
(* messages of the agent.  The UI writes what the user types into the pane    *)
(* at once, in front of what the worker still has to say; the worker's        *)
(* events are drawn later (handle_event of tui.c); /edit, /regen and /fork    *)
(* name a message by its position in the pane, which the worker looks up in   *)
(* the agent's messages (fork_message_index of tui_worker.c).                *)
(*                                                                         *)
(* A text is the numbers of its pieces; a run's pieces are numbered in the    *)
(* order in which the model sends them.  Left out: the system messages, the   *)
(* blank lines that are trimmed, failing allocations, and what a store that   *)
(* refuses a fork says.                                                     *)
(***************************************************************************)
EXTENDS Integers, Sequences, FiniteSets, SequencesExt, FiniteSetsExt

CONSTANTS MaxTasks,   \* bound: jobs the user submits
          MaxPieces,  \* bound: pieces of text a run streams
          MaxCalls,   \* bound: tool calls of a run
          RingSize    \* of the ring of events, full of which the worker waits
ASSUME TranscriptAssumption ==
  MaxTasks \in Nat /\ MaxPieces \in Nat /\ MaxCalls \in Nat /\ RingSize \in Nat \ {0}

VARIABLES
  pane,     \* the blocks
  open,     \* streaming_open: the last block takes text
  news,     \* the ring of events
  tasks,    \* the ring of jobs
  task,     \* the job the worker is at, and the run's number: 0 when idle
  said,     \* pieces the run has streamed
  calling,  \* the call that goes on, 0 when none
  called,   \* calls so far
  messages, \* the agent's
  count,    \* jobs submitted
  strayed   \* a fork hit another message than the one named (not in the code)
transcript == <<pane, open, news, tasks, task, said, calling, called, messages, count, strayed>>
work == <<tasks, task, said, calling, called, messages, strayed>>

\* Of a block: its kind, the run whose text it holds, the pieces of the text, and
\* of a tool's block the call that opened it and the call whose result it shows.
Block(kind, run) == [kind |-> kind, run |-> run, text |-> <<>>, of |-> 0, result |-> 0]
ToolBlock(c) == [Block("tool", 0) EXCEPT !.of = c]
Speech == {"user", "assistant"}
Streamed == {"assistant", "think"}
News(kind, run, n) == [kind |-> kind, run |-> run, n |-> n]
\* A job: the position it names, the run it begins, the run of the block named.
Task(job, n, run, meant) == [job |-> job, n |-> n, run |-> run, meant |-> meant]
Idle == Task("none", 0, 0, 0)
Said(role, run) == [role |-> role, run |-> run]

TranscriptInit ==
  /\ pane = <<>> /\ open = FALSE /\ news = <<>> /\ tasks = <<>> /\ task = Idle
  /\ said = 0 /\ calling = 0 /\ called = 0 /\ messages = <<>> /\ count = 0 /\ strayed = FALSE

(***************************************************************************)
(* The worker.                                                              *)
(***************************************************************************)
Screen == UNCHANGED <<pane, open, count>>
Send(e) == Len(news) < RingSize /\ news' = Append(news, e)
Note == News("error", 0, 0)

TakeTask ==
  /\ task = Idle /\ tasks # <<>> /\ Head(tasks).job \in {"run", "shell"}
  /\ task' = Head(tasks) /\ tasks' = Tail(tasks) /\ said' = 0 /\ called' = 0
  /\ messages' = IF Head(tasks).job = "run" THEN Append(messages, Said("user", Head(tasks).run)) ELSE messages
  /\ UNCHANGED <<news, calling, strayed>> /\ Screen

\* A new agent has no message, and the pane is left as it is.
TakeNew ==
  /\ task = Idle /\ tasks # <<>> /\ Head(tasks).job = "new" /\ tasks' = Tail(tasks) /\ messages' = <<>>
  /\ UNCHANGED <<news, task, said, calling, called, strayed>> /\ Screen
\* A session, or another branch of it: its messages are the agent's, and the pane's.
Stored == <<Said("user", 0), Said("assistant", 0), Said("tool", 0), Said("assistant", 0)>>
TakeLoad ==
  /\ task = Idle /\ tasks # <<>> /\ Head(tasks).job = "load" /\ tasks' = Tail(tasks)
  /\ messages' = Stored /\ Send(News("history", 0, 0))
  /\ UNCHANGED <<task, said, calling, called, strayed>> /\ Screen

\* The message at a position among all the agent has, of the role asked for.
At(n, role) == n \in DOMAIN messages /\ messages[n].role = role
Wanted(job) == IF job = "edit" THEN "user" ELSE "assistant"
\* The fork is told before any chunk; an edit puts its text behind what is left.
TakeFork ==
  LET t == Head(tasks) IN
  /\ task = Idle /\ tasks # <<>> /\ t.job \in {"edit", "regen"} /\ tasks' = Tail(tasks)
  /\ IF At(t.n, Wanted(t.job))
     THEN /\ task' = t /\ Send(News(t.job, t.run, t.n))
          /\ messages' = SubSeq(messages, 1, t.n - 1) \o (IF t.job = "edit" THEN <<Said("user", t.run)>> ELSE <<>>)
          /\ strayed' = (strayed \/ messages[t.n].run # t.meant)
     ELSE Send(Note) /\ strayed' = TRUE /\ UNCHANGED <<task, messages>>
  /\ said' = 0 /\ called' = 0 /\ UNCHANGED calling /\ Screen

Running == task # Idle /\ task.job # "shell"
Stream ==
  /\ Running /\ calling = 0 /\ said < MaxPieces /\ said' = said + 1
  /\ \E kind \in Streamed : Send(News(kind, task.run, said + 1))
  /\ UNCHANGED <<tasks, task, calling, called, messages, strayed>> /\ Screen
Call == task.run * (MaxCalls + 1) + called
\* A response with a call: the message with the call, and the tool's answer
\* behind it.  A call that is refused starts no tool; the user's refusal is told.
CallTool ==
  /\ task # Idle /\ calling = 0 /\ called < MaxCalls /\ called' = called + 1
  /\ \/ /\ calling' = Call /\ Send(News("start", task.run, Call)) /\ UNCHANGED messages
     \/ /\ task.job # "shell" /\ calling' = 0
        /\ messages' = messages \o <<Said("assistant", task.run), Said("tool", task.run)>>
        /\ \/ Send(Note)
           \/ UNCHANGED news
  /\ UNCHANGED <<tasks, task, said, strayed>> /\ Screen
\* The result may be empty.
ToolReturns ==
  /\ calling # 0 /\ calling' = 0
  /\ \E end \in {"end", "end nothing"} : Send(News(end, task.run, calling))
  /\ messages' = IF task.job = "shell" THEN messages
                 ELSE messages \o <<Said("assistant", task.run), Said("tool", task.run)>>
  /\ UNCHANGED <<tasks, task, said, called, strayed>> /\ Screen
\* With a reply or without: cancelled, or failed.
RunDone ==
  /\ Running /\ calling = 0 /\ task' = Idle
  /\ \/ Send(News("done", task.run, 0)) /\ messages' = Append(messages, Said("assistant", task.run))
     \/ Send(News("failed", task.run, 0)) /\ UNCHANGED messages
  /\ UNCHANGED <<tasks, said, calling, called, strayed>> /\ Screen
ShellDone ==
  /\ task.job = "shell" /\ calling = 0 /\ called > 0 /\ task' = Idle
  /\ UNCHANGED <<news, tasks, said, calling, called, messages, strayed>> /\ Screen

(***************************************************************************)
(* The events as the UI draws them.                                         *)
(***************************************************************************)
Got(kinds) == news # <<>> /\ Head(news).kind \in kinds /\ news' = Tail(news) /\ UNCHANGED <<work, count>>
It == Head(news)

\* tui_chat_begin_stream unless the last block is of the kind, then
\* tui_chat_stream_append, which drops the text when that block is sealed.
DrawChunk ==
  /\ Got(Streamed)
  /\ LET fresh == pane = <<>> \/ Last(pane).kind # It.kind
         p == IF fresh THEN Append(pane, Block(It.kind, It.run)) ELSE pane
     IN /\ open' = (fresh \/ open)
        /\ pane' = IF open' THEN [p EXCEPT ![Len(p)].text = Append(@, <<It.run, It.n>>)] ELSE p
\* A tool's block opens without a word about the stream.
DrawStart == Got({"start"}) /\ pane' = Append(pane, [ToolBlock(It.n) EXCEPT !.run = It.run]) /\ UNCHANGED open
\* tui_chat_tool_finish_named: the last block that waits, else a new one; all
\* tools have one name.
Waiting == {i \in DOMAIN pane : pane[i].kind = "tool" /\ pane[i].result = 0}
\* Mutant of DrawEnd: the first block that waits.
DrawEndFirst ==
  /\ Got({"end", "end nothing"}) /\ UNCHANGED open
  /\ LET r == IF It.kind = "end" THEN It.n ELSE 0 IN
     pane' = IF Waiting = {} THEN Append(pane, [Block("tool", It.run) EXCEPT !.result = r])
             ELSE [pane EXCEPT ![Min(Waiting)].result = r]
DrawEnd ==
  /\ Got({"end", "end nothing"}) /\ UNCHANGED open
  /\ LET r == IF It.kind = "end" THEN It.n ELSE 0 IN
     pane' = IF Waiting = {} THEN Append(pane, [Block("tool", It.run) EXCEPT !.result = r])
             ELSE [pane EXCEPT ![Max(Waiting)].result = r]
\* Mutant of DrawDone: only a run that fails seals its block.
DrawDoneOpen ==
  /\ Got({"done", "failed", "error"}) /\ open' = (open /\ It.kind = "done")
  /\ pane' = IF It.kind = "done" THEN pane ELSE Append(pane, Block("error", 0))
\* The pane is cut in front of the message at the position, or emptied.
DrawDone ==
  /\ Got({"done", "failed", "error"}) /\ open' = FALSE
  /\ pane' = IF It.kind = "done" THEN pane ELSE Append(pane, Block("error", 0))
Speeches == {i \in DOMAIN pane : pane[i].kind \in Speech}
Position(i) == Cardinality({j \in Speeches : j <= i})
Cut(n) == LET there == {i \in Speeches : Position(i) = n} IN
          IF there = {} THEN <<>> ELSE SubSeq(pane, 1, Max(there) - 1)
DrawFork ==
  /\ Got({"edit", "regen"}) /\ open' = FALSE
  /\ pane' = Cut(It.n) \o (IF It.kind = "edit" THEN <<Block("user", It.run)>> ELSE <<>>)

\* rebuild_chat: a tool's message has no block, but the call in front of it has.
Rebuilt(ms) == FoldLeft(LAMBDA out, m : Append(out, Block(m.role, m.run)), <<>>, ms)
DrawHistory == Got({"history"}) /\ open' = FALSE /\ pane' = Rebuilt(Stored)

(***************************************************************************)
(* The user.  While a run goes on, what is no prompt is refused with a notice. *)
(***************************************************************************)
Busy == Running
Acts == count < MaxTasks /\ count' = count + 1 /\ UNCHANGED <<news, task, said, calling, called, messages, strayed>>
Shown(b) == pane' = Append(pane, b) /\ open' = FALSE
Prompt ==
  /\ Acts /\ Shown(Block("user", count + 1)) /\ tasks' = Append(tasks, Task("run", 0, count + 1, 0))
Shell ==
  /\ Acts /\ open' = FALSE
  /\ IF Busy THEN pane' = pane \o <<Block("user", 0), Block("error", 0)>> /\ UNCHANGED tasks
     ELSE pane' = Append(pane, Block("user", 0)) /\ tasks' = Append(tasks, Task("shell", 0, count + 1, 0))
\* A new session, or the load of another.
Switch ==
  /\ Acts /\ \E job \in {"new", "load"} :
       tasks' = IF Busy THEN tasks ELSE Append(tasks, Task(job, 0, 0, 0))
  /\ UNCHANGED <<pane, open>>
Clear == Acts /\ pane' = <<>> /\ open' = FALSE /\ UNCHANGED tasks
\* /edit and /regen look at the kind of the block; /fork offers the user's
\* messages, and submits what /regen submits.
Refer(i, job) ==
  tasks' = IF Busy THEN tasks ELSE Append(tasks, Task(job, Position(i), count + 1, pane[i].run))
EditMessage == \E i \in Speeches : Acts /\ pane[i].kind = "user" /\ Refer(i, "edit") /\ UNCHANGED <<pane, open>>
RegenReply == \E i \in Speeches : Acts /\ pane[i].kind = "assistant" /\ Refer(i, "regen") /\ UNCHANGED <<pane, open>>
ForkAt == \E i \in Speeches : Acts /\ pane[i].kind = "user" /\ Refer(i, "regen") /\ UNCHANGED <<pane, open>>

TranscriptNext ==
  \/ TakeTask \/ TakeNew \/ TakeLoad \/ TakeFork \/ Stream \/ CallTool \/ ToolReturns \/ RunDone \/ ShellDone
  \/ DrawChunk \/ DrawStart \/ DrawEnd \/ DrawDone \/ DrawFork \/ DrawHistory
  \/ Prompt \/ Shell \/ Switch \/ Clear \/ EditMessage \/ RegenReply \/ ForkAt

(***************************************************************************)
(* Properties.                                                              *)
(***************************************************************************)
\* The pieces as the pane has them, from its top to its bottom.
Pieces == FoldLeft(LAMBDA out, b : out \o b.text, <<>>, pane)
\* What is drawn is where it belongs: the pieces of a run are in their order and
\* none is there twice, a block holds the text of one run, and a result is in the
\* block that its call opened.
NothingMisplaced ==
  /\ LET ps == Pieces IN \A i, j \in DOMAIN ps : i < j /\ ps[i][1] = ps[j][1] => ps[i][2] < ps[j][2]
  /\ \A i \in DOMAIN pane :
       /\ \A k \in DOMAIN pane[i].text : pane[i].text[k][1] = pane[i].run
       /\ pane[i].kind = "tool" /\ pane[i].of # 0 => pane[i].result \in {0, pane[i].of}

\* The last reply that was streamed is on the screen when it is done.
RepliesShown ==
  task = Idle /\ tasks = <<>> /\ news = <<>> /\ count = 2 /\ (\E i \in DOMAIN messages : messages[i].run = 2) /\ Len(pane) > 1 =>
    Cardinality({i \in DOMAIN Pieces : Pieces[i][1] = 2}) = said

\* A fork is at the message the user pointed at.
EditHitsChosen == ~strayed
=============================================================================
