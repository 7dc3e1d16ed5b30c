----------------------------- MODULE TuiWorker -----------------------------
(***************************************************************************)
(* The two threads of the terminal UI: the UI thread (src/tui/tui.c) and   *)
(* the worker that owns the agent (src/tui/tui_worker.c), with the rings   *)
(* of events between them (src/tui/tui_events.c).                          *)
(*                                                                         *)
(* The worker pushes events; a push blocks while the ring is full, and     *)
(* writes a byte into a pipe after it released the ring, so that the UI    *)
(* wakes from poll.  A question to the user is an event the worker keeps,  *)
(* waits on, and frees after the UI answered it.  Jobs go the other way.   *)
(*                                                                         *)
(* Left out: what the texts say, the store, failing allocations.  Of the   *)
(* screen there is the last block of the chat and whether it takes text.   *)
(***************************************************************************)
EXTENDS Integers, Sequences

CONSTANTS EvCap,        \* capacity of the event ring
          JobCap,       \* capacity of the job ring
          MaxTurns,     \* max_iterations of a run
          MaxCalls,     \* bound: tool calls in one response
          MaxPrompts,   \* bound: questions to the user
          Jobs,         \* the jobs that the user submits, see JobKinds
          MaxSubmits    \* bound: jobs submitted

JobKinds == {"run", "fork", "new", "shell", "other"}

ASSUME RingsHoldSomething ==
  /\ EvCap \in Nat \ {0} /\ JobCap \in Nat \ {0}
  /\ MaxTurns \in Nat /\ MaxCalls \in Nat
  /\ MaxPrompts \in Nat /\ MaxSubmits \in Nat /\ Jobs \subseteq JobKinds

VARIABLES
  evs, wake,        \* event ring; its pipe holds a byte
  jobs, jobWake,    \* job ring; its pipe holds a byte
  wpc,              \* where the worker is
  unwritten,        \* the worker has queued an event and not yet written the byte
  turns, calls,     \* of the run: turns begun, tool calls left in the response
  reply,            \* the run ends with a reply
  busy,             \* TuiWorker.busy
  agent,            \* the agent TuiWorker.ctx.agent points to
  prompts, cur,     \* the round-trip events, and the worker's last one
  upc,              \* where the UI thread is
  modal,            \* the open dialog and the event it holds
  job, submits,     \* the job being pushed, the number submitted
  always,           \* the tool needs no approval any more
  chat,             \* the chat pane and the activity strip
  fault             \* an agent that is gone was used

ring == <<evs, wake, jobs, jobWake>>
run == <<turns, calls, reply>>
worker == <<wpc, unwritten, run, busy, cur>>
ui == <<upc, modal, job, submits>>
vars == <<ring, worker, agent, prompts, ui, always, chat, fault>>

Prompts == 1 .. MaxPrompts

RoundTrips == {"approval", "askUser"}

\* "note" stands for the events that change neither chat nor strip.
Event == [kind : {"chunk", "start", "end", "note", "fork", "history", "done", "error"} \cup RoundTrips,
          p    : 0 .. MaxPrompts]
Prompt == [life    : {"unused", "live", "freed"},
           answer  : {"none", "no", "yes"},
           answers : Nat]           \* history: tui_event_answer calls
Chat == [last : {"none", "user", "reply", "tool", "other"},
         open : BOOLEAN,            \* streaming_open
         tool : BOOLEAN]            \* active_tool

WorkerAt == {"idle", "taken", "reset", "turn", "stream", "streamed", "titling",
             "tool", "approving", "denied", "execute", "executing", "asking",
             "toolEnd", "ended", "flush", "seal", "sealed", "fork", "shell",
             "shellEnd", "report", "more", "destroy", "null", "build", "exited"}
Quitting == {"quit", "destroy", "lastCancel", "dropJobs", "answer", "pushQuit", "join", "gone"}
UiAt == {"loop", "drain", "drained", "submit", "commit", "commitAlways",
         "cancel", "sigCancel"} \cup Quitting

TypeOK ==
  /\ evs \in Seq(Event) /\ Len(evs) <= EvCap
  /\ jobs \in Seq(JobKinds \cup {"quit"}) /\ Len(jobs) <= JobCap
  /\ wake \in BOOLEAN /\ jobWake \in BOOLEAN
  /\ wpc \in WorkerAt /\ unwritten \in BOOLEAN
  /\ turns \in 0 .. MaxTurns /\ calls \in 0 .. MaxCalls /\ reply \in BOOLEAN
  /\ busy \in BOOLEAN
  /\ agent \in [state : {"live", "freed", "null"}, hooks : BOOLEAN, cancel : BOOLEAN]
  /\ prompts \in [Prompts -> Prompt] /\ cur \in 0 .. MaxPrompts
  /\ upc \in UiAt
  /\ modal \in [kind : {"none", "other"} \cup RoundTrips, p : 0 .. MaxPrompts]
  /\ job \in JobKinds \cup {"none"} /\ submits \in 0 .. MaxSubmits
  /\ always \in BOOLEAN /\ chat \in Chat /\ fault \in BOOLEAN

NoModal == [kind |-> "none", p |-> 0]
OtherModal == [kind |-> "other", p |-> 0]

Init ==
  /\ evs = <<>> /\ wake = FALSE /\ jobs = <<>> /\ jobWake = FALSE
  /\ wpc = "idle" /\ unwritten = FALSE /\ busy = FALSE
  /\ turns = 0 /\ calls = 0 /\ reply = FALSE
  /\ agent = [state |-> "live", hooks |-> TRUE, cancel |-> FALSE]
  /\ prompts = [p \in Prompts |-> [life |-> "unused", answer |-> "none", answers |-> 0]]
  /\ cur = 0 /\ upc = "loop" /\ modal = NoModal /\ job = "none" /\ submits = 0
  /\ always = FALSE /\ fault = FALSE
  /\ chat = [last |-> "other", open |-> FALSE, tool |-> FALSE]

-----------------------------------------------------------------------------
(* The rings and the round-trip events                                     *)

\* The part of tui_events_push under the ring's lock.
Push(kind, p) ==
  /\ Len(evs) < EvCap
  /\ evs' = Append(evs, [kind |-> kind, p |-> p])
  /\ unwritten' = TRUE
  /\ UNCHANGED <<wake, jobs, jobWake>>

Answered(p, a) ==
  [prompts EXCEPT ![p] = [life |-> @.life, answer |-> a, answers |-> @.answers + 1]]

-----------------------------------------------------------------------------
(* The worker                                                              *)

At(pc) == wpc = pc /\ ~unwritten
Goto(pc) == wpc' = pc
NotUi == UNCHANGED <<ui, always, chat, fault>>
Silent == UNCHANGED <<ring, unwritten>>

WriteWake ==
  /\ unwritten /\ unwritten' = FALSE /\ wake' = TRUE
  /\ UNCHANGED <<evs, jobs, jobWake, wpc, run, busy, cur, agent, prompts>> /\ NotUi

JobStart(k) ==
  CASE k = "run" -> "taken" [] k = "fork" -> "fork" [] k = "new" -> "destroy"
    [] k = "shell" -> "shell" [] k = "other" -> "report" [] k = "quit" -> "exited"

TakeJob ==
  /\ At("idle") /\ jobs # <<>>
  /\ jobs' = Tail(jobs) /\ Goto(JobStart(Head(jobs)))
  /\ UNCHANGED <<evs, wake, jobWake, unwritten, run, busy, cur, agent, prompts>> /\ NotUi

\* job_fork tells the UI where to cut, or gives up.
Fork ==
  /\ At("fork")
  /\ \/ Push("fork", 0) /\ Goto("taken")
     \/ Push("error", 0) /\ Goto("idle")
  /\ UNCHANGED <<run, busy, cur, agent, prompts>> /\ NotUi

SetBusy ==
  /\ At("taken") /\ Goto("reset") /\ busy' = TRUE
  /\ Silent /\ UNCHANGED <<run, cur, agent, prompts>> /\ NotUi

BeginRun ==
  /\ At("reset") /\ Goto("turn")
  /\ agent' = [agent EXCEPT !.cancel = FALSE]
  /\ Silent /\ UNCHANGED <<run, busy, cur, prompts>> /\ NotUi

\* The run is cancelled, out of turns, or the circuit breaker is open.
Stop ==
  /\ At("turn") /\ Goto("ended")
  /\ Silent /\ UNCHANGED <<run, busy, cur, agent, prompts>> /\ NotUi

\* Mutant of CallModel: a run is not bounded.
CallModelEndless ==
  /\ At("turn") /\ ~agent.cancel /\ turns' = turns + 1 /\ Goto("stream")
  /\ Silent /\ UNCHANGED <<calls, reply, busy, cur, agent, prompts>> /\ NotUi

CallModel ==
  /\ At("turn") /\ turns < MaxTurns /\ ~agent.cancel
  /\ turns' = turns + 1 /\ Goto("stream")
  /\ Silent /\ UNCHANGED <<calls, reply, busy, cur, agent, prompts>> /\ NotUi

Chunk ==
  /\ At("stream") /\ Push("chunk", 0) /\ Goto("streamed")
  /\ UNCHANGED <<run, busy, cur, agent, prompts>> /\ NotUi

\* The call fails, brings the last response, with or without text, or tool calls.
Response ==
  /\ At("stream") \/ At("streamed")
  /\ \/ Goto("ended") /\ UNCHANGED run
     \/ Goto("titling") /\ reply' \in BOOLEAN /\ UNCHANGED <<turns, calls>>
     \/ \E n \in 1 .. MaxCalls :
          Goto("tool") /\ calls' = n /\ UNCHANGED <<turns, reply>>
  /\ Silent /\ UNCHANGED <<busy, cur, agent, prompts>> /\ NotUi

Title ==
  /\ At("titling") /\ Goto("ended")
  /\ \/ agent.hooks /\ Push("note", 0)
     \/ Silent
  /\ UNCHANGED <<run, busy, cur, agent, prompts>> /\ NotUi

CallsDone ==
  /\ At("tool") /\ calls = 0 /\ Goto("turn")
  /\ Silent /\ UNCHANGED <<run, busy, cur, agent, prompts>> /\ NotUi

\* Push a question and keep the event to wait on.
PushPrompt(kind, pc) ==
  /\ cur < MaxPrompts /\ cur' = cur + 1
  /\ Push(kind, cur + 1) /\ Goto(pc)
  /\ prompts' = [prompts EXCEPT ![cur + 1].life = "live"]
  /\ UNCHANGED <<run, busy, agent>> /\ NotUi

\* execute_tool_calls: a tool that needs an approval is refused at once when
\* the agent has no callback.
AskApproval == At("tool") /\ calls > 0 /\ ~always /\ agent.hooks /\ PushPrompt("approval", "approving")

SkipCall ==
  /\ At("tool") /\ calls > 0 /\ calls' = calls - 1
  /\ Silent /\ UNCHANGED <<wpc, turns, reply, busy, cur, agent, prompts>> /\ NotUi

NoApprovalNeeded ==
  /\ At("tool") /\ calls > 0 /\ Goto("execute")
  /\ Silent /\ UNCHANGED <<run, busy, cur, agent, prompts>> /\ NotUi

\* tui_event_wait_for_answer returned: free the event.
Freed == [prompts EXCEPT ![cur] = [life |-> "freed", answer |-> "none", answers |-> 0]]

GetApproval ==
  /\ At("approving") /\ prompts[cur].answer # "none"
  /\ Goto(IF prompts[cur].answer = "yes" THEN "execute" ELSE "denied")
  /\ prompts' = Freed
  /\ Silent /\ UNCHANGED <<run, busy, cur, agent>> /\ NotUi

Denied ==
  /\ At("denied") /\ Push("error", 0) /\ Goto("tool") /\ calls' = calls - 1
  /\ UNCHANGED <<turns, reply, busy, cur, agent, prompts>> /\ NotUi

ToolStart ==
  /\ At("execute") /\ Goto("executing")
  /\ IF agent.hooks THEN Push("start", 0) ELSE Silent
  /\ UNCHANGED <<run, busy, cur, agent, prompts>> /\ NotUi

AskUser == At("executing") /\ agent.hooks /\ PushPrompt("askUser", "asking")

GetAnswer ==
  /\ At("asking") /\ prompts[cur].answer # "none"
  /\ Goto("toolEnd") /\ prompts' = Freed
  /\ Silent /\ UNCHANGED <<run, busy, cur, agent>> /\ NotUi

\* Any tool; ask_user reads the standard input when there is no callback.
Execute ==
  /\ At("executing") /\ Goto("toolEnd")
  /\ Silent /\ UNCHANGED <<run, busy, cur, agent, prompts>> /\ NotUi

ToolEnd ==
  /\ At("toolEnd") /\ Goto("tool") /\ calls' = calls - 1
  /\ IF agent.hooks THEN Push("end", 0) ELSE Silent
  /\ UNCHANGED <<turns, reply, busy, cur, agent, prompts>> /\ NotUi

EndRun ==
  /\ At("ended") /\ Goto("flush") /\ busy' = FALSE /\ turns' = 0
  /\ Silent /\ UNCHANGED <<calls, reply, cur, agent, prompts>> /\ NotUi

\* The rest of the text that the classifier held back.
Flush ==
  /\ At("flush") /\ Goto("seal")
  /\ Push("chunk", 0) \/ Silent
  /\ UNCHANGED <<run, busy, cur, agent, prompts>> /\ NotUi

\* Mutant of Seal: only a run with a reply is reported as done.
SealReplies ==
  /\ At("seal") /\ Goto("sealed")
  /\ IF reply THEN Push("done", 0) ELSE Silent
  /\ reply' = FALSE /\ UNCHANGED <<turns, calls, busy, cur, agent, prompts>> /\ NotUi

Seal ==
  /\ At("seal") /\ Goto("sealed")
  /\ Push(IF reply THEN "done" ELSE "error", 0) /\ reply' = FALSE
  /\ UNCHANGED <<turns, calls, busy, cur, agent, prompts>> /\ NotUi

\* The id of the session, when there is one and the job is no fork.
TellSession ==
  /\ At("sealed") /\ Goto("idle")
  /\ Push("note", 0) \/ Silent
  /\ UNCHANGED <<run, busy, cur, agent, prompts>> /\ NotUi

\* job_new: agent_destroy, the pointer cleared, the factory's agent, which
\* gets none of the callbacks that tui_worker_create installed.
DestroyAgent ==
  /\ At("destroy") /\ Goto("null") /\ agent' = [agent EXCEPT !.state = "freed"]
  /\ Silent /\ UNCHANGED <<run, busy, cur, prompts>> /\ NotUi

ClearAgent ==
  /\ At("null") /\ Goto("build") /\ agent' = [agent EXCEPT !.state = "null"]
  /\ Silent /\ UNCHANGED <<run, busy, cur, prompts>> /\ NotUi

\* Mutant of BuildAgent: the worker goes on without an agent.
BuildNothing ==
  /\ At("build") /\ Goto("report")
  /\ Silent /\ UNCHANGED <<agent, run, busy, cur, prompts>> /\ NotUi

BuildAgent ==
  /\ At("build") /\ Goto("report")
  /\ agent' = [state |-> "live", hooks |-> FALSE, cancel |-> FALSE]
  /\ Silent /\ UNCHANGED <<run, busy, cur, prompts>> /\ NotUi

Shell ==
  /\ At("shell")
  /\ \/ Push("start", 0) /\ Goto("shellEnd")
     \/ (\E k \in {"note", "error"} : Push(k, 0)) /\ Goto("idle")
  /\ UNCHANGED <<run, busy, cur, agent, prompts>> /\ NotUi

ShellEnd ==
  /\ At("shellEnd") /\ Push("end", 0) /\ Goto("idle")
  /\ UNCHANGED <<run, busy, cur, agent, prompts>> /\ NotUi

\* What the other jobs, and job_new, have to say: two events at most, but for
\* the reminders of a device login.
Report ==
  /\ At("report") \/ At("more")
  /\ \/ /\ \E k \in {"note", "history", "error"} : Push(k, 0)
        /\ Goto(IF wpc = "report" THEN "more" ELSE "idle")
     \/ Silent /\ Goto("idle")
  /\ UNCHANGED <<run, busy, cur, agent, prompts>> /\ NotUi

Worker ==
  \/ WriteWake \/ TakeJob \/ Fork \/ SetBusy \/ BeginRun \/ Stop \/ CallModel
  \/ Chunk \/ Response \/ Title \/ CallsDone \/ AskApproval \/ SkipCall
  \/ NoApprovalNeeded \/ GetApproval \/ Denied \/ ToolStart \/ AskUser
  \/ GetAnswer \/ Execute \/ ToolEnd \/ EndRun \/ Flush \/ Seal \/ TellSession
  \/ DestroyAgent \/ ClearAgent \/ BuildAgent \/ Shell \/ ShellEnd \/ Report

-----------------------------------------------------------------------------
(* The UI thread: tui_app_run, app_loop                                    *)

In(pc) == upc = pc
Then(pc) == upc' = pc
NotWorker == UNCHANGED <<worker, agent>>
NoKeys == UNCHANGED <<job, submits, always>>
Rings == UNCHANGED ring
Tui(next) == Then(next) /\ NotWorker

\* poll: a byte in a pipe sends the loop to drain_events; with none it times
\* out after 50 ms and drains nothing.
Poll ==
  /\ In("loop") /\ (wake \/ jobWake)
  /\ Tui("drain") /\ Rings /\ NoKeys /\ UNCHANGED <<modal, prompts, chat, fault>>

\* What handle_event does with the chat and the activity strip.
Shown(k) ==
  CASE k = "chunk"   -> IF chat.last # "reply"
                          THEN [chat EXCEPT !.last = "reply", !.open = TRUE]
                          ELSE chat
    [] k = "start"   -> [chat EXCEPT !.last = "tool", !.tool = TRUE]
    [] k = "end"     -> [chat EXCEPT !.tool = FALSE]
    [] k = "done"    -> [chat EXCEPT !.open = FALSE]
    [] k = "error"   -> [chat EXCEPT !.open = FALSE, !.last = "other"]
    [] k = "fork"    -> [chat EXCEPT !.open = FALSE, !.last = "user"]
    [] k = "history" -> [chat EXCEPT !.open = FALSE, !.last = "reply"]
    [] OTHER         -> chat

\* tui_events_pop and handle_event.  A list of models opens a picker that
\* waited for it.
HandleEvent ==
  /\ In("drain") /\ evs # <<>> /\ Head(evs).kind \notin RoundTrips
  /\ evs' = Tail(evs) /\ chat' = Shown(Head(evs).kind)
  /\ modal' \in IF Head(evs).kind = "note" /\ modal = NoModal
                  THEN {modal, OtherModal} ELSE {modal}
  /\ Tui("drain") /\ NoKeys /\ UNCHANGED <<wake, jobs, jobWake, prompts, fault>>

\* Mutant of HandleQuestion: a question that cannot be shown is allowed.
AllowQuestion ==
  /\ In("drain") /\ evs # <<>> /\ Head(evs).kind \in RoundTrips
  /\ evs' = Tail(evs)
  /\ IF modal = NoModal
       THEN modal' = Head(evs) /\ UNCHANGED prompts
       ELSE prompts' = Answered(Head(evs).p, "yes") /\ UNCHANGED modal
  /\ Tui("drain") /\ NoKeys /\ UNCHANGED <<wake, jobs, jobWake, chat, fault>>

\* A question opens its dialog; under another dialog it is declined.
HandleQuestion ==
  /\ In("drain") /\ evs # <<>> /\ Head(evs).kind \in RoundTrips
  /\ evs' = Tail(evs)
  /\ IF modal = NoModal
       THEN modal' = Head(evs) /\ UNCHANGED prompts
       ELSE prompts' = Answered(Head(evs).p, "no") /\ UNCHANGED modal
  /\ Tui("drain") /\ NoKeys /\ UNCHANGED <<wake, jobs, jobWake, chat, fault>>

RingEmpty ==
  /\ In("drain") /\ evs = <<>>
  /\ Tui("drained") /\ Rings /\ NoKeys /\ UNCHANGED <<modal, prompts, chat, fault>>

\* tui_events_drain_wake on both pipes, after the ring was found empty.
DrainWake ==
  /\ In("drained") /\ wake' = FALSE /\ jobWake' = FALSE
  /\ Tui("loop") /\ NoKeys /\ UNCHANGED <<evs, jobs, modal, prompts, chat, fault>>

\* submit_line and the commands.  Jobs other than runs are refused while busy.
Submit(k) ==
  /\ In("loop") /\ modal = NoModal /\ submits < MaxSubmits
  /\ k = "run" \/ ~busy
  /\ job' = k /\ submits' = submits + 1
  /\ chat' = IF k \in {"run", "shell"} THEN [chat EXCEPT !.last = "user", !.open = FALSE]
                                       ELSE chat
  /\ Tui("submit") /\ Rings /\ UNCHANGED <<modal, always, prompts, fault>>

PushJob ==
  /\ In("submit") /\ Len(jobs) < JobCap
  /\ jobs' = Append(jobs, job) /\ jobWake' = TRUE /\ job' = "none"
  /\ Tui("loop") /\ UNCHANGED <<submits, always, evs, wake, modal, prompts, chat, fault>>

\* A command writes a notice into the chat, such as the refusal of a shell
\* command while the worker is busy.
Notice ==
  /\ In("loop") /\ modal = NoModal
  /\ chat' = [chat EXCEPT !.last = "other", !.open = FALSE]
  /\ Tui("loop") /\ Rings /\ NoKeys /\ UNCHANGED <<modal, prompts, fault>>

\* Esc without a dialog: cmd_cancel_run has seen that the worker is busy.
CancelRun ==
  /\ In("loop") /\ modal = NoModal /\ busy
  /\ Tui("cancel") /\ Rings /\ NoKeys /\ UNCHANGED <<modal, prompts, chat, fault>>

\* agent_cancel on whatever the worker's pointer leads to.
CancelThen(next) ==
  /\ Then(next)
  /\ IF agent.state = "live" THEN agent' = [agent EXCEPT !.cancel = TRUE] /\ UNCHANGED fault
                             ELSE fault' = TRUE /\ UNCHANGED agent
  /\ Rings /\ NoKeys /\ UNCHANGED <<worker, modal, prompts, chat>>

Cancel ==
  \/ In("cancel") /\ CancelThen("loop")
  \/ In("sigCancel") /\ CancelThen("quit")
  \/ In("lastCancel") /\ CancelThen("dropJobs")

OpenDialog ==
  /\ In("loop") /\ modal = NoModal
  /\ modal' = OtherModal
  /\ Tui("loop") /\ Rings /\ NoKeys /\ UNCHANGED <<prompts, chat, fault>>

CloseDialog ==
  /\ In("loop") /\ modal = OtherModal /\ modal' = NoModal
  /\ Tui("loop") /\ Rings /\ NoKeys /\ UNCHANGED <<prompts, chat, fault>>

\* A key of the user answers: tui_modal_dispatch_key, the event first ...
Decide(a) ==
  /\ In("loop") /\ modal.kind \in RoundTrips /\ prompts' = Answered(modal.p, a)
  /\ \/ Then("commit")
     \/ a = "yes" /\ modal.kind = "approval" /\ Then("commitAlways")
  /\ NotWorker /\ Rings /\ NoKeys /\ UNCHANGED <<modal, chat, fault>>

\* Mutant of Commit: the dialog is closed with answer_cancel.
CommitTwice ==
  /\ In("commit") \/ In("commitAlways")
  /\ always' = (always \/ In("commitAlways")) /\ modal' = NoModal
  /\ prompts' = Answered(modal.p, "no")
  /\ Tui("loop") /\ Rings /\ UNCHANGED <<job, submits, chat, fault>>

\* ... and then the rule of "Always" and the dialog.
Commit ==
  /\ In("commit") \/ In("commitAlways")
  /\ always' = (always \/ In("commitAlways")) /\ modal' = NoModal
  /\ Tui("loop") /\ Rings /\ UNCHANGED <<job, submits, prompts, chat, fault>>

\* Mutant of Declined: closing a dialog leaves its event alone.
NotDeclined == prompts

\* close_modal with answer_cancel.
Declined == IF modal.kind \in RoundTrips THEN Answered(modal.p, "no") ELSE prompts

\* The quit dialog takes the place of any other.
CtrlC ==
  /\ In("loop") /\ modal # NoModal
  /\ prompts' = Declined /\ modal' = OtherModal
  /\ Tui("loop") /\ Rings /\ NoKeys /\ UNCHANGED <<chat, fault>>

\* "y" in the quit dialog, /exit, or the terminal is gone; SIGINT.
Leave ==
  /\ In("loop") /\ (Then("quit") \/ Then("sigCancel"))
  /\ NotWorker /\ Rings /\ NoKeys /\ UNCHANGED <<modal, prompts, chat, fault>>

\* tui_app_run after the loop, and tui_worker_destroy.
CloseModal ==
  /\ In("quit") /\ prompts' = Declined /\ modal' = NoModal
  /\ Tui("destroy") /\ Rings /\ NoKeys /\ UNCHANGED <<chat, fault>>

LookBusy ==
  /\ In("destroy") /\ Tui(IF busy THEN "lastCancel" ELSE "dropJobs")
  /\ Rings /\ NoKeys /\ UNCHANGED <<modal, prompts, chat, fault>>

DropJobs ==
  /\ In("dropJobs")
  /\ IF jobs # <<>> THEN jobs' = Tail(jobs) /\ Tui("dropJobs")
                    ELSE UNCHANGED jobs /\ Tui("answer")
  /\ NoKeys /\ UNCHANGED <<evs, wake, jobWake, modal, prompts, chat, fault>>

AnswerQueued ==
  /\ In("answer")
  /\ IF evs # <<>>
       THEN /\ evs' = Tail(evs) /\ Tui("answer")
            /\ prompts' = IF Head(evs).kind \in RoundTrips THEN Answered(Head(evs).p, "no") ELSE prompts
       ELSE UNCHANGED <<evs, prompts>> /\ Tui("pushQuit")
  /\ NoKeys /\ UNCHANGED <<wake, jobs, jobWake, modal, chat, fault>>

\* Mutant of PushQuit: the push fails, which tui_worker_destroy only logs.
PushQuitFails ==
  /\ In("pushQuit") /\ Tui("join")
  /\ Rings /\ NoKeys /\ UNCHANGED <<modal, prompts, chat, fault>>

PushQuit ==
  /\ In("pushQuit") /\ Len(jobs) < JobCap
  /\ jobs' = Append(jobs, "quit") /\ jobWake' = TRUE
  /\ Tui("join") /\ NoKeys /\ UNCHANGED <<evs, wake, modal, prompts, chat, fault>>

Join ==
  /\ In("join") /\ wpc = "exited"
  /\ Tui("gone") /\ Rings /\ NoKeys /\ UNCHANGED <<modal, prompts, chat, fault>>

Quit == CloseModal \/ LookBusy \/ DropJobs \/ AnswerQueued \/ PushQuit \/ Join
        \/ (In("lastCancel") /\ Cancel)

Keys == (\E k \in Jobs : Submit(k)) \/ Notice \/ CancelRun \/ OpenDialog \/ CloseDialog
        \/ (\E a \in {"no", "yes"} : Decide(a)) \/ CtrlC \/ Leave

Ui == Poll \/ HandleEvent \/ HandleQuestion \/ RingEmpty \/ DrainWake \/ PushJob
      \/ Commit \/ Cancel \/ Keys \/ Quit

\* What the program does after it used an agent that is gone is not modelled.
Next == ~fault /\ (Worker \/ Ui)

Spec == Init /\ [][Next]_vars

\* The worker and the steps of leaving depend on no user: one of the threads
\* goes on as long as one can.  Calls of the model and tools return.
FairSpec == Spec /\ WF_vars(~fault /\ (Worker \/ Quit))

-----------------------------------------------------------------------------
(* Properties                                                              *)

Asking == wpc \in {"approving", "asking"}
Waiting == Asking /\ prompts[cur].answer = "none"

Queued(p) == {i \in 1 .. Len(evs) : evs[i].p = p}

\* While the worker waits for an answer, its question is in exactly one place
\* from which an answer can come: once in the event ring, or in the open
\* dialog (tui.c:486-488: "a dropped event would leave it waiting forever").
QuestionHasOnePlace ==
  Waiting => \/ modal.p = cur /\ Queued(cur) = {}
             \/ modal.p # cur /\ \E i \in Queued(cur) : Queued(cur) = {i}

\* A question is answered once, and never after the worker freed its event
\* (tui_events.h:158-160): not by the key and the closing of the dialog, not
\* by the dialog and the emptying of the ring when the program quits.
AnsweredOnce ==
  [][\A p \in Prompts : prompts'[p].answers > prompts[p].answers =>
       prompts[p].life = "live" /\ prompts[p].answers = 0]_vars

\* When the worker is idle and the UI has handled its events, no block of the
\* chat is left open and no tool is shown as running: every way out of a run
\* or a tool has told the UI (finish_stream_run, worker_tool_end).
QuietWhenIdle ==
  wpc = "idle" /\ evs = <<>> /\ upc \notin Quitting => ~chat.open /\ ~chat.tool

\* The UI cancels through a pointer it reads without a lock.  The agent it
\* reaches is alive, but for the moment in which a "new" job replaces it.
OnlyNewLosesAgent == fault => wpc \in {"null", "build"}

\* Where leaving the program gets stuck: the worker put a question, or more
\* events than the ring holds, after tui_worker_destroy had emptied the ring.
NeedsRoom ==
  \/ wpc \in {"fork", "denied", "seal", "shell", "shellEnd"}
  \/ wpc \in {"execute", "toolEnd"} /\ agent.hooks

Stranded ==
  /\ upc = "join"
  /\ (Waiting /\ Queued(cur) # {}) \/ (NeedsRoom /\ Len(evs) = EvCap)

\* The program that quits ends, or is stranded: the drained job ring takes the
\* quit job, a cancelled or declined run ends, the worker reads the quit job.
QuitEnds == upc = "quit" ~> (upc = "gone" \/ Stranded \/ fault)

\* The two threads keep the promise of Prompting about the questions of runs.
P == INSTANCE Prompting WITH
  phase <- IF ~Asking THEN "none"
           ELSE IF ~Waiting THEN "answered"
           ELSE IF modal.p = cur THEN "shown" ELSE "asked",
  verdict <- IF Asking THEN prompts[cur].answer ELSE "none"

KeepsPromise == P!Spec

\* An event in the ring has its byte in the pipe once its push is over, so
\* that the UI loop will wake for it: tui_events.h:178-179 has the pipe drained
\* "after the poll reports readability, before popping".
WakeForEvents == upc = "loop" /\ evs # <<>> /\ ~unwritten => wake

\* A chunk that the UI takes from the ring goes to an open block of the chat
\* (TUI_MIGRATION_PLAN.md:136, "dropping is unacceptable").  It fails with a
\* message typed ahead (section 5 of README.md).
ChunksShown ==
  [][HandleEvent /\ Head(evs).kind = "chunk" => chat'.open]_vars
=============================================================================
