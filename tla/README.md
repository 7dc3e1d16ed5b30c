# Echo AI: TLA+ models, checks and proofs

Echo AI is a C program: an agent that calls a language model in a loop and runs
tools for it, reached through a web server (libuv, HTTP, WebSocket) or a terminal
UI, with its sessions kept in an encrypted SQLite vault.  This directory holds
TLA+ models of its parts, the TLC configurations that check them on small
instances, and proofs that TLAPS checks for every instance.  Paths below are
relative to the repository; file and line of every modelled definition are in
`PROJECT.json`, which also lists the components, the runs, the hazards, the
findings and the theorems.

1. [Inventory](#1-inventory)
2. [Modules](#2-modules)
3. [Runs](#3-runs)
4. [Proofs](#4-proofs)
5. [Where code and text disagree](#5-where-code-and-text-disagree)
6. [Not modelled](#6-not-modelled)
7. [Plan](#7-plan)

## 1. Inventory

### Processes and threads

* **Server** (`echo_ai --server`): one thread and one libuv loop.  A handler runs
  to its end, with one exception that shapes everything: a WebSocket frame that
  starts an agent run blocks the loop, and while the run waits for its user the
  callback runs the loop itself (`ws_approval_cb`, `ws_ask_user_cb`).  All other
  frames, closes, logouts and REST requests are then handled *inside* that wait.
* **TUI** (`echo_ai`): a UI thread that owns the terminal, and a worker thread
  that owns the agent.  They share two bounded rings with wake pipes, the `busy`
  flag, the agent's cancel flag, the session store and the configuration.
* **OAuth manager** (`llm/openai_oauth.c` and `llm/oauth_*.c`): a mutex and one
  condition variable, entered by every thread that wants a token or a login, and by
  the background thread of each browser login.  No lock is held during a network
  exchange, so everything a call knows may be out of date when it comes back.
* **Store**: one mutex per session manager; SQLite below it.  Several callers
  load in one critical section and save in another.
* **Tools** run on the thread of their run.  `bash` and `python` fork a child whose process
  group outlives the call if nobody ends it; the browser is a child with two pipes, a
  thread that reads its replies, and processes of its own.

### Components

| Component | State | Operations | Talks to | What makes it correct |
|---|---|---|---|---|
| Password change and recovery, `session/migration.c` | `.changing_pwd`, `salt`, `salt.old`, `.verifier`, `.verifier.new`, `password_migration_state`, the rows | change, undo, recover | manager (key), server route | rows under one key; the salt of the data survives; recovery agrees with the database; the answer tells what happened |
| Vault keys, `session/encryption.c`, `session_manager.c` | salt, pepper, verifier, `enc_key` | first run, unlock, verify | migration | only the right password opens; no first run over a vault |
| Session store, `session/session_*.c` | rows of `agent_sessions`, index, reference counts | load, save, rename, delete, purge | agent, routes, TUI commands | no update lost; deleted stays deleted |
| Branches, `session_branch.c`, `session_branch_info.c` | live chain, its birth, list of chain records, fork groups | fork, switch, tag, info | chat frames, web page | no message lost, every chain reachable, positions are creation ranks |
| Agent run, `agent/agent_run.c`, `agent_tools.c` | messages, `cancel_requested`, iteration | run, cancel, approve, execute | provider, tools, callbacks, store | bounded; nothing runs without its approval; cancel is obeyed |
| Context window, `agent/context.c` | none (pure) | select the messages for the model | agent run | a tool result never without its call; within budget |
| ask_user and delegate, `tool_delegate.c` | the sub-agent's messages | one call | agent, provider | bounded turns; a result stays behind its call |
| WebSocket chat, `server/routes/routes_ws*.c` | `WSChatCtx`: pending request, flags, `active_runs`, `closing` | message, edit, regenerate, stop, answers, close | loop, agent, authentication | approvals are for their own call; contexts outlive runs; expired users get nothing done |
| Authentication, `routes_auth.c` | SETUP / LOCKED / UNLOCKED, generation, token, failures | set up, unlock, logout, change password | vault, chat | old tokens die with the generation; limits hold |
| HTTP and WebSocket framing, `server/*.c` | read buffers, timers | accept, read, frame, ping, close | loop | the verdict on a request does not depend on its cuts; frames in order |
| REST routes, `server/routes/*.c` | none of their own | sessions, settings, undo, sign-in | store, authentication, tools | only who is let in; answers agree with the status page |
| TUI worker, `tui_worker.c`, `tui_events.c` | two rings, wake pipes, `busy`, round-trip events | push, pop, wait, answer, jobs, destroy | UI thread, agent | each question answered once; no wake-up lost; quitting ends |
| TUI loop and dialogs, `tui.c`, `tui_dialogs.c`, `tui_cmd.c` | modal, chat pane, strip | poll, drain, keys, commands | worker | a question always has a place; the pane is sealed |
| TUI chat pane and drawing, `tui_chat.c`, `tui_render.c` | blocks, scroll position, planes | events, clicks, resize | worker's events | what is drawn is what is there; a click hits what it shows |
| TUI prompt, keys, small stores, `tui_input.c`, `tui_keys.c`, `tui_*_store.c` | draft, history, stash, bindings, chord, pins, models | keys, slash commands, completion | files, dialogs | a draft is never lost; a key means what is bound |
| TUI stream classifier, `tui_stream.c` | held-back text, mode | feed, finish | worker | same split however the text is cut into chunks |
| OpenAI sign-in, `llm/openai_oauth.c` | tokens, generation, `refresh_in_progress`, `active_operations`, `lifecycle_busy` | access token, refresh, login, attach, logout, destroy | vault, providers | single flight; stale results discarded; destroy waits |
| Providers, `llm/*.c` | none kept between calls | request, stream | agent | a reply is what the service sent, however cut; a history can go on |
| Circuit breaker, rate limiter, `utils/` | counters and times | allow, success, failure | agent, routes | opens and closes as configured; limits at window edges |
| Change tracker, `change_tracker/` | undo and redo stacks (64) | record, undo, redo | file tools | undo restores what was there |
| Safety, tool registry, `safety/`, `tools/registry.c` | approval list, tool table | needs approval, always allow | agent, TUI | approval where configured |
| Tools, `tools/*.c` | files, children | one call each | agent | an edit means its replacements; writes stay inside; a call comes back and leaves no process |
| Browser, `browser/*.c`, `tool_browser.c` | session, pending replies, reader thread, child | open, navigate, read, click, close | child over pipes | each reply goes to its request; nothing is left open; a call comes back |
| Memory, config, logging, metrics, HTML, JSON | tables and files | single statements | all | formats |

### What is hard

*Nesting* in the server: the state a callback reads after its wait was written by
handlers that ran inside the wait.  *Two threads* in the TUI: bounded queues in
both directions, flags read without a lock, a pipe that is emptied at another
moment than the queue it stands for, and a shutdown that races the last question.
*Crashes* in the vault: some twenty file and database operations that must look
like one, undone or completed by a recovery that may itself be interrupted and
runs before the password is checked.  *Copies* in the session store: the agent
saves its own copy over a chain that others changed.  *Time*: births of branches
in milliseconds, deadlines for questions but none for approvals, refresh windows.
*Cuts*: requests, frames, streams and the output of commands come in pieces of any
size, and long ones lose their middle.  *Processes* that outlive the tool that began
them.  *Ages of what is on the screen*: a dialog, a list of models, a position in the
chat pane is acted on after the thing it names has changed.
`PROJECT.json` lists these places under `hazards`, with the properties that cover
each or the reason why none does.

## 2. Modules

| Module | Models | A step is |
|---|---|---|
| `PasswordMigration` | the change of the password, its undoing, the recovery and the unlock that calls it | one file or database operation |
| `PasswordChange` | abstract: a change takes effect at once, before it is answered | |
| `WsChat` | chat connections, nested runs, approvals, questions, closing, expiry | one handler or wait |
| `WsChatProofs` | inductive invariant, safety | |
| `SessionBranch` | fork, switch, tag, pills, and the frames that use them | one frame or critical section |
| `SessionStore` | everyone who loads, changes and saves a session | one critical section of the store |
| `SessionArchive` | abstract: histories grow, deleted stays deleted, one title | |
| `SessionStoreProofs` | of both: inductive invariants, safety of the branches, refinement | |
| `TuiWorker` | UI thread, worker thread, rings, dialogs, quitting | one lock section, event or key |
| `Prompting` | abstract: what is promised about a question to the user | |
| `TuiWorkerProofs` | inductive invariant, safety, refinement | |
| `OpenAIOAuth` | tokens, refresh, logins, attach, logout and destroy of the OAuth manager | one critical section, or the end of an exchange or join |
| `Keyring` | abstract: a token held is the one stored for the attached session | |
| `OpenAIOAuthProofs` | inductive invariant, safety, refinement | |
| `HttpConnection` | one connection: pieces of a request, the answer, an upgrade, frames | one read, write or close |
| `ServerAuth` | set-up, unlock, logout, change, the managers and their counts, throttling; the limit of requests, with a table that may fail | one request |
| `ServerFrontProofs` | of both and of `PasswordMigration`: inductive invariants, safety, refinement | |
| `TuiDialogs` | pickers, confirmations, inputs and the jobs they submit | one key or event |
| `TuiTranscript` | the chat pane against the agent's messages | one event, key or step of the worker |
| `TuiPrompt` | the typed line, its history and stash | one key |
| `TuiKeys` | key specs, bindings, the leader chord, completion | one key |
| `TuiRecents` | pins, quick slots, models used last | one key or job |
| `TuiPicker` | a list with its filter, cursor and window | one key, filter or frame |
| `TuiLayout` | planes, lines, scrolling, clicks, wrapping | one key, event or frame |
| `TuiScreenProofs` | of the dialogs: inductive invariant, safety | |
| `FileTools` | the paths a tool may use, writes and edits with the change tracker and undo | one call of the file system, or an undo |
| `TextEdit` | an edit as a function on texts, and its diff | one call |
| `Approvals` | the approval list, the gate, the "Always" rule | one entry of the scan, or a key |
| `SafetyChecks` | commands, URLs and addresses that are refused | one check |
| `ReadWindow` | a file read in pieces by the offsets the results name | one call |
| `CommandRun` | a command of `bash` or `python`: processes, pipes, deadline | one system call of the tool, a step of a process, a second |
| `Browser` | the browser tool, its transport and its processes | one action, write, reply, poll or signal |
| `AgentCall` | messages of a run, context window, circuit breaker | one call of the model or of tools |
| `OpenAIStream`, `CompatStream`, `OllamaStream` | replies as they stream in from the three kinds of provider | one event, line or cut |
| `ReplyText` | the text of a reply with its thinking (operators) | |
| `CodexRequest` | the request made of a conversation any provider left | one message |
| `StreamClassifier` | how the terminal tells thinking from answer | one chunk |
| `SubAgent` | the delegate tool's loop | one turn |
| `FileToolsProofs` | of the files: sequences of paths and texts, inductive invariants | |
| `AgentWorkProofs` | of the other tools and of the conversations: inductive invariants, safety | |
| `MC*` | values, and the bundles below | |

The compositions are inside the modules: `WsChat` composes chat, agent run and the
logout of the authentication, `SessionBranch` store, agent copies and the web page,
`SessionStore` the agent, both front ends and the REST handlers, `TuiWorker` both threads,
the agent run and both rings, `OpenAIOAuth` callers, callback threads and the vault,
`FileTools` the tools, the paths of the workspace and the undo of both front ends, `Approvals` worker and UI
thread, `TuiTranscript` pane, rings and agent, `Browser` tool, reader and child.

Machines that share no variable are run together: `MCSessionBranch`, `MCServerFront`,
`MCTuiScreen` and `MCAgentWork` choose a `subject` in their initial state, and a behaviour is
of that machine alone while the others stand still.  A conjunct of a bundle's property
is a definition of the machine's own module; it holds trivially where another moves.

### PasswordMigration

State: one variable per file (`marker`, `salt`, `oldSalt`, `verifier`,
`verifierNew`; a file is absent, torn, or holds a value), the committed `rows` with
the key each is under, the recorded `stateSalt`, the open transaction `txn`, the
key `live` of the running manager, and `pc`, the next operation.  A key is a pair
of password and salt, as derived; the pepper is created once and left out.
`UnlockVault`, `AskChange` and `WriteRow` are the requests; `Decide` to `SyncRecovery` are
`migration_check_and_recover`; `Verify` is the rest of `init_encryption`; `Mark` to
`TidyMarker` are `migration_perform_change` and what follows its commit; `UndoChange`
is `restore_old_files`.  `Crash` may happen before any operation and drops
the transaction.  With `IOErrors` each operation may fail as well.  The code syncs
after each operation; an operation that was not synced and is lost is a crash one
step earlier, so the model needs no page cache.  `vaultKey` and `age` are history:
the key of the committed data, and whether a second change was ever begun.
`Init` has two kinds of state: a vault that is set up, and a directory that an
older program without `password_migration_state` left in the middle of a change
(`LegacyInterrupted`), which the tests of recovery build by hand.

### WsChat

State: `stack`, the runs in progress with the innermost last, and `ctx`, the `WSChatCtx` of
each connection with its agent's cancel flag; `unlocked` and `generation` of the server.
Only the top of the stack moves: `CallTools`, `FinalAnswer` and the other steps of
`agent_run_loop`, asking for approval, and the end of a wait.  The frames (`StartRun` for
message, edit and regenerate, `Stop`, `Respond`), the close of a socket, logout and unlock
are enabled when the stack is empty or its top waits: that is when the loop runs.  A frame
of a connection whose context is freed cannot come; a run that goes on with a freed context
sets `crashed`, and what the program does after that is not modelled.  What ends the wait
for a question (an answer, a stop, a close, the deadline) is not told apart.  Left out: the
texts, the saving of the session (see `SessionBranch`, `SessionStore`), and which tools need
approval (a choice, see `Approvals`). `approved`, `ran` and `overlapped` are history.

### SessionBranch

State: `live`, `birth` and `list` are the stored session; `mem[t]` is the agent's
copy in tab `t`; `runs` is the stack of runs as in `WsChat`.  Every function on the
store is one critical section of `sm->lock`, so it is one step.  `Edit`,
`Regenerate`, `BranchSwitch`, `SendMessage` and `Reconnect` are the frames; `Turn`,
`Answer` and `NoResponse` are what the run does, each with its save and, after a
regenerate, its tag.  A message is a body, an id and a fork group.  Births are
milliseconds; the wait of `branch_next_created_at` is `NextBirth`.  `BranchInfo` is
what the server reports to the page, of `MaxCounted` recorded chains at most.  History:
creation numbers of chains, which tabs hold an outdated copy (`behind`), whether one
of them has saved it (`stale`), and whether a group left the live chain (`untagged`).

### TuiWorker

State: `evs` and `jobs` are the rings, `wake` and `jobWake` whether their pipes hold
a byte; `wpc` is where the worker is, `unwritten` that it has queued an event but not
written its byte (the two happen under and after the lock); `prompts` are the
round-trip events with their life, answer and number of answers; `upc` is where the
UI thread is, `modal` the open dialog; `agent` is what `TuiWorker.ctx.agent` points
to, with whether it has callbacks and is cancelled; `chat` is the end of the chat
pane.  A push is enabled only while the ring has room, which is how the code blocks.
`Worker` is the worker's thread: jobs, the run with its turns, chunks and tool
calls, questions, the replacement of the agent by a "new" job.  `Ui` is the other:
`Poll` to `DrainWake` are one round of the loop, `Keys` are what the user does,
`Quit` is `tui_app_run` after the loop with `tui_worker_destroy`.

Abstractions: thinking and content chunks are one kind; "note" stands for every
event that changes neither chat nor strip; the device login's reminders, failing
allocations, a failing factory and the clearing of the screen are left out; after a
gone agent was used (`fault`) nothing is modelled; a freed prompt's memory is
cleared, so that histories do not multiply the states.

### OpenAIOAuth

State: `auth` is `struct OpenAIOAuth`, with the access and the refresh token as one
number; `vault` has the stored token of each session; `threads` has the live callback
threads by their generation; `at` says where each caller is, `asked` and `note` hold
what it keeps in local variables (its arguments; the generation or token version it
captured, or the thread it joins); `asleep` are the callers in `pthread_cond_wait`,
woken by `Broadcast` only where the code broadcasts, or for no reason (`Spurious`).
`BeginLifecycle` to `DestroyEnds` are attach, logout, cancel and destroy; `Reap` to
`DeviceRefused` the two ways to begin a login; `PollBegins` to `PollReleases` the
device poll; `ThreadBinds` to `ThreadFinishes` the callback thread; `TokenHeld` to
`RefreshRejected` the token calls.  A lost wake-up is a caller that stays in `asleep`.

What a foreign service or the clock decides (whether a token is due, a login expired, how
the issuer answers, whether the vault saves) is a choice of the step that asks.  A call
refused at its first look at the struct changes nothing and is no step.  Left out: error
texts, sockets, the contents of tokens, failing allocations other than those the code treats
as a transient failure, and the wrap of `next_generation` after 2^64 logins. The manager's
owner does not free it under a call that nothing counts (one that waits for another's
refresh, or a start between its critical sections): `BeginDestroy` asks that no caller is in
a stage of `Uncounted`.  `main.c` and the worker keep to that.  `superseded` is history: the
calls and threads that were at work when the last login or lifecycle call began.

### SessionStore

State: `rows` is the table of sessions; `loaded` holds, for the worker (or the server's
thread) and for the other one, the row it has loaded and not saved yet; `agent` has the
agent's messages and `session_id`, `work` says where a run or a job is.  A save replaces the
whole row, as `session_manager_save_session` does, so every lost update is visible.  `AgentRun`
is `agent_run` with its saves and the two sections of the title; `Terminal` adds the
worker's jobs and the commands of the UI thread; `Server` the REST handlers, between runs or in
their waits; `LibraryCalls` import, purge and the functions for a single change.  `front`
chooses which of them there are.  `overtaken` is history: the threads whose copy another caller has
since overtaken; a session saved from such a copy is `loose`, and `SessionArchive` promises
nothing of it.  Left out: texts, times other than "before the cutoff", failing allocations.

### The server's front: HttpConnection, ServerAuth

`HttpConnection`: a request of some units arrives in pieces of any size (`Receive`), is
answered at its verdict, and the answer closes the connection, streams events or upgrades;
`ReadFrames` reads whole frames, and `ReadGarbled` is the read that ends inside a frame,
whose rest the next read takes for a header.  `ServerAuth`: the configuration, the state of
the server, its token, and each `SessionManager` with its `ref_count`, held by the server,
by connections, and, uncounted, by the OAuth manager, the registry and the shared agent
(`attached`).  `Request` is a request to set up, unlock or change the password, `Ask` any
route behind or in front of the gates; `Restart` keeps the table of wrong passwords, which
is a file. The last section of `ServerAuth` is the limit of requests, which shares no variable
with the rest: `Admit` is the statement sequence of one request, `FailsOpen` the same when the
table fails.

### The terminal's screen: TuiDialogs, TuiTranscript, TuiPrompt, TuiKeys, TuiRecents, TuiPicker, TuiLayout

`TuiDialogs` has the one `modal` and, apart from it, `picker_context`, `confirm_action`,
`input_action` and `menu_session_id`, which outlive it: what Enter does is read from them.
`TuiTranscript` has the blocks of the pane and the agent's messages, with both rings between
them: the UI writes what is typed at once, the worker's events are drawn later, and a fork
names a message by its place in the pane.  `TuiPrompt` has the editor, the ring of history
with its file, and the stash. `TuiKeys` parses specs into bindings and runs strokes with
ticks of a clock through `tui_keymap_feed`; `Completed` is the completion of a slash
command.  `TuiRecents` has the two files of pins and models and the jobs between key and
file.  `TuiPicker` is the list alone, with the loops of `picker_move` and the filter.
`TuiLayout` computes planes, line starts and frames by the code's arithmetic on heights, and
wraps a text.  None of them has the cursor inside the line, colours or markdown.

### Tools: FileTools, TextEdit, Approvals, SafetyChecks, ReadWindow, CommandRun, Browser

`FileTools` has the files in a tree of directories and links, in which it resolves a path
(`Realpath`, `Resolve`) as the code does, the undo and redo stacks and the call on its way:
`WriteCall` checks, makes directories and takes the snapshot, `WritePut` truncates and
writes, `EditCall` reads, `EditPut` renames its temporary file over the old; `Undo` and
`Redo` may come between the steps in the TUI, whose undo is on the other thread; `Foreign`
is a change that the user makes, `Crash` leaves the beginning of a write. `TextEdit` is the
whole of an edit as operators: matching, overlap, replacing, line ends, the byte order mark
and the diff; `AskEdit` asks it of every file and list of edits in the bounds. `Approvals`
has the list as an array that the worker scans entry by entry while the UI thread frees an
entry and moves up the others.  `SafetyChecks` takes commands apart and classifies hosts.
`ReadWindow` has a reader that asks for the offset the last result named.

`CommandRun`: the child, a process of its group and one outside it write to the pipes, fork
and exit when they like; the tool's loop polls, reads, waits and signals as
`run_with_timeout` does, and `Second` is the clock.  `Browser`: `AskTool` begins an action,
whose requests (`todo`) are then written, answered and waited for by `BrowserCaller`;
`ReadRound` is one round of the reader thread; the browser executes requests (`Exec`),
replies in any order or never (`Reply`), forks, and leaves.  `wires` are the pipes: a write
to a full one blocks while the browser lives.  A deadline may pass whenever the caller
waits.

### The model: AgentCall, OpenAIStream, CompatStream, OllamaStream, CodexRequest, StreamClassifier, SubAgent

`AgentCall` has the messages of one agent over several runs, streaming or not: `CallModel`
selects and trims them (`apply_context_window`, with its three passes and the trimming by
size), asks the breaker, and takes the reply; `RunTools` appends results; `Tick` lets the
breaker cool down.  The three stream modules send an answer as their service does, cut
anywhere, and put it together as the code does, with the text's pieces in `ReplyText`; what
is dropped, closed early or refused is a step.  `CodexRequest` grows a conversation turn by
turn with changing providers and makes the request of it.  `StreamClassifier` feeds one text
in chunks; `SubAgent` is the loop of `delegate_execute` with lists that may fail to grow.

## 3. Runs

Passing runs.  The properties of a bundle are listed with the definitions they are made of.

| Run | Instance | States | Shows |
|---|---|---|---|
| `password_migration` | 2 passwords, 4 salts, a session row and an OAuth row, failing operations | 471,168 | `NeverHalfMigrated`: committed rows are under one key whatever the process dies in.  `SaltSurvives`: that key's salt is in `salt` or `salt.old` at every step.  `LiveKeyIsVaultKey`: who is let in has the key of the data.  `QuietVaultConsistent`: without a marker the files open the data, up to the end of the first change.  `AnswersHonest`: an "ok" means files, data and manager have the new key (`OkMeansActivated`), and recovery never reports success without a salt (`NoSpuriousFirstRun`).  `ImplementsPasswordChange`: the change refines `PasswordChange`. |
| `ws_chat` | 2 connections, 1 iteration, 2 calls, 2 requests, depth 2, 2 logouts or unlocks | 698,991 | `OwnApproval`: a tool that needs approval runs only after its own request was approved, on a connection that never overlapped with itself.  `ContextOutlivesRuns`.  `ExpiredDoesNothing`: after a close or logout no call of the model begins and no approved tool runs.  `Drains`: when everybody is gone all contexts are freed. |
| `session_branch` | 2 tabs, 3 bodies, 2 forks, 4 ms; one stored session, room for another, 4 messages said | 837,265 | `BranchesKept` (`NothingLost`, `ForksReachable`, `ActiveIsRank`, `ContextIsStored`): no message is lost unless an outdated copy was saved, every chain can be reached by pills, positions are creation ranks also after switching and forking again, and an up-to-date tab asks about the stored chain.  `ImplementsArchive`: everyone who saves sessions refines `SessionArchive`. |
| `tui_worker` | rings of 2 events and 1 job, 1 turn, 1 call, 2 questions, 2 submits of run, fork, new or shell | 1,258,549 | `QuestionHasOnePlace`: a question that is waited on is once in the ring or in the open dialog.  `AnsweredOnce`: and is answered once, before it is freed.  `QuietWhenIdle`: no open block and no running tool once the worker is idle and its events are handled.  `OnlyNewLosesAgent`: a cancel reaches a live agent but while a "new" job replaces it.  `KeepsPromise`: the threads refine `Prompting`.  `QuitEnds`: quitting ends, or is in a named stranded state. |
| `open_ai_oauth` | 2 callers, 1 session or none, 3 calls of nine kinds | 177,012 | `ManagerSound`: at most one refresh is under way and the two counters that others wait on say what is (`CountsAgree`), and the struct is freed when no thread and no call can touch it (`FreedLast`).  `NoLateSignIn`: what was at work when a later login, logout, attach, cancel or destroy began never brings a token in.  `CredentialsKept`: the manager refines `Keyring`.  `CallsEnd`: every call but a waiting start ends. |
| `server_front` | heads of up to 3 units, bodies of up to 3, 3 frames; 2 addresses, 2 connections, 3 wrong passwords in a minute of 2 ticks | 157,003 | `ConnectionSound`: the verdict on a request is that of the whole text however it was cut (`ChunksDontMatter`), and text frames are heard once, in order, and all of them if each came in a read of its own (`HeardInOrder`).  `LimitsHold`: no minute has more wrong passwords than allowed, over both forms and over restarts (`Throttled`), and no window more than twice the requests (`Burst`).  `DoorHonest`: whoever has a manager has one that is not freed (`HoldersAgree`), and the gates and the status page agree (`OneGate`). |
| `tui_screen` | 2 sessions and providers, 7 keys, 2 jobs of 2 pieces and a call on a ring of one, histories of 2 lines, a leader of 2 ticks, frames of 1, 2 or 4 rows | 1,437,696 | `DialogsTruthful`: Enter does what the open dialog says (`ActsAsShown`), and a question is in the ring or on the screen exactly while the worker waits (`QuestionShown`).  `InputKept`: drafts and history (`DraftsSafe`), chords and completions (`KeysMeanIt`), pins and models (`RecallsRight`).  `ScreenRight`: the frame of a list has the row that Enter takes and every match (`PickerShows`), a run's pieces and results are where they belong (`NothingMisplaced`), lines are drawn once and the end is in sight (`RowsInOrder`, `EndInSight`), a wrapped text is whole and fits (`WrapRight`). |
| `agent_work` | files of up to 7 symbols with 2 edits a call; 2 changes and 4 undos; 2 gated calls; commands of 5 characters; windows of 2 bytes and a deadline of a second; 2 actions of the browser; windows of 4 messages, 2 turns of 2 calls; answers of up to 4 items | 460,929 | `TextsSound`: an edit means its replacements, its diff adds up, offsets read all of a file (`EditsMeanIt`, `DiffHonest`, `OffsetsReadAll`).  `OutsideUntouched`: in the restricted mode nothing outside the workspace changes.  `FilesHonest`: an edit shows whole or not at all, undo and redo go back and forth exactly, a redo of a text with a NUL up to it (`EditShowsWhole`, `WindsBack`).  `GatesHold`: a listed tool runs after a question or an "Always" (`AskedOrAllowed`), cutting a command changes nothing (`CutsChangeNothing`), nothing is fetched from a private network (`FetchesInBounds`).  `CommandSound`: no process of the group survives a command, its output is the end of what was written, the browser leaves nothing and what it reports done was done (`NothingLeftRunning`, `OutputRight`, `NothingLeftOpen`, `DoneIsDone`).  `CommandsEnd`: commands and browser actions come back.  `TurnsSound`: the window is in order and has no result without its call, the breaker waits out its time, a response shows its own turn's calls (`WindowSound`, `BreakerHolds`, `ShownOfThisTurn`).  `StreamsSound`: what is put together of a stream is what was sent (`ReplyIsAnswer`, `StreamedAsBuffered`, `EveryLineOnce`, `CutsDoNotShow`).  `HistoriesSound`: a conversation held with Codex or with streams of compatible servers goes on with Codex, a sub-agent's result stays behind its call (`HistoryGoesOn`, `SubAgentKeepsOrder`). |

Runs that TLC must find violated, one per finding of section 5: `quiet_vault_opens`,
`no_approval_bypass`, `never_on_header`, `reads_what_it_kept`.  The one of the password change
runs under `OwnSpec`, which starts from vaults this program set up and forgets the
legacy directories, and without failing operations: the counterexample needs nothing
but a stop of the process.

### Bounds, and why they are enough

* *Password change.*  Two passwords tell the right from the wrong and old from new.
  Four salts give a vault, two changes and an abandoned attempt distinct salts at
  once, and salts are reused after that, so the number of changes is not bounded.
  One row of each table is enough because recovery asks the two tables differently
  and a transaction with two rows can be half done.  The theorems of section 4 drop
  the bounds.
* *Chat.*  Depth 2 with two connections has a run inside the same connection's wait
  and inside the other's.  Two calls per response have an approval followed by a
  further approval; two requests tell a stale answer from a fresh one.
  `MaxIterations` is a parameter of the program, the others bound the environment.
* *Branches.*  Two forks give three chains: the least at which order matters and a
  fork joins an existing group.  Four milliseconds allow ties and waits.  With one
  tab four bodies are reached; with two tabs three, and the tabs are symmetric.
* *TUI.*  A ring of one job is full after one type-ahead, so the UI thread blocks in
  its push and the quit job needs room; a ring of two events is full while a tool
  reports.  Two questions tell a repeated answer from an answer to a later question.
  Two submits have a job queued behind a run, and "new" before a run.  `Jobs` is a
  constant because each kind of job multiplies the states; the kinds that are not
  enumerated ("other") only report, as "new" does.
* *Stored sessions.*  One session that exists and an id that is free have a copy, a deletion and
  a new session under either.  Four messages are two turns, so that a save comes before and after
  another caller's; two threads are all the program has on one store.
* *Server.*  A head of one to three units with limits of two, and a body of up to three, has
  the limit, one below and one beyond at each cut.  Three wrong passwords of two addresses
  reach each of both limits alone; a minute of two ticks has windows that overlap.
* *Screen.*  Seven keys open a dialog, leave it for another and commit there, which is where
  what outlives a dialog bites.  Two jobs of two pieces have a run typed ahead; a ring of
  one is full at once. Rings, files and windows of two wrap; a list with and without headers
  is longer than its window.
* *Tools and model.*  The texts have every pair of line ends, the marks and the NUL; two
  edits overlap or not; two changes and four undos go back, forth and back.  A list of
  approvals with an entry twice is the shortest that tells entries from tools.  Three bytes
  on a pipe of two with a window of two have output that blocks, spills and is cut.  Two
  actions of the browser have one in a session that the other left in any state; two stored
  replies are a full table.  Two turns of two calls fill a window of four messages, so the
  window cuts between a call and its result.  Two failures open a breaker of threshold one
  twice.  Histories of six messages have each kind of turn before each provider.
* *OAuth.*  Two callers and any number of callback threads have a call inside every
  other call's exchange, join or wait.  Three calls have one that begins a login or a
  refresh, one that supersedes it, and a third that resets what the second left
  behind, which is what a late answer would need.  One session and none tell attached from detached.

Deadlock is not checked: each model stops at its bounds, and the programs may end.

### Fairness

* `WsChat!FairSpec`: the top run goes on (weak fairness).  There is one thread, calls of
  the model and tools return or time out, a question has its deadline, and a wait
  that has ended is noticed by the loop.  Users need not do anything: neither
  frames nor answers are fair.
* `TuiWorker!FairSpec`: as long as the worker or a step of leaving can go on, one of
  the two does (weak fairness of their disjunction).  Model calls and tools return; the
  steps after "quit" wait for no user.  It is weaker than fairness for each thread,
  and enough for `QuitEnds`.  No fairness for keys, polls or event handling: that
  the question of a run is *shown* in the end is not claimed, and would not hold,
  since its wake-up can be lost (section 5).
* `OpenAIOAuth!FairSpec`: a call goes on, and so does a callback thread (weak fairness of each).
  Threads are scheduled, an exchange ends within curl's timeout of 30 seconds, a
  browser login within five minutes.  No caller has to make a call, and no wait ends
  by itself: a caller that is asleep is woken by a broadcast or never.
* `agent_work`, where a command moves: the tool's thread goes on and time passes (weak
  fairness of `Tool` and of `Second`).  The processes owe nothing: they may sleep, ignore
  signals that can be ignored and leave others behind.  A command that writes without a
  pause is bounded by `MaxBytes` (see `DeadlineKept` in section 5).
* `agent_work`, where the browser moves: the agent's thread and the reader go on (weak
  fairness of `BrowserCaller` and `ReadRound`).  The browser owes nothing, neither a reply
  nor an end.  A write into a full pipe of a browser that does not read has no timeout in
  the code: it is the named exception of `BrowserReturns`.

## 4. Proofs

All theorems hold for every value of the constants that satisfies the assumptions their
modules name, and TLC evaluates these on the runs.  They say that special values are no
ordinary ones (`ConstantsAssumption`, `NoSessionAssumption`, `RowAssumption`), that bounds are
naturals and what has to have room has some (`BoundsAssumption`, `RingsHoldSomething`,
`LimiterAssumption`, `ConnectionAssumption`, `ReadAssumption`, `RequestAssumption`,
`SubAssumption`), that callers and connections
are finite in number (`CallersAssumption`, `AuthAssumption`), that the sessions and files a
machine starts with are such as the program leaves (`SessionBranchAssumption`,
`StoreAssumption`, `FileToolsAssumption`: names, and trees in which each path lies in a
directory), and that lists and texts are sequences of what they are made of.

Three things are beyond the provers and stay with TLC: liveness under fairness, ENABLED, and
induction over data through the library's theorems.  Where a proof needs an induction over
numbers all the same, it takes the least counterexample (`LeastNat`, from the well-foundedness
of the naturals) and refutes it; what a recursive function is, is taken from the lemma that one
exists.

Every theorem of safety is proved in the same three steps: the initial states satisfy the
inductive invariant, each action keeps it (a lemma for each action, and in it a step for each
conjunct the action can disturb), and it implies the property.

**ServerFrontProofs, the password change.**  None of the safety properties is inductive: what
a step does depends on which files the earlier ones left.  `MigrationInv` adds to `TypeOK` and
`NeverHalfMigrated` the conjuncts `Flow` (which caller can be at which operation),
`Transaction` (under which keys the rows are that the open transaction sees), `Activation`
(what is left to do after the commit), `SaltFiles` (where the salt of the data is at each
operation), `KeyFiles` (a verifier made with the salt of the data is made with their
password), `Evidence` (without a recorded salt the rows or the verifier tell which salt is
the right one) and `FirstChange` (the files of a directory that has seen one change at
most).  `VerdictSound` is the central lemma: with the salts the invariant allows, recovery
never decides against the data, whatever password was typed.  From `MigrationInv` follow
`TypeCorrect`, `AllOrNothing`, `SaltIsKept`, `OnlyTheRightKey`, `NoFirstRun`,
`FirstChangeSafe`, `OkIsTrue` and, of both kinds of answer, `AnswersTrue`; `StepRefines`
shows step by step that each action is a step of `PasswordChange` or a stutter, and
`ChangeIsAtomic` concludes that the specification implements it.

**WsChatProofs.**  `IInv` adds to `TypeOK`: `Counted` (`active_runs` is the number of the
connection's runs on the stack, from which it follows that it never wraps), `Alone`
(two runs of a connection on the stack mean that it overlapped), `Lives` (an open
context is live), `Waits` (a run that waits, waits for the pending request), `Busy`,
`Answers` (a positive result was given for the pending request) and `Gone` (who left
or logged out has no approval left and is cancelled).  Lemmas on `RunsOf` describe
what pushing and popping a run does to the count.  Theorems: `TypeCorrect`,
`ApprovalIsOwn`, `NoUseAfterFree`, and the action property `ExpiryHolds`.

**TuiWorkerProofs.**  `IInv` adds to `TypeOK` and `QuestionHasOnePlace`: `Underway` (while
the worker is at a tool call there is one; the UI thread pushes a job it has), `QueueSound`
(an event in the ring that holds a question holds the one the worker waits on, at most one
does, and then no dialog is about it), `ModalSound` (so does an open dialog, except in the
moment between the answer and the closing, when its question must not be waited on any more)
and `PromptsSound` (what is waited on is alive, answers are counted once, later questions
have none).  The proof has two layers.  `WorkerType` and `UiType` go through all fifty
actions for the types.  For the rest, `WorkerKinds` and `UiKinds` sort the actions into ten
kinds by what they do to the questions (`Quiet`, `Tells`, `Asks`, `GoesOn`, `Handles`,
`Shows`, `Refuses`, `Decides`, `Commits`, `Closes`), and each kind is proved once to keep
the invariant (`QuietSound` and so on), to count answers (`AnswersCountOnce`) and to be a
step or a stutter of `Prompting` (`StepRefines`).  Theorems: `TypeCorrect`,
`OneAnswerPlace`, `AnswersCountOnce`, `PromiseKept`, and `CancelFindsAgent`, which needs the
types and `AgentSound` only.  Assumption: `RingsHoldSomething` (both rings have room for one
entry, bounds are naturals, jobs are of the known kinds).

`QuietInv` adds for `ChatComesToRest` (`QuietWhenIdle`) that a block of the chat that takes
text, or a tool shown as running, is followed by its end: in the ring, behind what began it, or
the worker has yet to push it (`TextSettled`, `ToolSettled`).

**OpenAIOAuthProofs.**  `IInv` adds to `TypeOK`, `CountsAgree` and `FreedLast`:
`GenerationsOld` and `LateIsOld` (no generation in use is newer than the
manager's, and whoever was superseded holds an older one), `OneLifecycle` and `OneDestroyer`
(attach, logout and cancel exclude one another, destroy is called once, and nobody goes in
uncounted after it), `DeviceApart` (the generation of a device login is no thread's) and
`ThreadsHeld` (a live thread is the joinable one of the active login, or somebody joins it).  The counters are
cardinalities of sets of callers, which are followed through each action that adds or removes
one.  Theorems: `InvariantHolds`, `ManagerIsSound`, `LateAnswersDropped` and the refinement
`KeepsKeyring`, where each critical section is a step of `Keyring` or a stutter.

**ServerFrontProofs, the front.**  `FrontInv` has a part for each machine; a step moves one of them.
*Connection*: what was read is a prefix of the request, the verdict is that of the prefix as
soon as it has one, and the frames heard are those read, in order.  *Limiter*: the property
looks at any stretch as long as a window, the code only at windows; the conjunct `Kept` bounds
what was served before the current window by what a stretch that reaches into it can still
have, and carries the proof over the reset.  *Authentication*: `HoldersAgree` is strengthened
by where the OAuth manager may be attached (nowhere or at the server's own), that an unlocked
server has a token, and that the wrong passwords in the table are those of the minute
(`Throttled`, per address and in all).  Theorems: `FrontHolds`, `LimitsKept`, `DoorIsHonest`,
`ConnectionIsSound`.

**SessionStoreProofs.**  `StoreInv`: the types of the threads at their places (`StoreTyped`,
`Stages`), what each thread's copy has to do with the row it was loaded from (`Copies`: a
beginning of it unless the thread was overtaken), that the deleted are buried (`Buried`), that
the agent is ahead of its row or overtaken (`AgentAhead`), that an exported file is behind
(`FileBehind`) and that the title is made once (`TitledOnce`).  Theorems: `StoreTypes`,
`StoreHolds` and the refinement `SessionsArchived`.
`BranchInv` is of the branches.  Its conjuncts: identifiers minted for chains and for
regenerates that are still to be answered are bounded (`IdsLeft`), and on a chain or a tab's copy
each is there once (`Chained`, `Copied`); births
follow the numbers of chains, so that the rank by birth is the rank by creation (`Born`); the
copy of a tab that is up to date follows the stored chain (`UpToDate`); a regenerate writes behind its fork, whose group it still owes
(`Writing`); every message is on some chain (`NoneLost`); and the groups that chains share,
with those that are owed, connect all chains (`Linked`), for which reachability by pills is
taken as the absence of a set of chains closed under sharing.  Theorems: `BranchHolds` and
`BranchesStay` (`BranchesKept`).

**TuiScreenProofs.**  `DialogsInv` has the types, what the two rings can hold (a result of the
worker with its kind, a job with its session), and for the one dialog what its title promises:
a list is read in the context of its title and has rows of that kind, but for the models', which
is read in whatever context it meets (`Titled`, section 5); a confirmation or an input does what
its title says to the session that was chosen (`Meant`); and there is one question at most, in
the ring or on the screen, exactly while the worker waits (`Asks1`).  Theorems: `DialogsHold`,
`DialogsAreTruthful`.

**FileToolsProofs and AgentWorkProofs.**  `ToolsInv` has a part for each machine; the part of the
files has its module, `FileToolsProofs`, and the theorems of the run are in `AgentWorkProofs`.
*Approvals* (`ApprovalInv`): every tool of the configuration is still in the array or allowed for
good, whatever "Always" freed and moved (`EntriesKept`), only while it does so an entry is freed,
and a scan it meets is marked (`RuleSound`); a scan that was not met has passed no entry of its
tool (`ScanSound`); so what runs was asked for or granted (`AskedOrAllowed`).  *Checks* (`CheckInv`).  *Commands* (`CommandInv`): what was
written is what was read and what is in the pipe (`AllThere`), the window has its end and the file,
if there is one, all of it (`WindowRight`), the end of the stream was seen only when no process of the group
held it open (`EndSeen`), and the answer comes last (`ResultLast`).  *Browser* (`BrowserInv`):
where a call is decides which requests were sent, heard and waited for (`Heard`, `Working`,
`Staged`, `Reported`).  *Files* (`FilesInv`): in the restricted mode the disk is a tree whose
directories hold what is in them, everything outside `Root` is as it was, and every path that a
stack or a call holds is below the root with no link on it.  The point is the last one: a path
is resolved once and used later, after the user, an undo or a stop changed the tree; it stays
good because nobody within the model makes links, which the lemmas on `Realpath` and `Resolve`
use for every length of a path.  `HonestInv` is about what the files hold, in both policies: the
newest entries of the undo stack lead, one by one, from the files there are through the files
there were before each write that can be undone, and those of the redo stack through the files
before each undo (`Chain`: the entry's file is there, and with the entry's text in it the files are the
next ones back); while a write is on its way that holds of the files it is about to make.  More
directories and other texts leave every file where it was found (`FoundStays`), so an entry that
leads back goes on doing so while others are pushed, popped, dropped at the bottom or tried and
failed (`ChainPush`, `ChainPop`, `ChainNewest`, `ChainCut`).  In the TUI an undo comes between the
snapshot and the write, and none of it need hold: there only an edit's wholeness is claimed.  The
proof showed that a redo entry, which is a C string, takes a file with a NUL forward only up to the
NUL (`HoldsNul`): the property now says so, and the run writes such a file.  Theorems: `GatesStand`,
`CommandsSound`, `WorkspaceKept`, `FilesWound`.

`HistoriesInv` is of the conversations with a model.  *The request to Codex* (`RequestInv`, of
histories held with Codex and with compatible streams, the ones the property is about): every
message fits at its place (`AllFit`: an answer follows its call and is the only one, a call has
a name that no call before it has), the names of calls are below the next fresh one, and the
calls that are waited for are those of the last message (`Goes`).  That the request built of it
answers each call once is a statement about a concatenation, proved for every number of parts
(`ChainHas`, `ChainFinds`: each part has a place in the whole, and each place is of a part) with
the shape of the items of one message (`SpeechShaped`).  *The sub-agent* (`SubInv`): unless
memory ran out, behind every message with calls stand as many results as have been answered
(`IsAnswered`), and the turns taken and left make up those asked for.  Theorem: `HistoriesKept`.

**Only model-checked.**  Liveness: `Drains`, `QuitEnds`, `CallsEnd`, `CommandsEnd`.  What the
pure algorithms compute for every input, which is induction over the input: `TextsSound` (edits
and diffs by folds, over texts of any length), `ScreenRight` (wrapping, layout and filters),
`StreamsSound` (replies put together by folds and recursive texts), and of `TurnsSound` the
window (`WindowSound`: three passes over the messages).  `InputKept` (drafts, keys and recents)
and `BreakerHolds` and `ShownOfThisTurn` are of bounded state machines
whose invariants are as large as those above, and are left to TLC.


## 5. Where code and text disagree

Each is a run whose counterexample is the shortest way there.

1. `quiet_vault_opens`.  `migration_finalize_recovery` undoes by restoring the salt and
   only then removes `.verifier.new`.  Interrupted in between, on a database that
   records an earlier change, the next recovery takes the restored salt for a
   commit and promotes the aborted verifier: the password is refused for good.
   `migration.h:24` says the pair "always ends up consistent".
2. `no_approval_bypass`.  A message sent while a tool waits for approval starts a run
   inside the wait; both share the approval flags, so approving the inner call
   releases the outer one.  `server/README.md` has frames "serialized per
   connection", `safety/README.md` "no approval bypass".
3. `never_on_header`.  Up at the first row below a list's first header is clamped onto that
   header (`tui_dialogs.c:302`), although the comment above says "never rest on a header
   row"; the next frame's move by 0 from a header never leaves its loop, and the terminal
   hangs.
4. `reads_what_it_kept`.  `apply_context_window` takes the smaller of count and
   `max_messages` for the number of messages that were selected (`context.c:397`); fewer are
   when a tool's message brought its assistant along, and the trimming goes on behind the
   end.  `context.h:36` says "on return the number kept".

Claims that the modules state, that fail in the same way and are not among the runs (name one as
the property of the component's `.cfg` to see its trace).  The comment at each says where the
program's text has it and what happens instead.

| Claim | Said at | What happens |
|---|---|---|
| `PasswordMigration!RecoveryDecides` | `migration.h:23` | The salt is created before it is written.  A stop in between, in the first change, leaves an empty salt that no password gets recovery past, although `salt.old` holds the only salt committed. |
| `WsChat!LogoutEndsRuns` | `routes_ws.h:39` | A logout between two approvals of one response leaves a run that waits without a deadline for an answer that is refused to expired connections. |
| `SessionBranch!MessageKeepsForks` | `session_branch.c` (the marker is "re-applied") | The tag of a regenerated answer is on the stored message only; the tab's next message saves the untagged copy and the pill is gone. |
| `SessionBranch!PillLeadsToNeighbour` | web page | `branch_ids` is in the order chains left live, positions are by creation: after edit, switch back and edit again, "previous" leads two back. |
| `SessionStore!DeletionReported` | `session_manager.h:167` | The worker takes 0 for success (`tui_worker.c:496`): the user is told of a deletion when no row was there, and of a failure when one was deleted. |
| `TuiWorker!WakeForEvents` | `tui_events.h` | The pipe is drained after the ring was found empty; an event pushed in between waits without a wake-up. |
| `TuiWorker!ChunksShown` | `TUI_MIGRATION_PLAN.md:136` | With a message typed ahead, the first chunks of its reply meet a sealed block at the end of the chat and are dropped. |
| `OpenAIOAuth!TransientIsRetryable` | `openai_oauth.h:150` | A device poll answered with 408, 425, 429 or 5xx returns TRANSIENT, "call again later", but ends the login. |
| `OpenAIOAuth!StartReturns` | `openai_oauth.h` | A start waits for `callback_ready`, which a cancel or a second start that races it takes away: it waits for ever.  The program starts logins from one thread. |
| `OpenAIOAuth!OkHasToken` | `openai_oauth.h` | A call that wakes in a manager stopped since returns the refresh's OK without a token.  The callers check both. |
| `TuiDialogs!ModelsAreModels` | `tui_cmd.c:781` | A list of models that comes while another dialog is open is read in that dialog's context. |
| `TuiDialogs!EscapeCancels` | `tui_dialogs.c:438` | Escape in the dialog for a path or a name ends it as Enter does: what is typed is submitted. |
| `TuiDialogs!NoStaleModels` | `tui_picker.c:317` | Models of the provider left are offered, and taken, for the next. |
| `TuiTranscript!RepliesShown`, `EditHitsChosen` | `tui.c`, `tui_worker.c` | A reply behind a message typed ahead is not shown whole; a fork of such a pane hits another message. |
| `TuiKeys!KeysHaveCommands`, `SpecsNotCut`, `CoverDisarms` | `tui.c:609`, `tui_keys.h:69`, `:184` | Two default keys name no command; alternatives after the fourth are dropped; a dialog does not end a chord. |
| `TuiRecents!CycleMeetsAll` | `tui_cmd.c:1045` | From three models on F2 goes back and forth between two. |
| `TuiLayout!TopClamped`, `TopRowIsTop`, `PlanesApart` | `tui_chat.h:374`, `tui_picker.c:739`, `tui.c:146` | A pinned pane that got shorter is drawn blank; behind a separator a click is a row off; on short terminals the chat's row is under the bar. |
| `Approvals!GateThreadSafe` | `safety.h:231` | A scan during "Always" for another tool misses the entry that moved up. |
| `Approvals!AlwaysMeansAlways`, `EmptyAsksNothing` | `tui_cmd.c:1186`, `config.conf.example:166` | A tool listed twice is asked for again; an empty list falls back on the default one. |
| `TextEdit!RemovalExact`, `RestKept` | `edit.c:409`, `:803` | The diff of a removal that begins inside a line does not add up; mixed line ends are made one, a NUL ends the file. |
| `FileTools!EveryChangeUndoable`, `RedoUndone` | `change_tracker/README.md:8`, `change_tracker.h:82` | An edit and a new file have no undo entry; an undo behind a redo changes nothing; a redo of a file with a NUL ends at it. |
| `ReadWindow!ReadsOriginal`, `HintReaches` | `read_file.c:210`, `:235` | A NUL ends what is read; the limit on results takes the hint away. |
| `CommandRun!DeadlineKept`, `PythonComesBack` | `bash.c:345`, `python_execute.c:97` | The time is looked at only when the pipe is empty; a process that keeps Python's output open is waited for. |
| `Browser!FirstActs`, `OpenIsUsable`, `LastWordsHeard`, `OnlyOwnSignalled`, `OneTab`, `ButtonReleased`, `CallTimesOut` | `tool_browser.c:52`, `browser.h:58`, `cdp.c:211`, `browser.h:60`, `:97`, `browser.c:1103`, `cdp.h:74` | The first action only opens the window; a dead session counts as open; a hang-up is seen before the last replies; a reaped child is signalled; a tab whose attaching failed is made again; a button can stay pressed; the write before a wait has no timeout. |
| `AgentCall!NoOldCalls`, `QuestionSent`, `ToolsAnswerCalls` | `agent_run.c:131`, `context.c:297`, `:201` | A buffered run shows calls of an earlier turn; the window can drop the question asked, and leave a result behind another call. |
| `OllamaStream!LastLineCounts`, `ThinkingCloses` | `ollama.c:295`, `tui_stream.h:2` | The calls of a last line without an end are dropped; thinking at the end of a stream stays open. |
| `CodexRequest!AnyHistoryGoesOn` | `llm/README.md:8` | A history with an answer without content or calls without ids is refused by Codex. |
| `StreamClassifier!NoTextLost` | `tui_stream.c:127` | Parts beyond the worker's array are dropped. |
| `SubAgent!SubAgentWhole` | `tool_delegate.c:312` | A result that finds no memory leaves its call without one. |

Smaller ones without a definition: the comment at `session_branch.c:64-67` says a fork "mints
a fresh group" while `branch_do_fork` joins the group of the fork point; a
pre-fork message without an id gets the same id as its fork copy
(`session_branch.c:398-403`); the logout route locks a server whose authentication is off
(`routes_general.c:30`).

## 6. Not modelled

* *Text without events*: HTML, JSON, decoding of tokens (OAuth parsing), drawing beyond rows
  and columns, wording of prompts, titles and summaries, logging, metrics; copying and
  freeing of messages.
* *One statement or one request*: user memory (one SQL statement each, under SQLite's own
  lock), catalogs of models, `list_dir`, `grep`, `glob`, `git` and the search, web and data
  tools (they ask a foreign service or a program and print what it says), the reading of the
  configuration at start, the table of tools.
* *Memory*: a failing allocation is an error path like others where the code treats it as
  one, and otherwise left out.  Data races are modelled where their outcomes differ (the
  agent's pointer, the approval list).
* *Two programs on one directory*: files that are rewritten in place by a second process.

Two hazards of `PROJECT.json` have no property.  A frame that replaces the messages of a run
that waits (`routes_ws_handlers.c:336`) is met by nothing in the code, so that a property
could only fail; and a wake-up of the UI thread can be lost (`tui.c:529`), which
`WakeForEvents` shows.

Known to be delicate, met while reading, without a model so far: two processes that open a
fresh directory together (`session_manager.c:480`, the loser of the race unlinks the other's
files); a stop in the middle of the first run (`session_manager.c:409`); an agent of a "new"
job, which has none of the callbacks for questions (`tui_worker.c:199`); the second look at
the struct by a start, which asks for `callback_active` but not for `lifecycle_busy`
(`openai_oauth.c:175`), so that a login may begin while an attach waits; a failing start
whose cleanup clears the login of another (`openai_oauth.c:231`); the legacy evidence, which
looks at session rows only (`migration.c:254`); a run started inside a wait resets the stop
meant for the outer one, whose scope is said nowhere (`agent_run.c:362`), and takes away the
process-wide ask_user callback (`agent_tools.c:103`); nested waits of different users hold
each other up; the read loop goes on with the rest of its buffer after a nested loop may
have freed the client (`websocket.c:313`), and the ping timer's handle is never closed
(`websocket.c:143`); branch births are local time, which goes back in autumn
(`session_branch.c:96`), and a group counts 64 chains at most (`session_branch_info.c:26`, the constant `MaxCounted`);
a device login does not look at the cancel flag (`tui_worker.c:699`); a provider that is
switched keeps the old model's name (`agent.c`); a popped stash overwrites the draft that is
typed.

## 7. Plan

Done, in this order: vault, chat, branches, terminal threads, OAuth (first what can lose the
user's data for good, then what can run a tool nobody approved, then what can lose part of a
conversation, then the threads); then the store with its callers, the server's front, the
screen, the tools with the browser, and the model's side.  The proofs followed the same order,
and every component above has at least its most important safety property proved.

Next, most important first.

1. `AgentCall`: `BreakerHolds` and `ShownOfThisTurn`.
2. `TuiPrompt`: `DraftsSafe`; `TuiTranscript`: `NothingMisplaced`.

Candidates for models: the loading of tools and the agent's set-up in `main.c`, the catalogs of
models with their cache, `ingest_document`, and the summary.
