----------------------------- MODULE TuiDialogs -----------------------------
(***************************************************************************)
(* The dialogs of the terminal UI (src/tui/tui_picker.c, the commands of      *)
(* tui_cmd.c that open one, the keys of tui.c that close one) and the jobs    *)
(* they hand to the worker (tui_worker.c).                                  *)
(*                                                                         *)
(* One modal is open at most.  What Enter means in it is not in the modal:    *)
(* a picker is read by app->picker_context, a confirmation or an input by     *)
(* confirm_action or input_action and menu_session_id, all of which outlive   *)
(* the modal.  The list of models comes in an event, after its request.       *)
(*                                                                         *)
(* Left out: the filter and the cursor (TuiPicker), failing allocations, the  *)
(* chat pane (TuiTranscript), the worker's own steps (TuiWorker): it takes    *)
(* jobs one by one, a run alone lasts, and may ask the user.                  *)
(***************************************************************************)
EXTENDS Integers, Sequences, FiniteSets

CONSTANTS Ids,        \* session ids
          Providers,  \* providers, each with one model of its own name
          MaxKeys,    \* bound: what the user does, leaving the quit dialog apart
          MaxJobs,    \* bound: jobs that wait
          MaxRuns     \* bound: runs

NoValue == "none"
ASSUME DialogsAssumption ==
  /\ MaxKeys \in Nat /\ MaxJobs \in Nat /\ MaxRuns \in Nat
  /\ NoValue \notin Ids \cup Providers

VARIABLES
  modal,      \* app->modal: its kind, what its title says, its rows
  context,    \* app->picker_context
  onInput,    \* app->input_action
  onConfirm,  \* app->confirm_action
  target,     \* app->menu_session_id
  deferred,   \* app->menu_action: change the password
  listed,     \* app->pending_models: the provider whose models wait to be shown
  jobs, evs,  \* the rings
  busy,       \* the worker: idle, in a run, or asking the user in one
  agent,      \* the agent's provider and model
  recent,     \* models the store knows: used before, or favorites
  stored,     \* sessions of the store
  runs, keys, \* runs begun, and what the user did
  chosen,     \* the session of the row the user took last (not in the code)
  slipped     \* Escape submitted a job (not in the code)
asked == <<onInput, onConfirm, target, chosen, slipped>>
dialogs == <<modal, context, asked, deferred, listed, jobs, evs, busy, agent, recent, stored, runs, keys>>

MenuItems == {"provider", "effort", "password", "delete", "load", "theme", "export", "rename"}
SessionDialogs == {"load", "delete", "export", "rename"}
Commands == {"menu", "model", "theme", "load", "status", "fork"}
Levels == {"default", "high"}
Infos == {"line"}
Styles == {"dark", "light"}
Positions == {1}
Contexts == {NoValue, "provider", "model", "menu", "effort", "theme", "command", "status", "fork"} \cup SessionDialogs
JobNames == {"run", "provider", "model-list", "model", "effort", "load", "delete", "export", "rename", "regen", "change-password"}
Job(name, arg) == [job |-> name, arg |-> arg]
Event(name, arg) == [event |-> name, arg |-> arg]

NoModal == [kind |-> NoValue, title |-> NoValue, rows |-> {}]
Picker(title, rows) == [kind |-> "picker", title |-> title, rows |-> rows]
Question == [kind |-> "ask", title |-> "ask", rows |-> {}]
QuitDialog == [kind |-> "quit", title |-> "quit", rows |-> {}]

DialogsInit ==
  /\ modal = NoModal /\ context = NoValue /\ onInput = NoValue /\ onConfirm = NoValue
  /\ target = NoValue /\ deferred = FALSE /\ listed = NoValue
  /\ jobs = <<>> /\ evs = <<>> /\ busy = "idle"
  /\ \E p \in Providers : agent = [provider |-> p, model |-> p]
  /\ recent = {} /\ stored = Ids /\ runs = 0 /\ keys = 0 /\ chosen = NoValue /\ slipped = FALSE

DialogsTypeOK ==
  /\ modal.kind \in {NoValue, "picker", "input", "confirm", "ask", "quit"}
  /\ context \in Contexts /\ deferred \in BOOLEAN
  /\ onInput \in {NoValue, "export", "rename"} /\ onConfirm \in {NoValue, "delete"}
  /\ target \in Ids \cup Providers \cup {NoValue} /\ listed \in Providers \cup {NoValue}
  /\ \A i \in DOMAIN jobs : jobs[i].job \in JobNames
  /\ busy \in {"idle", "run", "ask"} /\ agent \in [provider : Providers, model : Providers]
  /\ recent \subseteq Providers /\ stored \subseteq Ids

(***************************************************************************)
(* Jobs.                                                                    *)
(***************************************************************************)
\* While a run goes on, all jobs but another run are refused; no list has both.
Accepts(j) == busy = "idle" \/ j.job = "run"
Submitted(js) == IF \A i \in DOMAIN js : Accepts(js[i]) THEN jobs \o js ELSE jobs
Submit(js) == Len(jobs) + Len(js) <= MaxJobs /\ jobs' = Submitted(js)

TakeJob(name) ==
  /\ busy = "idle" /\ jobs # <<>> /\ Head(jobs).job = name /\ jobs' = Tail(jobs)
  /\ UNCHANGED <<modal, context, asked, deferred, listed, keys>>
Arg == Head(jobs).arg
Tell(name, arg) == evs' = Append(evs, Event(name, arg))

JobRun ==
  /\ TakeJob("run") /\ runs < MaxRuns /\ runs' = runs + 1 /\ busy' = "run"
  /\ UNCHANGED <<evs, agent, recent, stored>>
\* agent_set_provider may fail, and keeps the model when it does not.
JobProvider ==
  /\ TakeJob("provider")
  /\ \/ agent' = [agent EXCEPT !.provider = Arg]
     \/ agent' = agent
  /\ UNCHANGED <<evs, busy, recent, stored, runs>>
JobModel ==
  /\ TakeJob("model") /\ agent' = [agent EXCEPT !.model = Arg] /\ Tell("model", Arg)
  /\ UNCHANGED <<busy, recent, stored, runs>>
\* The models of the provider the agent has, or none.
JobModelList ==
  /\ TakeJob("model-list") /\ \E p \in {agent.provider, NoValue} : Tell("models", p)
  /\ UNCHANGED <<busy, agent, recent, stored, runs>>
JobDelete ==
  /\ TakeJob("delete") /\ \E gone \in {{}, {Arg}} : stored' = stored \ gone
  /\ UNCHANGED <<evs, busy, agent, recent, runs>>
\* Load, export, rename, effort, regenerate, change the password: what they do
\* changes no dialog; regenerate begins a run when it finds its message.
JobElsewhere ==
  /\ jobs # <<>> /\ TakeJob(Head(jobs).job)
  /\ Head(jobs).job \in {"effort", "load", "export", "rename", "regen", "change-password"}
  /\ UNCHANGED <<evs, busy, agent, recent, stored, runs>>

Asks ==
  /\ busy = "run" /\ busy' = "ask" /\ Tell("ask", NoValue)
  /\ UNCHANGED <<modal, context, asked, deferred, listed, jobs, agent, recent, stored, runs, keys>>
RunEnds ==
  /\ busy = "run" /\ busy' = "idle"
  /\ UNCHANGED <<modal, context, asked, deferred, listed, jobs, evs, agent, recent, stored, runs, keys>>

(***************************************************************************)
(* Opening.  An empty list opens nothing: a notice is put in the chat.       *)
(***************************************************************************)
\* Mutant of Show: a context that is left from before is kept.
ShowOld(title, rows, meaning, before) ==
  IF rows = {} THEN modal' = NoModal /\ context' = before
  ELSE modal' = Picker(title, rows) /\ context' = IF before = NoValue THEN meaning ELSE before
\* Opens a picker, or leaves none open and the context as it was.
Show(title, rows, meaning, before) ==
  IF rows = {} THEN modal' = NoModal /\ context' = before
  ELSE modal' = Picker(title, rows) /\ context' = meaning
OpenSessionPicker(what, before) == Show(what, stored, what, before) /\ UNCHANGED listed
\* Models the server did not send now are shown too: the store has them.
OpenModelPicker(before) ==
  /\ IF listed = NoValue THEN modal' = NoModal /\ context' = NoValue
     ELSE modal' = Picker("model", recent \cup {listed}) /\ context' = before
  /\ listed' = NoValue
OpenProviderPicker(before) == Show("provider", Providers, "provider", before) /\ listed' = NoValue
OpenEffortPicker(before) == Show("effort", Levels, "effort", before) /\ UNCHANGED listed

\* What a command of the palette or of a key opens.
Command(c, before) ==
  CASE c = "menu" -> Show("menu", MenuItems, "menu", before) /\ UNCHANGED listed
    [] c = "theme" -> Show("theme", Styles, "theme", before) /\ UNCHANGED listed
    [] c = "load" -> OpenSessionPicker("load", before)
    [] c = "status" -> Show("status", Infos, "status", before) /\ UNCHANGED listed
    [] c = "fork" -> Show("fork", Positions, "fork", before) /\ UNCHANGED listed
    [] c = "model" -> IF listed # NoValue THEN OpenModelPicker(before) ELSE OpenProviderPicker(before)

Ui == UNCHANGED <<busy, agent, stored, runs>>
Key == keys < MaxKeys /\ keys' = keys + 1 /\ Ui /\ UNCHANGED <<evs, recent>>
Free == modal = NoModal

\* A bound key.
PressCommand ==
  \E c \in Commands :
    /\ Free /\ Key /\ Command(c, context) /\ UNCHANGED <<asked, deferred, jobs>>
PressPalette ==
  /\ Free /\ Key /\ Show("command", Commands, "command", context)
  /\ UNCHANGED <<asked, deferred, listed, jobs>>
PressQuit ==
  /\ Free /\ Key /\ modal' = QuitDialog
  /\ UNCHANGED <<context, asked, deferred, listed, jobs>>
\* A line of text begins a run, or is a command with its argument.
Typed == {Job("run", NoValue)} \cup {Job("provider", p) : p \in Providers} \cup {Job("delete", s) : s \in Ids}
TypeLine ==
  /\ Free /\ Key /\ \E j \in Typed :
       /\ Submit(<<j>>)
       /\ chosen' = IF j.job = "delete" THEN j.arg ELSE chosen
  /\ UNCHANGED <<modal, context, onInput, onConfirm, target, slipped, deferred, listed>>
\* At the top of the loop, once the menu is closed: two prompts for a password.
ChangePassword ==
  /\ deferred /\ Free /\ deferred' = FALSE
  /\ \/ busy = "idle" /\ Submit(<<Job("change-password", NoValue)>>)
     \/ UNCHANGED jobs
  /\ UNCHANGED <<modal, context, asked, listed, evs, recent, keys>> /\ Ui

(***************************************************************************)
(* Closing.                                                                 *)
(***************************************************************************)
In(kind) == modal.kind = kind
Shut == modal' = NoModal

\* The next dialog of the menu, when the menu is closed: none for the row of
\* another list that is read as the menu's.
MenuSelect(row) ==
  CASE row = "provider" -> OpenProviderPicker(context) /\ UNCHANGED deferred
    [] row = "effort" -> OpenEffortPicker(context) /\ UNCHANGED deferred
    [] row = "theme" -> Show("theme", Styles, "theme", context) /\ UNCHANGED <<deferred, listed>>
    [] row = "password" -> Shut /\ context' = NoValue /\ deferred' = TRUE /\ UNCHANGED listed
    [] row \in SessionDialogs -> OpenSessionPicker(row, context) /\ UNCHANGED deferred
    [] OTHER -> Shut /\ context' = NoValue /\ UNCHANGED <<deferred, listed>>

\* Mutant of Asking: a session that is left from before is kept.
AskingOld(row) ==
  /\ target' = IF target = NoValue THEN row ELSE target
  /\ chosen' = row /\ context' = NoValue /\ UNCHANGED slipped
  /\ IF context = "delete" THEN /\ modal' = [kind |-> "confirm", title |-> "delete", rows |-> {}]
                                /\ onConfirm' = "delete" /\ UNCHANGED onInput
     ELSE /\ modal' = [kind |-> "input", title |-> context, rows |-> {}]
          /\ onInput' = context /\ UNCHANGED onConfirm
\* A session was chosen: ask for more about it.  The picker is replaced.
Asking(row) ==
  /\ target' = row /\ chosen' = row /\ context' = NoValue /\ UNCHANGED slipped
  /\ IF context = "delete" THEN /\ modal' = [kind |-> "confirm", title |-> "delete", rows |-> {}]
                                /\ onConfirm' = "delete" /\ UNCHANGED onInput
     ELSE /\ modal' = [kind |-> "input", title |-> context, rows |-> {}]
          /\ onInput' = context /\ UNCHANGED onConfirm


\* The jobs of a row that closes the picker and opens nothing.
Effect(row) ==
  CASE context = "provider" -> <<Job("provider", row), Job("model-list", NoValue)>>
    [] context = "model" -> <<Job("model", row)>>
    [] context = "effort" -> <<Job("effort", row)>>
    [] context = "load" -> <<Job("load", row)>>
    [] context = "fork" -> <<Job("regen", row)>>
    [] OTHER -> <<>>

CommitRow ==
  \E row \in modal.rows :
    /\ In("picker") /\ Key
    /\ CASE context = "menu" -> MenuSelect(row) /\ UNCHANGED <<asked, jobs>>
         [] context = "command" /\ row \in Commands ->
              Command(row, NoValue) /\ UNCHANGED <<asked, deferred, jobs>>
         [] context \in {"delete", "export", "rename"} ->
              Asking(row) /\ UNCHANGED <<deferred, listed, jobs>>
         [] OTHER ->
              /\ Shut /\ Submit(Effect(row))
              /\ context' = IF context = "provider" THEN "model" ELSE NoValue
              /\ target' = IF context = "load" THEN NoValue ELSE target
              /\ UNCHANGED <<onInput, onConfirm, chosen, slipped, deferred, listed>>
\* Escape, or Enter when the filter leaves no row.
CommitNothing ==
  /\ In("picker") /\ Key /\ Shut /\ context' = NoValue
  /\ target' = NoValue /\ onInput' = NoValue /\ onConfirm' = NoValue
  /\ UNCHANGED <<chosen, slipped, deferred, listed, jobs>>

\* A path or a name: an empty text cancels.  Escape cancels too by the comment in
\* tui_modal_dispatch_key, but it ends the dialog as Enter does, and input_commit
\* takes the text that is there.
CommitInput ==
  /\ In("input") /\ onInput # NoValue /\ Key /\ Shut /\ onInput' = NoValue /\ target' = NoValue
  /\ \/ target # NoValue /\ Submit(<<Job(onInput, target)>>)
     \/ UNCHANGED jobs
  /\ \E key \in {"enter", "escape"} : slipped' = (slipped \/ (key = "escape" /\ jobs' # jobs))
  /\ UNCHANGED <<context, onConfirm, chosen, deferred, listed>>
CommitConfirm ==
  /\ In("confirm") /\ onConfirm # NoValue /\ Key /\ Shut /\ onConfirm' = NoValue /\ target' = NoValue
  /\ \/ target # NoValue /\ Submit(<<Job("delete", target)>>)
     \/ UNCHANGED jobs
  /\ UNCHANGED <<context, onInput, chosen, slipped, deferred, listed>>
\* The user answers the worker.
Answer ==
  /\ In("ask") /\ keys < MaxKeys /\ keys' = keys + 1 /\ Shut /\ busy' = "run"
  /\ UNCHANGED <<context, asked, deferred, listed, jobs, evs, agent, recent, stored, runs>>
DismissQuit ==
  /\ In("quit") /\ Shut /\ UNCHANGED <<context, asked, deferred, listed, jobs, evs, recent, keys>> /\ Ui
\* Mutant of CtrlC: the question it takes the place of is not answered.
CtrlCMute ==
  /\ ~Free /\ keys < MaxKeys /\ keys' = keys + 1 /\ modal' = QuitDialog
  /\ UNCHANGED <<busy, context, asked, deferred, listed, jobs, evs, agent, recent, stored, runs>>
\* Ctrl-C in a dialog: a question is declined, and the dialog becomes the one
\* that asks whether to quit.  What Enter would have meant stays behind.
CtrlC ==
  /\ ~Free /\ keys < MaxKeys /\ keys' = keys + 1 /\ modal' = QuitDialog
  /\ busy' = IF In("ask") THEN "run" ELSE busy
  /\ UNCHANGED <<context, asked, deferred, listed, jobs, evs, agent, recent, stored, runs>>

(***************************************************************************)
(* Events.                                                                  *)
(***************************************************************************)
Next(e) == evs # <<>> /\ Head(evs).event = e /\ evs' = Tail(evs)
NoKey == UNCHANGED <<asked, deferred, jobs, agent, stored, runs, keys>>
Arrived == Head(evs).arg

\* The list replaces the one that waits; it opens when the picker of models was
\* asked for and no other dialog is open.
HandleModels ==
  /\ Next("models")
  /\ IF context = "model" /\ Free
     THEN /\ modal' = IF Arrived = NoValue THEN NoModal ELSE Picker("model", recent \cup {Arrived})
          /\ context' = IF Arrived = NoValue THEN NoValue ELSE context
          /\ listed' = NoValue
     ELSE listed' = Arrived /\ UNCHANGED <<modal, context>>
  /\ UNCHANGED <<busy, recent>> /\ NoKey
HandleModel ==
  /\ Next("model") /\ recent' = recent \cup {Arrived}
  /\ UNCHANGED <<modal, context, listed, busy>> /\ NoKey
\* A question that finds a dialog open is declined.
HandleAsk ==
  /\ Next("ask")
  /\ IF Free THEN modal' = Question /\ UNCHANGED busy
     ELSE busy' = "run" /\ UNCHANGED modal
  /\ UNCHANGED <<context, listed, recent>> /\ NoKey

DialogsNext ==
  \/ JobRun \/ JobProvider \/ JobModel \/ JobModelList \/ JobDelete \/ JobElsewhere \/ Asks \/ RunEnds
  \/ PressCommand \/ PressPalette \/ PressQuit \/ TypeLine \/ ChangePassword
  \/ CommitRow \/ CommitNothing \/ CommitInput \/ CommitConfirm \/ Answer \/ DismissQuit \/ CtrlC
  \/ HandleModels \/ HandleModel \/ HandleAsk

(***************************************************************************)
(* Properties.                                                              *)
(***************************************************************************)
\* Enter does what the open dialog says: a picker is read as its title has it,
\* a confirmation or an input is about the session of the row that led to it.
\* (The picker of models is the exception, see ModelsAreModels.)
ActsAsShown ==
  /\ In("picker") /\ modal.title # "model" => context = modal.title
  /\ In("confirm") => onConfirm = modal.title /\ target = chosen
  /\ In("input") => onInput = modal.title /\ target = chosen

\* The worker waits for an answer exactly while its question is in the ring or
\* on the screen: none is covered by another dialog, none is answered twice.
QuestionShown ==
  LET Waiting == {i \in DOMAIN evs : evs[i].event = "ask"} IN
  /\ busy = "ask" <=> (In("ask") \/ Waiting # {})
  /\ Cardinality(Waiting) + (IF In("ask") THEN 1 ELSE 0) <= 1

\* The row of a picker of models is taken for a model.  open_model_picker sets
\* no context, and cmd_model_menu calls it for a list that came while another
\* dialog was open: Enter does nothing, or what that context says.
ModelsAreModels == In("picker") /\ modal.title = "model" => context = "model"

\* Escape cancels a dialog: it submits nothing.
EscapeCancels == ~slipped

\* A stale list of a previous provider does not leak into the next picker.
NoStaleModels == In("picker") /\ modal.title = "model" /\ jobs = <<>> => agent.provider \in modal.rows
=============================================================================
