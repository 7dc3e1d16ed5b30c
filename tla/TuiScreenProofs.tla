--------------------------- MODULE TuiScreenProofs ---------------------------
(***************************************************************************)
(* Proofs about the dialogs of the terminal UI for any sessions and         *)
(* providers: what Enter does is what the open dialog says, and the question *)
(* the worker waits with is in the ring or on the screen, once.              *)
(*                                                                         *)
(* First what the rings hold and how an event moves through its ring; then   *)
(* what a list that opens looks like; then one lemma for each group of       *)
(* actions: the worker's, the user's with no dialog open, a row taken, a      *)
(* dialog closed, an event handled.                                         *)
(***************************************************************************)
EXTENDS MCTuiScreen, SequenceTheorems, FiniteSetTheorems, TLAPS

-----------------------------------------------------------------------------
(* The dialogs: what Enter does is what the dialog says                     *)
\* The jobs and the events there are, and the rows of a list by its title.
Args == Ids \cup Providers \cup Levels \cup Positions \cup {NoValue}
JobsThere == [job : JobNames \ {"provider", "model"}, arg : Args] \cup [job : {"provider", "model"}, arg : Providers]
EventsThere == [event : {"ask", "models"}, arg : Providers \cup {NoValue}] \cup [event : {"model"}, arg : Providers]
RowsOf(title) ==
  CASE title = "provider" -> Providers
    [] title \in SessionDialogs -> Ids
    [] title = "effort" -> Levels
    [] title = "fork" -> Positions
    [] title = "menu" -> MenuItems
    [] title = "command" -> Commands
    [] title = "theme" -> Styles
    [] title = "status" -> Infos
    [] OTHER -> {}
\* A list is read by its title; only the models' is read as it happens.
Titled(m, c) ==
  m.kind = "picker" =>
    \/ m.title = "model" /\ m.rows \subseteq Providers
    \/ m.title # "model" /\ c = m.title /\ m.rows \subseteq RowsOf(m.title)
Meant ==
  /\ In("confirm") => onConfirm = modal.title /\ target = chosen
  /\ In("input") => onInput = modal.title /\ target = chosen
\* One question waits at most, and the worker with it.
Asks1(q, m, b) ==
  /\ b = "ask" <=> (m.kind = "ask" \/ \E i \in DOMAIN q : q[i].event = "ask")
  /\ m.kind = "ask" => \A i \in DOMAIN q : q[i].event # "ask"
  /\ \A i, j \in DOMAIN q : q[i].event = "ask" /\ q[j].event = "ask" => i = j
DialogsInv ==
  /\ DialogsTypeOK /\ jobs \in Seq(JobsThere) /\ evs \in Seq(EventsThere)
  /\ Titled(modal, context) /\ Meant /\ Asks1(evs, modal, busy)

\* A job and an event are what they say (tui_worker.h).
LEMMA JobsThereAre ==
  /\ \A j \in JobsThere : j.job \in JobNames /\ (j.job \in {"provider", "model"} => j.arg \in Providers)
  /\ \A n \in JobNames \ {"provider", "model"}, a \in Args : Job(n, a) \in JobsThere
  /\ \A n \in {"provider", "model"}, a \in Providers : Job(n, a) \in JobsThere
<1>1. \A j \in JobsThere : j.job \in JobNames /\ (j.job \in {"provider", "model"} => j.arg \in Providers)
  BY DEF JobsThere, JobNames
<1>2. \A n \in JobNames \ {"provider", "model"}, a \in Args : Job(n, a) \in JobsThere
  BY DEF JobsThere, Job
<1>3. \A n \in {"provider", "model"}, a \in Providers : Job(n, a) \in JobsThere
  BY DEF JobsThere, Job
<1>4. QED
  BY <1>1, <1>2, <1>3
LEMMA EventsThereAre ==
  /\ \A e \in EventsThere : /\ e.event = "model" => e.arg \in Providers
                            /\ e.arg \in Providers \cup {NoValue}
  /\ \A n \in {"ask", "models"}, a \in Providers \cup {NoValue} : Event(n, a) \in EventsThere /\ Event(n, a).event = n
  /\ \A a \in Providers : Event("model", a) \in EventsThere /\ Event("model", a).event = "model"
  BY DEF EventsThere, Event

\* An event behind the others, and the first one taken.
LEMMA SendIs ==
  ASSUME NEW q \in Seq(EventsThere), NEW e \in EventsThere
  PROVE  /\ Append(q, e) \in Seq(EventsThere) /\ DOMAIN Append(q, e) = DOMAIN q \cup {Len(q) + 1}
         /\ Len(q) + 1 \notin DOMAIN q /\ Append(q, e)[Len(q) + 1] = e
         /\ \A i \in DOMAIN q : Append(q, e)[i] = q[i]
  OBVIOUS
LEMMA OthersAsk ==
  ASSUME NEW q \in Seq(EventsThere), NEW e \in EventsThere, e.event # "ask", NEW m, NEW b, Asks1(q, m, b)
  PROVE  Asks1(Append(q, e), m, b)
<1>0. Append(q, e) \in Seq(EventsThere)
  BY SendIs
<1>1. PICK r \in Seq(EventsThere) : r = Append(q, e) /\ DOMAIN r = DOMAIN q \cup {Len(q) + 1} /\ r[Len(q) + 1] = e
                                    /\ \A i \in DOMAIN q : r[i] = q[i]
  BY <1>0, SendIs
<1>2. \A i \in DOMAIN r : r[i].event = "ask" => i \in DOMAIN q /\ q[i].event = "ask"
  BY <1>1
<1>3. \A i \in DOMAIN q : q[i].event = "ask" => i \in DOMAIN r /\ r[i].event = "ask"
  BY <1>1
<1>4. Asks1(r, m, b)
  BY <1>2, <1>3 DEF Asks1
<1>5. QED
  BY <1>1, <1>4
LEMMA TakeIs ==
  ASSUME NEW q \in Seq(EventsThere), q # <<>>
  PROVE  /\ Tail(q) \in Seq(EventsThere) /\ Head(q) \in EventsThere /\ Head(q) = q[1] /\ 1 \in DOMAIN q
         /\ \A i \in DOMAIN Tail(q) : i \in Nat /\ i + 1 \in DOMAIN q /\ Tail(q)[i] = q[i + 1] /\ i + 1 # 1
         /\ \A i \in DOMAIN q : i # 1 => i - 1 \in DOMAIN Tail(q) /\ Tail(q)[i - 1] = q[i] /\ i \in Nat
<1>1. Len(q) \in Nat /\ Len(q) # 0 /\ DOMAIN q = 1 .. Len(q)
  OBVIOUS
<1>2. Tail(q) \in Seq(EventsThere) /\ Len(Tail(q)) = Len(q) - 1 /\ Head(q) = q[1] /\ Head(q) \in EventsThere
  BY <1>1
<1>3. DOMAIN Tail(q) = 1 .. Len(q) - 1 /\ \A i \in 1 .. Len(q) - 1 : Tail(q)[i] = q[i + 1]
  BY <1>1
<1>4. ASSUME NEW i \in DOMAIN Tail(q) PROVE i \in Nat /\ i + 1 \in DOMAIN q /\ Tail(q)[i] = q[i + 1] /\ i + 1 # 1
  BY <1>1, <1>3
<1>5. ASSUME NEW i \in DOMAIN q, i # 1 PROVE i - 1 \in DOMAIN Tail(q) /\ Tail(q)[i - 1] = q[i] /\ i \in Nat
  <2>1. i - 1 \in 1 .. Len(q) - 1 /\ i - 1 + 1 = i
    BY <1>1, <1>5
  <2>2. QED
    BY <1>1, <1>3, <2>1
<1>6. QED
  BY <1>1, <1>2, <1>4, <1>5
LEMMA OthersTaken ==
  ASSUME NEW q \in Seq(EventsThere), q # <<>>, Head(q).event # "ask", NEW m, NEW b, Asks1(q, m, b)
  PROVE  Asks1(Tail(q), m, b)
<1>1. PICK r \in Seq(EventsThere) : r = Tail(q)
  BY TakeIs
<1>2. \A i \in DOMAIN r : i \in Nat /\ i + 1 \in DOMAIN q /\ r[i] = q[i + 1]
  BY <1>1, TakeIs
<1>3. \A i \in DOMAIN q : q[i].event = "ask" => i - 1 \in DOMAIN r /\ r[i - 1] = q[i]
  BY <1>1, TakeIs
<1>4. b = "ask" <=> (m.kind = "ask" \/ \E i \in DOMAIN r : r[i].event = "ask")
  BY <1>2, <1>3 DEF Asks1
<1>5. m.kind = "ask" => \A i \in DOMAIN r : r[i].event # "ask"
  BY <1>2 DEF Asks1
<1>6. ASSUME NEW i \in DOMAIN r, NEW j \in DOMAIN r, r[i].event = "ask", r[j].event = "ask" PROVE i = j
  <2>1. i \in Nat /\ j \in Nat
    BY <1>2
  <2>2. i + 1 \in DOMAIN q /\ j + 1 \in DOMAIN q /\ q[i + 1].event = "ask" /\ q[j + 1].event = "ask"
    BY <1>2, <1>6
  <2>3. i + 1 = j + 1
    BY <2>2 DEF Asks1
  <2>4. QED
    BY <2>1, <2>3
<1>7. Asks1(r, m, b)
  BY <1>4, <1>5, <1>6 DEF Asks1
<1>8. QED
  BY <1>1, <1>7
\* The question taken leaves none in the ring.
LEMMA AskTaken ==
  ASSUME NEW q \in Seq(EventsThere), q # <<>>, Head(q).event = "ask", NEW m, NEW b, Asks1(q, m, b)
  PROVE  b = "ask" /\ m.kind # "ask" /\ \A i \in DOMAIN Tail(q) : Tail(q)[i].event # "ask"
<1>1. 1 \in DOMAIN q /\ q[1].event = "ask"
  BY TakeIs
<1>2. ASSUME NEW i \in DOMAIN Tail(q), Tail(q)[i].event = "ask" PROVE FALSE
  <2>1. i + 1 \in DOMAIN q /\ q[i + 1].event = "ask" /\ i + 1 # 1
    BY <1>2, TakeIs
  <2>2. QED
    BY <1>1, <2>1 DEF Asks1
<1>3. QED
  BY <1>1, <1>2 DEF Asks1
\* The same question in another dialog's place, and in none.
LEMMA SameAsks ==
  ASSUME NEW q, NEW m, NEW b, Asks1(q, m, b), m.kind # "ask", NEW n, n.kind # "ask"
  PROVE  Asks1(q, n, b)
  BY DEF Asks1

\* Jobs behind the others, or refused; the first one taken.
LEMMA SubmitIs ==
  ASSUME jobs \in Seq(JobsThere), NEW js \in Seq(JobsThere), Submit(js)
  PROVE  jobs' \in Seq(JobsThere)
<1>1. jobs \o js \in Seq(JobsThere)
  OBVIOUS
<1>2. QED
  BY <1>1 DEF Submit, Submitted

\* What opens a list opens it under its title (tui_picker.c, tui_cmd.c).
Opened ==
  /\ modal'.kind \in {NoValue, "picker"} /\ Titled(modal', context')
  /\ context' \in Contexts /\ listed' \in Providers \cup {NoValue}
LEMMA ShowOpens ==
  ASSUME NEW title, NEW rows, NEW before \in Contexts, Show(title, rows, title, before),
         title \in Contexts, title # "model", rows \subseteq RowsOf(title), listed' \in Providers \cup {NoValue}
  PROVE  Opened
<1>1. CASE rows = {}
  BY <1>1 DEF Show, Opened, Titled, NoModal, NoValue
<1>2. CASE rows # {}
  <2>1. modal' = Picker(title, rows) /\ context' = title
    BY <1>2 DEF Show
  <2>2. modal'.kind = "picker" /\ modal'.title = title /\ modal'.rows = rows
    BY <2>1 DEF Picker
  <2>3. QED
    BY <2>1, <2>2 DEF Opened, Titled
<1>3. QED
  BY <1>1, <1>2
LEMMA RowsAre ==
  /\ RowsOf("provider") = Providers /\ RowsOf("effort") = Levels /\ RowsOf("fork") = Positions
  /\ RowsOf("menu") = MenuItems /\ RowsOf("command") = Commands /\ RowsOf("theme") = Styles /\ RowsOf("status") = Infos
  /\ RowsOf("load") = Ids /\ RowsOf("delete") = Ids /\ RowsOf("export") = Ids /\ RowsOf("rename") = Ids
  BY DEF RowsOf, SessionDialogs
LEMMA SessionsOpen ==
  ASSUME DialogsTypeOK, NEW what \in SessionDialogs, NEW before \in Contexts, OpenSessionPicker(what, before)
  PROVE  Opened
<1>1. what \in Contexts /\ what # "model"
  BY DEF Contexts, SessionDialogs
<1>2. RowsOf(what) = Ids
  BY RowsAre DEF SessionDialogs
<1>3. stored \subseteq RowsOf(what) /\ listed' \in Providers \cup {NoValue}
  BY <1>2 DEF DialogsTypeOK, OpenSessionPicker
<1>4. QED
  BY <1>1, <1>3, ShowOpens DEF OpenSessionPicker
LEMMA ProvidersOpen ==
  ASSUME NEW before \in Contexts, OpenProviderPicker(before)
  PROVE  Opened
<1>1. "provider" \in Contexts
  BY DEF Contexts
<1>2. QED
  BY <1>1, RowsAre, ShowOpens DEF OpenProviderPicker
LEMMA EffortsOpen ==
  ASSUME DialogsTypeOK, NEW before \in Contexts, OpenEffortPicker(before)
  PROVE  Opened
<1>1. "effort" \in Contexts /\ listed' \in Providers \cup {NoValue}
  BY DEF Contexts, OpenEffortPicker, DialogsTypeOK
<1>2. QED
  BY <1>1, RowsAre, ShowOpens DEF OpenEffortPicker
LEMMA ModelsOpen ==
  ASSUME DialogsTypeOK, NEW before \in Contexts, OpenModelPicker(before)
  PROVE  Opened
<1>1. CASE listed = NoValue
  BY <1>1 DEF OpenModelPicker, Opened, Titled, NoModal, NoValue, Contexts
<1>2. CASE listed # NoValue
  <2>1. modal' = Picker("model", recent \cup {listed}) /\ context' = before /\ listed' = NoValue
    BY <1>2 DEF OpenModelPicker
  <2>2. modal'.kind = "picker" /\ modal'.title = "model" /\ modal'.rows = recent \cup {listed}
    BY <2>1 DEF Picker
  <2>3. recent \cup {listed} \subseteq Providers
    BY <1>2 DEF DialogsTypeOK
  <2>4. QED
    BY <2>1, <2>2, <2>3 DEF Opened, Titled
<1>3. QED
  BY <1>1, <1>2
LEMMA CommandOpens ==
  ASSUME DialogsTypeOK, NEW c \in Commands, NEW before \in Contexts, Command(c, before)
  PROVE  Opened
<1>0. listed \in Providers \cup {NoValue} /\ {"menu", "theme", "status", "fork"} \subseteq Contexts
  BY DEF DialogsTypeOK, Contexts
<1>1. CASE c = "menu"
  <2>1. Show("menu", MenuItems, "menu", before) /\ listed' = listed
    BY <1>1 DEF Command
  <2>2. QED
    BY <1>0, <2>1, RowsAre, ShowOpens
<1>2. CASE c = "theme"
  <2>1. Show("theme", Styles, "theme", before) /\ listed' = listed
    BY <1>2 DEF Command
  <2>2. QED
    BY <1>0, <2>1, RowsAre, ShowOpens
<1>3. CASE c = "load"
  <2>1. OpenSessionPicker("load", before) /\ "load" \in SessionDialogs
    BY <1>3 DEF Command, SessionDialogs
  <2>2. QED
    BY <2>1, SessionsOpen
<1>4. CASE c = "status"
  <2>1. Show("status", Infos, "status", before) /\ listed' = listed
    BY <1>4 DEF Command
  <2>2. QED
    BY <1>0, <2>1, RowsAre, ShowOpens
<1>5. CASE c = "fork"
  <2>1. Show("fork", Positions, "fork", before) /\ listed' = listed
    BY <1>5 DEF Command
  <2>2. QED
    BY <1>0, <2>1, RowsAre, ShowOpens
<1>6. CASE c = "model"
  <2>1. OpenModelPicker(before) \/ OpenProviderPicker(before)
    BY <1>6 DEF Command
  <2>2. QED
    BY <2>1, ModelsOpen, ProvidersOpen
<1>7. QED
  BY <1>1, <1>2, <1>3, <1>4, <1>5, <1>6 DEF Commands
\* Nothing opens.
LEMMA ShutOpens ==
  ASSUME modal' = NoModal, context' \in Contexts, listed' \in Providers \cup {NoValue}
  PROVE  Opened
  BY DEF Opened, Titled, NoModal, NoValue
LEMMA MenuOpens ==
  ASSUME DialogsTypeOK, NEW row, MenuSelect(row)
  PROVE  Opened /\ deferred' \in BOOLEAN
<1>0. listed \in Providers \cup {NoValue} /\ {NoValue, "theme"} \subseteq Contexts /\ context \in Contexts /\ deferred \in BOOLEAN
  BY DEF DialogsTypeOK, Contexts
<1>1. CASE row = "provider"
  BY <1>0, <1>1, ProvidersOpen DEF MenuSelect, SessionDialogs
<1>2. CASE row = "effort"
  BY <1>0, <1>2, EffortsOpen DEF MenuSelect, SessionDialogs
<1>3. CASE row = "theme"
  <2>1. Show("theme", Styles, "theme", context) /\ listed' = listed /\ deferred' = deferred
    BY <1>3 DEF MenuSelect, SessionDialogs
  <2>2. QED
    BY <1>0, <2>1, RowsAre, ShowOpens
<1>4. CASE row = "password"
  <2>1. modal' = NoModal /\ context' = NoValue /\ deferred' = TRUE /\ listed' = listed
    BY <1>4 DEF MenuSelect, Shut, SessionDialogs
  <2>2. QED
    BY <1>0, <2>1, ShutOpens
<1>5. CASE row \in SessionDialogs
  <2>1. OpenSessionPicker(row, context) /\ deferred' = deferred
    <3>1. row \notin {"provider", "effort", "theme", "password"}
      BY <1>5 DEF SessionDialogs
    <3>2. QED
      BY <1>5, <3>1 DEF MenuSelect
  <2>2. QED
    BY <1>0, <1>5, <2>1, SessionsOpen
<1>6. CASE row \notin {"provider", "effort", "theme", "password"} \cup SessionDialogs
  <2>1. modal' = NoModal /\ context' = NoValue /\ deferred' = deferred /\ listed' = listed
    BY <1>6 DEF MenuSelect, Shut
  <2>2. QED
    BY <1>0, <2>1, ShutOpens
<1>7. QED
  BY <1>1, <1>2, <1>3, <1>4, <1>5, <1>6

\* What a step must keep, once its dialog is known.
LEMMA DialogsKeep ==
  ASSUME DialogsInv, modal'.kind \in {NoValue, "picker", "input", "confirm", "ask", "quit"},
         context' \in Contexts, deferred' \in BOOLEAN, listed' \in Providers \cup {NoValue},
         onInput' \in {NoValue, "export", "rename"}, onConfirm' \in {NoValue, "delete"},
         target' \in Ids \cup Providers \cup {NoValue}, busy' \in {"idle", "run", "ask"},
         agent' \in [provider : Providers, model : Providers], recent' \subseteq Providers, stored' \subseteq Ids,
         jobs' \in Seq(JobsThere), evs' \in Seq(EventsThere), Titled(modal', context'), Meant', Asks1(evs', modal', busy')
  PROVE  DialogsInv'
<1>1. \A i \in DOMAIN jobs' : jobs'[i].job \in JobNames
  <2>1. PICK js \in Seq(JobsThere) : js = jobs'
    OBVIOUS
  <2>2. \A i \in DOMAIN js : js[i] \in JobsThere
    BY <2>1
  <2>3. QED
    BY <2>1, <2>2, JobsThereAre
<1>2. DialogsTypeOK'
  BY <1>1 DEF DialogsTypeOK
<1>3. Titled(modal, context)' /\ Asks1(evs, modal, busy)'
  BY DEF Titled, Asks1
<1>4. QED
  BY <1>2, <1>3 DEF DialogsInv
\* A step of the worker that leaves the dialogs alone.
LEMMA WorkerKeeps ==
  ASSUME DialogsInv, UNCHANGED <<modal, context, asked, deferred, listed>>, busy' \in {"idle", "run", "ask"},
         agent' \in [provider : Providers, model : Providers], recent' \subseteq Providers, stored' \subseteq Ids,
         jobs' \in Seq(JobsThere), evs' \in Seq(EventsThere), Asks1(evs', modal, busy')
  PROVE  DialogsInv'
<1>1. /\ modal' = modal /\ context' = context /\ deferred' = deferred /\ listed' = listed
      /\ onInput' = onInput /\ onConfirm' = onConfirm /\ target' = target /\ chosen' = chosen
  BY DEF asked
<1>2. Meant'
  BY <1>1 DEF DialogsInv, Meant, In
<1>3. Asks1(evs', modal', busy') /\ Titled(modal', context')
  BY <1>1 DEF DialogsInv
<1>4. DialogsTypeOK
  BY DEF DialogsInv
<1>5. QED
  BY <1>1, <1>2, <1>3, <1>4, DialogsKeep DEF DialogsTypeOK
\* A dialog other than a question, a confirmation or an input, or none (tui_picker.c).
LEMMA UiKeeps ==
  ASSUME DialogsInv, modal'.kind \in {NoValue, "picker", "quit"}, Titled(modal', context'),
         context' \in Contexts, deferred' \in BOOLEAN, listed' \in Providers \cup {NoValue},
         onInput' \in {NoValue, "export", "rename"}, onConfirm' \in {NoValue, "delete"},
         target' \in Ids \cup Providers \cup {NoValue},
         busy' \in {"idle", "run", "ask"}, agent' = agent, recent' \subseteq Providers, stored' = stored,
         jobs' \in Seq(JobsThere), evs' \in Seq(EventsThere), Asks1(evs', modal', busy')
  PROVE  DialogsInv'
<1>1. Meant'
  BY DEF Meant, In, NoValue
<1>2. DialogsTypeOK
  BY DEF DialogsInv
<1>3. QED
  BY <1>1, <1>2, DialogsKeep DEF DialogsTypeOK
\* A job is taken.
LEMMA TakeJobIs ==
  ASSUME DialogsInv, NEW name, TakeJob(name)
  PROVE  /\ jobs' \in Seq(JobsThere) /\ Head(jobs) \in JobsThere /\ Head(jobs).job = name /\ busy = "idle"
         /\ UNCHANGED <<modal, context, asked, deferred, listed>>
<1>1. jobs \in Seq(JobsThere) /\ jobs # <<>>
  BY DEF DialogsInv, TakeJob
<1>2. Tail(jobs) \in Seq(JobsThere) /\ Head(jobs) \in JobsThere
  BY <1>1
<1>3. QED
  BY <1>2 DEF TakeJob
\* The worker's steps (tui_worker.c).
LEMMA WorkerDialogs ==
  ASSUME DialogsInv, JobRun \/ JobProvider \/ JobModel \/ JobModelList \/ JobDelete \/ JobElsewhere \/ Asks \/ RunEnds
  PROVE  DialogsInv'
<1>0. /\ DialogsTypeOK /\ jobs \in Seq(JobsThere) /\ evs \in Seq(EventsThere) /\ Asks1(evs, modal, busy)
      /\ agent \in [provider : Providers, model : Providers] /\ recent \subseteq Providers /\ stored \subseteq Ids
      /\ busy \in {"idle", "run", "ask"}
  BY DEF DialogsInv, DialogsTypeOK
<1>1. CASE JobRun
  <2>1. TakeJob("run") /\ busy' = "run" /\ UNCHANGED <<evs, agent, recent, stored>>
    BY <1>1 DEF JobRun
  <2>2. Asks1(evs', modal, busy')
    BY <1>0, <2>1, TakeJobIs DEF Asks1
  <2>3. QED
    BY <1>0, <2>1, <2>2, TakeJobIs, WorkerKeeps
<1>2. CASE JobProvider
  <2>1. /\ TakeJob("provider") /\ UNCHANGED <<evs, busy, recent, stored>>
        /\ agent' \in {[agent EXCEPT !.provider = Head(jobs).arg], agent}
    BY <1>2 DEF JobProvider, Arg
  <2>2. Head(jobs).arg \in Providers
    <3>1. PICK j \in JobsThere : j = Head(jobs) /\ j.job = "provider"
      BY <2>1, TakeJobIs
    <3>2. QED
      BY <3>1, JobsThereAre
  <2>3. agent' \in [provider : Providers, model : Providers]
    BY <1>0, <2>1, <2>2
  <2>4. QED
    BY <1>0, <2>1, <2>3, TakeJobIs, WorkerKeeps
<1>3. CASE JobModel
  <2>1. /\ TakeJob("model") /\ UNCHANGED <<busy, recent, stored>>
        /\ agent' = [agent EXCEPT !.model = Head(jobs).arg] /\ evs' = Append(evs, Event("model", Head(jobs).arg))
    BY <1>3 DEF JobModel, Arg, Tell
  <2>2. Head(jobs).arg \in Providers
    <3>1. PICK j \in JobsThere : j = Head(jobs) /\ j.job = "model"
      BY <2>1, TakeJobIs
    <3>2. QED
      BY <3>1, JobsThereAre
  <2>3. agent' \in [provider : Providers, model : Providers]
    BY <1>0, <2>1, <2>2
  <2>4. PICK e \in EventsThere : e = Event("model", Head(jobs).arg) /\ e.event # "ask"
    BY <2>2, EventsThereAre
  <2>5. evs' \in Seq(EventsThere) /\ Asks1(evs', modal, busy')
    BY <1>0, <2>1, <2>4, SendIs, OthersAsk
  <2>6. QED
    BY <1>0, <2>1, <2>3, <2>5, TakeJobIs, WorkerKeeps
<1>4. CASE JobModelList
  <2>1. /\ TakeJob("model-list") /\ UNCHANGED <<busy, agent, recent, stored>>
        /\ \E p \in {agent.provider, NoValue} : evs' = Append(evs, Event("models", p))
    BY <1>4 DEF JobModelList, Tell
  <2>2. PICK p \in {agent.provider, NoValue} : evs' = Append(evs, Event("models", p))
    BY <2>1
  <2>3. PICK e \in EventsThere : e = Event("models", p) /\ e.event # "ask"
    BY <1>0, EventsThereAre
  <2>4. evs' \in Seq(EventsThere) /\ Asks1(evs', modal, busy')
    BY <1>0, <2>1, <2>2, <2>3, SendIs, OthersAsk
  <2>5. QED
    BY <1>0, <2>1, <2>4, TakeJobIs, WorkerKeeps
<1>5. CASE JobDelete
  <2>1. TakeJob("delete") /\ UNCHANGED <<evs, busy, agent, recent>> /\ stored' \subseteq Ids
    BY <1>0, <1>5 DEF JobDelete
  <2>2. QED
    BY <1>0, <2>1, TakeJobIs, WorkerKeeps
<1>6. CASE JobElsewhere
  <2>1. TakeJob(Head(jobs).job) /\ UNCHANGED <<evs, busy, agent, recent, stored>>
    BY <1>6 DEF JobElsewhere
  <2>2. QED
    BY <1>0, <2>1, TakeJobIs, WorkerKeeps
<1>7. CASE Asks
  <2>1. /\ busy = "run" /\ busy' = "ask" /\ evs' = Append(evs, Event("ask", NoValue))
        /\ UNCHANGED <<modal, context, asked, deferred, listed, jobs, agent, recent, stored>>
    BY <1>7 DEF Asks, Tell
  <2>2. PICK e \in EventsThere : e = Event("ask", NoValue) /\ e.event = "ask"
    BY EventsThereAre
  <2>3. PICK q \in Seq(EventsThere) : q = Append(evs, e)
    BY <1>0, SendIs
  <2>4. /\ DOMAIN q = DOMAIN evs \cup {Len(evs) + 1} /\ q[Len(evs) + 1] = e
        /\ \A i \in DOMAIN evs : q[i] = evs[i]
    BY <1>0, <2>3, SendIs
  <2>5. modal.kind # "ask" /\ \A i \in DOMAIN evs : evs[i].event # "ask"
    BY <1>0, <2>1 DEF Asks1
  <2>6. Asks1(q, modal, "ask")
    BY <2>2, <2>4, <2>5 DEF Asks1
  <2>7. QED
    BY <1>0, <2>1, <2>2, <2>3, <2>6, WorkerKeeps
<1>8. CASE RunEnds
  <2>1. busy = "run" /\ busy' = "idle" /\ UNCHANGED <<modal, context, asked, deferred, listed, jobs, evs, agent, recent, stored>>
    BY <1>8 DEF RunEnds
  <2>2. Asks1(evs', modal, busy')
    BY <1>0, <2>1 DEF Asks1
  <2>3. QED
    BY <1>0, <2>1, <2>2, WorkerKeeps
<1>9. QED
  BY <1>1, <1>2, <1>3, <1>4, <1>5, <1>6, <1>7, <1>8

\* The user's steps (tui_cmd.c, tui_picker.c, tui.c): with no dialog open.
LEMMA FreeDialogs ==
  ASSUME DialogsInv, PressCommand \/ PressPalette \/ PressQuit \/ TypeLine \/ ChangePassword
  PROVE  DialogsInv'
<1>0. /\ DialogsTypeOK /\ jobs \in Seq(JobsThere) /\ evs \in Seq(EventsThere) /\ Asks1(evs, modal, busy) /\ Titled(modal, context)
      /\ recent \subseteq Providers /\ busy \in {"idle", "run", "ask"} /\ context \in Contexts /\ deferred \in BOOLEAN
      /\ listed \in Providers \cup {NoValue} /\ onInput \in {NoValue, "export", "rename"} /\ onConfirm \in {NoValue, "delete"}
      /\ target \in Ids \cup Providers \cup {NoValue}
  BY DEF DialogsInv, DialogsTypeOK
<1>a. modal = NoModal /\ modal.kind = NoValue /\ NoValue # "ask"
  BY DEF PressCommand, PressPalette, PressQuit, TypeLine, ChangePassword, Free, NoModal, NoValue
<1>1. ASSUME Opened, Key, UNCHANGED <<asked, deferred, jobs>> PROVE DialogsInv'
  <2>1. /\ busy' = busy /\ agent' = agent /\ stored' = stored /\ evs' = evs /\ recent' = recent
        /\ onInput' = onInput /\ onConfirm' = onConfirm /\ target' = target /\ jobs' = jobs /\ deferred' = deferred
    BY <1>1 DEF Key, Ui, asked
  <2>2. modal'.kind \in {NoValue, "picker"} /\ modal'.kind # "ask"
    BY <1>1 DEF Opened, NoValue
  <2>3. Asks1(evs', modal', busy')
    BY <1>0, <1>a, <2>1, <2>2, SameAsks
  <2>4. QED
    BY <1>0, <1>1, <2>1, <2>2, <2>3, UiKeeps DEF Opened
<1>2. CASE PressCommand
  <2>1. PICK c \in Commands : Key /\ Command(c, context) /\ UNCHANGED <<asked, deferred, jobs>>
    BY <1>2 DEF PressCommand
  <2>2. QED
    BY <1>0, <1>1, <2>1, CommandOpens
<1>3. CASE PressPalette
  <2>1. Key /\ Show("command", Commands, "command", context) /\ UNCHANGED <<asked, deferred, listed, jobs>>
    BY <1>3 DEF PressPalette
  <2>2. Opened
    <3>1. "command" \in Contexts
      BY DEF Contexts
    <3>2. QED
      BY <1>0, <2>1, <3>1, RowsAre, ShowOpens
  <2>3. QED
    BY <1>1, <2>1, <2>2
<1>4. CASE PressQuit
  <2>1. /\ modal' = QuitDialog /\ context' = context /\ deferred' = deferred /\ listed' = listed /\ jobs' = jobs
        /\ onInput' = onInput /\ onConfirm' = onConfirm /\ target' = target
        /\ busy' = busy /\ agent' = agent /\ stored' = stored /\ evs' = evs /\ recent' = recent
    BY <1>4 DEF PressQuit, Key, Ui, asked
  <2>2. modal'.kind = "quit"
    BY <2>1 DEF QuitDialog
  <2>3. Titled(modal', context')
    BY <2>2 DEF Titled
  <2>4. Asks1(evs', modal', busy')
    BY <1>0, <1>a, <2>1, <2>2, SameAsks
  <2>5. QED
    BY <1>0, <2>1, <2>2, <2>3, <2>4, UiKeeps
<1>5. CASE TypeLine
  <2>1. PICK j \in Typed : Submit(<<j>>)
    BY <1>5 DEF TypeLine
  <2>2. j \in JobsThere
    <3>1. CASE j = Job("run", NoValue)
      BY <3>1, JobsThereAre DEF JobNames, Args
    <3>2. ASSUME NEW p \in Providers, j = Job("provider", p) PROVE j \in JobsThere
      BY <3>2, JobsThereAre
    <3>3. ASSUME NEW s \in Ids, j = Job("delete", s) PROVE j \in JobsThere
      BY <3>3, JobsThereAre DEF JobNames, Args
    <3>4. QED
      BY <2>1, <3>1, <3>2, <3>3 DEF Typed
  <2>3. <<j>> \in Seq(JobsThere)
    BY <2>2
  <2>4. jobs' \in Seq(JobsThere)
    BY <1>0, <2>1, <2>3, SubmitIs
  <2>5. /\ modal' = modal /\ context' = context /\ deferred' = deferred /\ listed' = listed
        /\ onInput' = onInput /\ onConfirm' = onConfirm /\ target' = target
        /\ busy' = busy /\ agent' = agent /\ stored' = stored /\ evs' = evs /\ recent' = recent
    BY <1>5 DEF TypeLine, Key, Ui
  <2>6. QED
    BY <1>0, <1>a, <2>4, <2>5, UiKeeps
<1>6. CASE ChangePassword
  <2>1. <<Job("change-password", NoValue)>> \in Seq(JobsThere)
    <3>1. Job("change-password", NoValue) \in JobsThere
      BY JobsThereAre DEF JobNames, Args
    <3>2. QED
      BY <3>1
  <2>2. jobs' \in Seq(JobsThere)
    BY <1>0, <1>6, <2>1, SubmitIs DEF ChangePassword
  <2>3. /\ modal' = modal /\ context' = context /\ deferred' = FALSE /\ listed' = listed
        /\ onInput' = onInput /\ onConfirm' = onConfirm /\ target' = target
        /\ busy' = busy /\ agent' = agent /\ stored' = stored /\ evs' = evs /\ recent' = recent
    BY <1>6 DEF ChangePassword, Ui, asked
  <2>4. QED
    BY <1>0, <1>a, <2>2, <2>3, UiKeeps
<1>7. QED
  BY <1>2, <1>3, <1>4, <1>5, <1>6
\* A row is taken: what a list of the models is read as is left open (see
\* ModelsAreModels), every other is read by its title.
LEMMA RowIs ==
  ASSUME DialogsInv, NEW row \in modal.rows, In("picker")
  PROVE  /\ context \in {"delete", "export", "rename", "load"} => row \in Ids \cup Providers
         /\ context \in {"provider", "model"} => row \in Providers
         /\ context = "effort" => row \in Levels \cup Providers
         /\ context = "fork" => row \in Positions \cup Providers
<1>1. \/ modal.title = "model" /\ modal.rows \subseteq Providers
      \/ modal.title # "model" /\ context = modal.title /\ modal.rows \subseteq RowsOf(modal.title)
  BY DEF DialogsInv, Titled, In
<1>2. CASE modal.rows \subseteq Providers
  BY <1>2
<1>3. CASE modal.title # "model" /\ context = modal.title /\ modal.rows \subseteq RowsOf(context)
  BY <1>3, RowsAre
<1>4. QED
  BY <1>1, <1>2, <1>3
LEMMA EffectIs ==
  ASSUME DialogsInv, NEW row \in modal.rows, In("picker")
  PROVE  Effect(row) \in Seq(JobsThere)
<1>0. "model-list" \in JobNames /\ "effort" \in JobNames /\ "load" \in JobNames /\ "regen" \in JobNames
  BY DEF JobNames
<1>1. CASE context = "provider"
  <2>1. Job("provider", row) \in JobsThere /\ Job("model-list", NoValue) \in JobsThere
    BY <1>0, <1>1, RowIs, JobsThereAre DEF Args
  <2>2. Effect(row) = <<Job("provider", row), Job("model-list", NoValue)>>
    BY <1>1 DEF Effect
  <2>3. QED
    BY <2>1, <2>2
<1>2. CASE context = "model"
  <2>1. Job("model", row) \in JobsThere
    BY <1>2, RowIs, JobsThereAre
  <2>2. Effect(row) = <<Job("model", row)>>
    BY <1>2 DEF Effect
  <2>3. QED
    BY <2>1, <2>2
<1>3. CASE context = "effort"
  <2>1. Job("effort", row) \in JobsThere
    BY <1>0, <1>3, RowIs, JobsThereAre DEF Args
  <2>2. Effect(row) = <<Job("effort", row)>>
    BY <1>3 DEF Effect
  <2>3. QED
    BY <2>1, <2>2
<1>4. CASE context = "load"
  <2>1. Job("load", row) \in JobsThere
    BY <1>0, <1>4, RowIs, JobsThereAre DEF Args
  <2>2. Effect(row) = <<Job("load", row)>>
    BY <1>4 DEF Effect
  <2>3. QED
    BY <2>1, <2>2
<1>5. CASE context = "fork"
  <2>1. Job("regen", row) \in JobsThere
    BY <1>0, <1>5, RowIs, JobsThereAre DEF Args
  <2>2. Effect(row) = <<Job("regen", row)>>
    BY <1>5 DEF Effect
  <2>3. QED
    BY <2>1, <2>2
<1>6. CASE context \notin {"provider", "model", "effort", "load", "fork"}
  <2>1. Effect(row) = <<>>
    BY <1>6 DEF Effect
  <2>2. QED
    BY <2>1
<1>7. QED
  BY <1>1, <1>2, <1>3, <1>4, <1>5, <1>6
LEMMA RowDialogs ==
  ASSUME DialogsInv, CommitRow
  PROVE  DialogsInv'
<1>0. /\ DialogsTypeOK /\ jobs \in Seq(JobsThere) /\ evs \in Seq(EventsThere) /\ Asks1(evs, modal, busy)
      /\ recent \subseteq Providers /\ busy \in {"idle", "run", "ask"} /\ context \in Contexts /\ deferred \in BOOLEAN
      /\ listed \in Providers \cup {NoValue} /\ onInput \in {NoValue, "export", "rename"} /\ onConfirm \in {NoValue, "delete"}
      /\ target \in Ids \cup Providers \cup {NoValue}
      /\ NoValue \in Contexts /\ "model" \in Contexts
  BY DEF DialogsInv, DialogsTypeOK, Contexts
<1>1. PICK row \in modal.rows :
      /\ In("picker") /\ Key
      /\ CASE context = "menu" -> MenuSelect(row) /\ UNCHANGED <<asked, jobs>>
           [] context = "command" /\ row \in Commands -> Command(row, NoValue) /\ UNCHANGED <<asked, deferred, jobs>>
           [] context \in {"delete", "export", "rename"} -> Asking(row) /\ UNCHANGED <<deferred, listed, jobs>>
           [] OTHER ->
                /\ Shut /\ Submit(Effect(row))
                /\ context' = IF context = "provider" THEN "model" ELSE NoValue
                /\ target' = IF context = "load" THEN NoValue ELSE target
                /\ UNCHANGED <<onInput, onConfirm, chosen, slipped, deferred, listed>>
  BY DEF CommitRow
<1>2. \/ MenuSelect(row) /\ UNCHANGED <<asked, jobs>>
      \/ row \in Commands /\ Command(row, NoValue) /\ UNCHANGED <<asked, deferred, jobs>>
      \/ context \in {"delete", "export", "rename"} /\ Asking(row) /\ UNCHANGED <<deferred, listed, jobs>>
      \/ /\ Shut /\ Submit(Effect(row)) /\ context' \in {"model", NoValue} /\ target' \in {NoValue, target}
         /\ UNCHANGED <<onInput, onConfirm, deferred, listed>>
  <2>1. CASE context = "menu"
    BY <1>1, <2>1
  <2>2. CASE context = "command" /\ row \in Commands
    BY <1>1, <2>2
  <2>3. CASE context \in {"delete", "export", "rename"}
    BY <1>1, <2>3
  <2>4. CASE context # "menu" /\ ~(context = "command" /\ row \in Commands) /\ context \notin {"delete", "export", "rename"}
    BY <1>1, <2>4
  <2>5. QED
    BY <2>1, <2>2, <2>3, <2>4
<1>3. modal.kind = "picker" /\ modal.kind # "ask"
  BY <1>1 DEF In
<1>4. busy' = busy /\ agent' = agent /\ stored' = stored /\ evs' = evs /\ recent' = recent
  BY <1>1 DEF Key, Ui
<1>5. ASSUME Opened, UNCHANGED <<onInput, onConfirm>>, target' \in {NoValue, target}, jobs' \in Seq(JobsThere), deferred' \in BOOLEAN
      PROVE  DialogsInv'
  <2>1. modal'.kind \in {NoValue, "picker"} /\ modal'.kind # "ask"
    BY <1>5 DEF Opened, NoValue
  <2>2. Asks1(evs', modal', busy')
    BY <1>0, <1>3, <1>4, <2>1, SameAsks
  <2>3. QED
    BY <1>0, <1>4, <1>5, <2>1, <2>2, UiKeeps DEF Opened
<1>6. CASE MenuSelect(row) /\ UNCHANGED <<asked, jobs>>
  BY <1>0, <1>5, <1>6, MenuOpens DEF asked
<1>7. CASE row \in Commands /\ Command(row, NoValue) /\ UNCHANGED <<asked, deferred, jobs>>
  BY <1>0, <1>5, <1>7, CommandOpens DEF asked
<1>8. CASE /\ Shut /\ Submit(Effect(row)) /\ context' \in {"model", NoValue} /\ target' \in {NoValue, target}
           /\ UNCHANGED <<onInput, onConfirm, deferred, listed>>
  <2>1. jobs' \in Seq(JobsThere)
    <3>1. PICK js \in Seq(JobsThere) : js = Effect(row)
      BY <1>1, EffectIs
    <3>2. QED
      BY <1>0, <1>8, <3>1, SubmitIs
  <2>2. Opened
    BY <1>0, <1>8, ShutOpens DEF Shut
  <2>3. QED
    BY <1>0, <1>5, <1>8, <2>1, <2>2
<1>9. CASE context \in {"delete", "export", "rename"} /\ Asking(row) /\ UNCHANGED <<deferred, listed, jobs>>
  <2>1. target' = row /\ chosen' = row /\ context' = NoValue /\ row \in Ids \cup Providers
    BY <1>1, <1>9, RowIs DEF Asking
  <2>2. \/ context = "delete" /\ modal'.kind = "confirm" /\ modal'.title = "delete" /\ onConfirm' = "delete" /\ onInput' = onInput
        \/ context # "delete" /\ modal'.kind = "input" /\ modal'.title = context /\ onInput' = context /\ onConfirm' = onConfirm
    BY <1>9 DEF Asking
  <2>3. Meant' /\ Titled(modal', context')
    BY <2>1, <2>2 DEF Meant, In, Titled
  <2>4. /\ onInput' \in {NoValue, "export", "rename"} /\ onConfirm' \in {NoValue, "delete"} /\ modal'.kind \in {"input", "confirm"}
        /\ modal'.kind # "ask"
    BY <1>0, <1>9, <2>2
  <2>5. Asks1(evs', modal', busy')
    BY <1>0, <1>3, <1>4, <2>4, SameAsks
  <2>6. agent' \in [provider : Providers, model : Providers] /\ stored' \subseteq Ids
    BY <1>0, <1>4 DEF DialogsTypeOK
  <2>7. QED
    BY <1>0, <1>4, <1>9, <2>1, <2>3, <2>4, <2>5, <2>6, DialogsKeep
<1>10. QED
  BY <1>2, <1>6, <1>7, <1>8, <1>9

\* The user closes a dialog (tui.c, tui_picker.c).
LEMMA ShutDialogs ==
  ASSUME DialogsInv, CommitNothing \/ CommitInput \/ CommitConfirm \/ Answer \/ DismissQuit \/ CtrlC
  PROVE  DialogsInv'
<1>0. /\ DialogsTypeOK /\ jobs \in Seq(JobsThere) /\ evs \in Seq(EventsThere) /\ Asks1(evs, modal, busy)
      /\ recent \subseteq Providers /\ busy \in {"idle", "run", "ask"} /\ context \in Contexts /\ deferred \in BOOLEAN
      /\ listed \in Providers \cup {NoValue} /\ onInput \in {NoValue, "export", "rename"} /\ onConfirm \in {NoValue, "delete"}
      /\ target \in Ids \cup Providers \cup {NoValue} /\ NoValue \in Contexts
  BY DEF DialogsInv, DialogsTypeOK, Contexts
<1>1. /\ NoModal.kind = NoValue /\ NoModal.kind # "ask" /\ NoModal.kind # "picker"
      /\ QuitDialog.kind = "quit" /\ QuitDialog.kind # "ask" /\ QuitDialog.kind # "picker"
  BY DEF NoModal, QuitDialog, NoValue
<1>2. ASSUME modal' \in {NoModal, QuitDialog},
             context' \in Contexts, deferred' \in BOOLEAN, listed' \in Providers \cup {NoValue},
             onInput' \in {NoValue, onInput}, onConfirm' \in {NoValue, onConfirm}, target' \in {NoValue, target},
             modal.kind # "ask", busy' = busy, agent' = agent, recent' = recent, stored' = stored,
             jobs' \in Seq(JobsThere), evs' = evs
      PROVE  DialogsInv'
  <2>1. modal'.kind \in {NoValue, "picker", "quit"} /\ modal'.kind # "ask" /\ modal'.kind # "picker"
    BY <1>1, <1>2
  <2>2. Titled(modal', context')
    BY <2>1 DEF Titled
  <2>3. Asks1(evs', modal', busy')
    BY <1>0, <1>2, <2>1, SameAsks
  <2>4. QED
    BY <1>0, <1>2, <2>1, <2>2, <2>3, UiKeeps
<1>3. CASE CommitNothing
  <2>1. /\ modal' = NoModal /\ context' = NoValue /\ target' = NoValue /\ onInput' = NoValue /\ onConfirm' = NoValue
        /\ UNCHANGED <<deferred, listed, jobs>> /\ modal.kind = "picker"
        /\ UNCHANGED <<busy, agent, stored, evs, recent>>
    BY <1>3 DEF CommitNothing, Shut, In, Key, Ui
  <2>2. QED
    BY <1>0, <1>2, <2>1
<1>4. CASE CommitInput
  <2>1. /\ modal' = NoModal /\ target' = NoValue /\ onInput' = NoValue
        /\ UNCHANGED <<context, onConfirm, deferred, listed>> /\ modal.kind = "input" /\ onInput # NoValue
        /\ UNCHANGED <<busy, agent, stored, evs, recent>>
        /\ (target # NoValue /\ Submit(<<Job(onInput, target)>>)) \/ UNCHANGED jobs
    BY <1>4 DEF CommitInput, Shut, In, Key, Ui
  <2>2. CASE target # NoValue /\ Submit(<<Job(onInput, target)>>)
    <3>1. onInput \in JobNames \ {"provider", "model"} /\ target \in Args
      BY <1>0, <2>1 DEF JobNames, Args
    <3>2. Job(onInput, target) \in JobsThere
      BY <3>1, JobsThereAre
    <3>3. <<Job(onInput, target)>> \in Seq(JobsThere)
      BY <3>2
    <3>4. jobs' \in Seq(JobsThere)
      BY <1>0, <2>2, <3>3, SubmitIs
    <3>5. QED
      BY <1>0, <1>2, <2>1, <3>4
  <2>3. CASE UNCHANGED jobs
    BY <1>0, <1>2, <2>1, <2>3
  <2>4. QED
    BY <2>1, <2>2, <2>3
<1>5. CASE CommitConfirm
  <2>1. /\ modal' = NoModal /\ target' = NoValue /\ onConfirm' = NoValue
        /\ UNCHANGED <<context, onInput, deferred, listed>> /\ modal.kind = "confirm"
        /\ UNCHANGED <<busy, agent, stored, evs, recent>>
        /\ (target # NoValue /\ Submit(<<Job("delete", target)>>)) \/ UNCHANGED jobs
    BY <1>5 DEF CommitConfirm, Shut, In, Key, Ui
  <2>2. CASE target # NoValue /\ Submit(<<Job("delete", target)>>)
    <3>1. "delete" \in JobNames \ {"provider", "model"} /\ target \in Args
      BY <1>0 DEF JobNames, Args
    <3>2. Job("delete", target) \in JobsThere
      BY <3>1, JobsThereAre
    <3>3. <<Job("delete", target)>> \in Seq(JobsThere)
      BY <3>2
    <3>4. jobs' \in Seq(JobsThere)
      BY <1>0, <2>2, <3>3, SubmitIs
    <3>5. QED
      BY <1>0, <1>2, <2>1, <3>4
  <2>3. CASE UNCHANGED jobs
    BY <1>0, <1>2, <2>1, <2>3
  <2>4. QED
    BY <2>1, <2>2, <2>3
<1>6. ASSUME modal' \in {NoModal, QuitDialog}, modal.kind = "ask", busy' = "run",
             UNCHANGED <<context, asked, deferred, listed, jobs, evs, agent, recent, stored>>
      PROVE  DialogsInv'
  <2>1. modal'.kind \in {NoValue, "picker", "quit"} /\ modal'.kind # "ask" /\ modal'.kind # "picker"
    BY <1>1, <1>6
  <2>2. Titled(modal', context')
    BY <2>1 DEF Titled
  <2>3. \A i \in DOMAIN evs : evs[i].event # "ask"
    BY <1>0, <1>6 DEF Asks1
  <2>4. Asks1(evs', modal', busy')
    BY <1>6, <2>1, <2>3 DEF Asks1
  <2>5. onInput' = onInput /\ onConfirm' = onConfirm /\ target' = target
    BY <1>6 DEF asked
  <2>6. QED
    BY <1>0, <1>6, <2>1, <2>2, <2>4, <2>5, UiKeeps
<1>7. CASE Answer
  BY <1>6, <1>7 DEF Answer, In, Shut
<1>8. CASE DismissQuit
  <2>1. /\ modal' = NoModal /\ modal.kind = "quit" /\ UNCHANGED <<context, deferred, listed, jobs, onInput, onConfirm, target>>
        /\ UNCHANGED <<busy, agent, stored, evs, recent>>
    BY <1>8 DEF DismissQuit, Shut, In, Ui, asked
  <2>2. QED
    BY <1>0, <1>2, <2>1
<1>9. CASE CtrlC
  <2>1. /\ modal' = QuitDialog /\ UNCHANGED <<context, asked, deferred, listed, jobs, evs, agent, recent, stored>>
        /\ busy' = IF modal.kind = "ask" THEN "run" ELSE busy
    BY <1>9 DEF CtrlC, In
  <2>2. CASE modal.kind = "ask"
    BY <1>6, <2>1, <2>2
  <2>3. CASE modal.kind # "ask"
    <3>1. onInput' = onInput /\ onConfirm' = onConfirm /\ target' = target
      BY <2>1 DEF asked
    <3>2. QED
      BY <1>0, <1>2, <2>1, <2>3, <3>1
  <2>4. QED
    BY <2>2, <2>3
<1>10. QED
  BY <1>3, <1>4, <1>5, <1>7, <1>8, <1>9

\* The events of the worker, one at a time (tui.c).
LEMMA HandlersDialogs ==
  ASSUME DialogsInv, HandleModels \/ HandleModel \/ HandleAsk
  PROVE  DialogsInv'
<1>0. /\ DialogsTypeOK /\ jobs \in Seq(JobsThere) /\ evs \in Seq(EventsThere) /\ Asks1(evs, modal, busy) /\ Titled(modal, context)
      /\ recent \subseteq Providers /\ busy \in {"idle", "run", "ask"} /\ context \in Contexts /\ deferred \in BOOLEAN
      /\ listed \in Providers \cup {NoValue} /\ onInput \in {NoValue, "export", "rename"} /\ onConfirm \in {NoValue, "delete"}
      /\ target \in Ids \cup Providers \cup {NoValue} /\ NoValue \in Contexts /\ "model" \in Contexts
      /\ agent \in [provider : Providers, model : Providers] /\ stored \subseteq Ids /\ Meant
      /\ modal.kind \in {NoValue, "picker", "input", "confirm", "ask", "quit"}
  BY DEF DialogsInv, DialogsTypeOK, Contexts
<1>1. /\ NoModal.kind = NoValue /\ NoModal.kind # "ask" /\ NoModal.kind # "picker"
      /\ Question.kind = "ask" /\ Question.kind # "picker"
  BY DEF NoModal, Question, NoValue
<1>2. ASSUME NEW e, Next(e)
      PROVE  evs # <<>> /\ Head(evs) \in EventsThere /\ Head(evs).event = e /\ evs' = Tail(evs) /\ evs' \in Seq(EventsThere)
  BY <1>0, <1>2, TakeIs DEF Next
<1>3. CASE HandleModels
  <2>1. /\ Next("models") /\ busy' = busy /\ recent' = recent /\ UNCHANGED <<asked, deferred, jobs, agent, stored>>
        /\ IF context = "model" /\ Free
             THEN /\ modal' = IF Arrived = NoValue THEN NoModal ELSE Picker("model", recent \cup {Arrived})
                  /\ context' = IF Arrived = NoValue THEN NoValue ELSE context
                  /\ listed' = NoValue
             ELSE listed' = Arrived /\ UNCHANGED <<modal, context>>
    BY <1>3 DEF HandleModels, NoKey
  <2>2. Arrived \in Providers \cup {NoValue}
    <3>1. PICK h \in EventsThere : h = Head(evs)
      BY <1>2, <2>1
    <3>2. QED
      BY <3>1, EventsThereAre DEF Arrived
  <2>3. Asks1(evs', modal, busy)
    <3>1. evs # <<>> /\ Head(evs).event # "ask" /\ evs' = Tail(evs)
      BY <1>2, <2>1
    <3>2. QED
      BY <1>0, <3>1, OthersTaken
  <2>4. onInput' = onInput /\ onConfirm' = onConfirm /\ target' = target /\ chosen' = chosen
    BY <2>1 DEF asked
  <2>5. CASE context = "model" /\ Free
    <3>1. modal.kind # "ask" /\ listed' = NoValue
      BY <1>1, <2>1, <2>5 DEF Free
    <3>2. CASE Arrived = NoValue
      <4>1. modal' = NoModal /\ context' = NoValue
        BY <2>1, <2>5, <3>2
      <4>2. modal'.kind \in {NoValue, "picker", "quit"} /\ modal'.kind # "ask"
        BY <1>1, <4>1
      <4>3. Titled(modal', context')
        BY <1>1, <4>1 DEF Titled
      <4>4. Asks1(evs', modal', busy')
        BY <2>1, <2>3, <3>1, <4>2, SameAsks
      <4>5. QED
        BY <1>0, <1>2, <2>1, <2>4, <3>1, <4>1, <4>2, <4>3, <4>4, UiKeeps
    <3>3. CASE Arrived # NoValue
      <4>1. modal' = Picker("model", recent \cup {Arrived}) /\ context' = context
        BY <2>1, <2>5, <3>3
      <4>2. /\ modal'.kind = "picker" /\ modal'.title = "model" /\ modal'.rows = recent \cup {Arrived}
        BY <4>1 DEF Picker
      <4>3. Titled(modal', context')
        BY <1>0, <2>2, <3>3, <4>2 DEF Titled
      <4>4. Asks1(evs', modal', busy')
        <5>1. modal'.kind # "ask"
          BY <4>2
        <5>2. QED
          BY <2>1, <2>3, <3>1, <5>1, SameAsks
      <4>5. QED
        BY <1>0, <1>2, <2>1, <2>4, <3>1, <4>1, <4>2, <4>3, <4>4, UiKeeps
    <3>4. QED
      BY <3>2, <3>3
  <2>6. CASE ~(context = "model" /\ Free)
    <3>1. listed' = Arrived /\ modal' = modal /\ context' = context
      BY <2>1, <2>6
    <3>2. Meant'
      BY <1>0, <2>4, <3>1 DEF Meant, In
    <3>3. Titled(modal', context') /\ Asks1(evs', modal', busy')
      BY <1>0, <2>1, <2>3, <3>1
    <3>4. QED
      BY <1>0, <1>2, <2>1, <2>2, <2>4, <3>1, <3>2, <3>3, DialogsKeep
  <2>7. QED
    BY <2>5, <2>6
<1>4. CASE HandleModel
  <2>1. /\ Next("model") /\ busy' = busy /\ recent' = recent \cup {Arrived}
        /\ UNCHANGED <<modal, context, asked, deferred, listed>> /\ UNCHANGED <<jobs, agent, stored>>
    BY <1>4 DEF HandleModel, NoKey
  <2>2. Arrived \in Providers
    <3>1. PICK h \in EventsThere : h = Head(evs) /\ h.event = "model"
      BY <1>2, <2>1
    <3>2. QED
      BY <3>1, EventsThereAre DEF Arrived
  <2>3. Asks1(evs', modal, busy')
    <3>1. evs # <<>> /\ Head(evs).event # "ask" /\ evs' = Tail(evs)
      BY <1>2, <2>1
    <3>2. QED
      BY <1>0, <2>1, <3>1, OthersTaken
  <2>4. QED
    BY <1>0, <1>2, <2>1, <2>2, <2>3, WorkerKeeps
<1>5. CASE HandleAsk
  <2>1. /\ Next("ask") /\ UNCHANGED <<context, listed, recent, asked, deferred, jobs, agent, stored>>
        /\ IF Free THEN modal' = Question /\ UNCHANGED busy
             ELSE busy' = "run" /\ UNCHANGED modal
    BY <1>5 DEF HandleAsk, NoKey
  <2>2. busy = "ask" /\ modal.kind # "ask" /\ \A i \in DOMAIN evs' : evs'[i].event # "ask"
    <3>1. evs # <<>> /\ Head(evs).event = "ask" /\ evs' = Tail(evs)
      BY <1>2, <2>1
    <3>2. busy = "ask" /\ modal.kind # "ask" /\ \A i \in DOMAIN Tail(evs) : Tail(evs)[i].event # "ask"
      BY <1>0, <3>1, AskTaken
    <3>3. QED
      BY <3>1, <3>2
  <2>3. CASE Free
    <3>1. modal' = Question /\ busy' = busy
      BY <2>1, <2>3
    <3>2. Meant'
      BY <1>1, <3>1 DEF Meant, In
    <3>3. Titled(modal', context')
      BY <1>1, <3>1 DEF Titled
    <3>4. Asks1(evs', modal', busy')
      BY <1>1, <2>2, <3>1 DEF Asks1
    <3>5. onInput' = onInput /\ onConfirm' = onConfirm /\ target' = target
      BY <2>1 DEF asked
    <3>6. modal'.kind \in {NoValue, "picker", "input", "confirm", "ask", "quit"}
      BY <1>1, <3>1
    <3>7. QED
      BY <1>0, <1>2, <2>1, <3>1, <3>2, <3>3, <3>4, <3>5, <3>6, DialogsKeep
  <2>4. CASE ~Free
    <3>1. busy' = "run" /\ modal' = modal
      BY <2>1, <2>4
    <3>2. Asks1(evs', modal, busy')
      BY <2>2, <3>1 DEF Asks1
    <3>3. QED
      BY <1>0, <1>2, <2>1, <3>1, <3>2, WorkerKeeps
  <2>5. QED
    BY <2>3, <2>4
<1>6. QED
  BY <1>3, <1>4, <1>5

\* The invariant holds at the start, and each step of the dialogs keeps it.
LEMMA DialogsStart ==
  ASSUME DialogsInit
  PROVE  DialogsInv
<1>1. /\ modal = NoModal /\ context = NoValue /\ onInput = NoValue /\ onConfirm = NoValue /\ target = NoValue
      /\ deferred = FALSE /\ listed = NoValue /\ jobs = <<>> /\ evs = <<>> /\ busy = "idle" /\ recent = {} /\ stored = Ids
      /\ \E p \in Providers : agent = [provider |-> p, model |-> p]
  BY DEF DialogsInit
<1>2. modal.kind = NoValue
  BY <1>1 DEF NoModal
<1>3. agent \in [provider : Providers, model : Providers]
  BY <1>1
<1>4. DOMAIN jobs = {} /\ DOMAIN evs = {}
  BY <1>1
<1>5. DialogsTypeOK
  BY <1>1, <1>2, <1>3, <1>4 DEF DialogsTypeOK, Contexts
<1>6. jobs \in Seq(JobsThere) /\ evs \in Seq(EventsThere)
  BY <1>1
<1>7. Titled(modal, context) /\ Meant
  BY <1>2 DEF Titled, Meant, In, NoValue
<1>8. Asks1(evs, modal, busy)
  BY <1>1, <1>2, <1>4 DEF Asks1, NoValue
<1>9. QED
  BY <1>5, <1>6, <1>7, <1>8 DEF DialogsInv
LEMMA DialogsStep ==
  ASSUME DialogsInv, DialogsNext
  PROVE  DialogsInv'
  BY WorkerDialogs, FreeDialogs, RowDialogs, ShutDialogs, HandlersDialogs DEF DialogsNext
\* What the invariant says of the open dialog.
LEMMA DialogsSound ==
  ASSUME DialogsInv
  PROVE  DialogsTypeOK /\ ActsAsShown /\ QuestionShown
<1>1. ActsAsShown
  BY DEF DialogsInv, Titled, Meant, ActsAsShown, In
<1>2. QuestionShown
  <2> DEFINE Asked == {i \in DOMAIN evs : evs[i].event = "ask"}
  <2>1. Asks1(evs, modal, busy)
    BY DEF DialogsInv
  <2>2. busy = "ask" <=> (In("ask") \/ Asked # {})
    BY <2>1 DEF Asks1, In
  <2>3. CASE Asked = {}
    <3>1. Cardinality(Asked) = 0
      BY <2>3, FS_EmptySet
    <3>2. QED
      BY <2>2, <3>1 DEF QuestionShown
  <2>4. CASE Asked # {}
    <3>1. PICK i \in Asked : Asked = {i}
      BY <2>1, <2>4 DEF Asks1
    <3>2. Cardinality(Asked) = 1 /\ ~In("ask")
      <4>1. Cardinality({i}) = 1
        BY FS_Singleton
      <4>2. QED
        BY <2>1, <2>4, <3>1, <4>1 DEF Asks1, In
    <3>3. QED
      BY <2>2, <3>2 DEF QuestionShown
  <2>5. QED
    BY <2>3, <2>4
<1>3. QED
  BY <1>1, <1>2 DEF DialogsInv

-----------------------------------------------------------------------------
(* The dialogs among the other machines of the screen                       *)
\* In every behaviour the invariant holds: the steps of the other machines leave
\* the dialogs alone (tui.c).
LEMMA ScreenStep ==
  ASSUME DialogsInv, [Step /\ UNCHANGED subject]_<<subject, dialogs, transcript, prompt, keys_, recall, picker, layout>>
  PROVE  DialogsInv'
<1>1. CASE DialogsNext
  BY <1>1, DialogsStep
<1>2. CASE UNCHANGED dialogs
  BY <1>2 DEF dialogs, asked, DialogsInv, DialogsTypeOK, Titled, Meant, Asks1, In
<1>3. QED
  BY <1>1, <1>2 DEF Step
THEOREM DialogsHold == Spec => []DialogsInv
<1>1. Start => DialogsInv
  BY DialogsStart DEF Start
<1>2. DialogsInv /\ [Step /\ UNCHANGED subject]_<<subject, dialogs, transcript, prompt, keys_, recall, picker, layout>> => DialogsInv'
  BY ScreenStep
<1>3. QED
  BY <1>1, <1>2, PTL DEF Spec

\* A picker is read as its title has it, a confirmation or an input is about the
\* session of the row that led to it, and the worker waits for an answer exactly
\* while its question waits in the ring or is on the screen (tui_picker.c, tui.c:489).
THEOREM DialogsAreTruthful == Spec => []DialogsTruthful
<1>1. DialogsInv => DialogsTruthful
  BY DialogsSound DEF DialogsTruthful
<1>2. QED
  BY <1>1, DialogsHold, PTL
=============================================================================
