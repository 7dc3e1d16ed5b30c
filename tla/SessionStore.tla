---------------------------- MODULE SessionStore ----------------------------
(***************************************************************************)
(* The stored sessions and everyone who reads and writes them: the agent's  *)
(* run and its title, the jobs of the terminal's worker, the commands of    *)
(* its UI thread, the REST handlers, and the functions for a single change. *)
(*                                                                          *)
(* Each function of the store is one critical section of sm->lock.  A save  *)
(* replaces the whole row, so what matters is what was loaded when.  In the  *)
(* terminal the UI thread and the worker interleave; in the server one       *)
(* thread serves all, and requests come between runs or in their waits.      *)
(* Branches of a session are in SessionBranch, keys in PasswordMigration.    *)
(* Left out: failing allocations, texts, times but for "before the cutoff".  *)
(***************************************************************************)
EXTENDS Naturals, Sequences, FiniteSets, SequencesExt
CONSTANTS SessionIds, NoId, NoRow,
          Stored,       \* what the vault holds at first: a message in each session
          MaxSaid       \* bound: messages said in all
ASSUME StoreAssumption ==
    /\ IsFiniteSet(SessionIds) /\ NoId \notin SessionIds /\ MaxSaid \in Nat
    /\ DOMAIN Stored \subseteq SessionIds /\ Stored \in [DOMAIN Stored -> Seq(1..MaxSaid)]
    /\ Cardinality(DOMAIN Stored) <= MaxSaid

VARIABLES front,        \* who uses the store: "terminal", "server" or "library"
          rows,         \* the table agent_sessions
          agent,        \* the agent's session_id, messages and whether it has the store
          work,         \* where the run or the worker's job is
          loaded,       \* the Session that each thread has loaded and not yet saved
          shown,        \* app->session_id, told by the worker (the ring between is in TuiWorker)
          file,         \* a session exported through REST
          said,         \* messages said so far
          misled,       \* the user was told of a deletion what is not so
          overtaken,    \* history: threads whose copy another caller has since overtaken
          loose,        \* history: sessions saved from such a copy
          dead,         \* history: sessions deleted and not imported again
          made,         \* history: titles made for each session
          imports       \* history: parity of the imports that succeeded
sessions == <<front, rows, agent, work, loaded, shown, file, said, misled, overtaken, loose, dead, made, imports>>
past == <<overtaken, loose, dead, made, imports>>
ui == <<shown, file, misled>>

Threads == {"worker", "other"}
Titles == {"new", "made", "user"}
Messages == 1..MaxSaid     \* user, assistant and tool messages
System == 0
Rows == [title : Titles, msgs : Seq(Messages), tried : BOOLEAN, events : 0..1, good : BOOLEAN]
ASSUME RowAssumption == NoRow \notin Rows
NoCopy == [id |-> NoId, row |-> NoRow]

-----------------------------------------------------------------------------
(* The store.                                                               *)
Blank(title) == [title |-> title, msgs |-> <<>>, tried |-> FALSE, events |-> 0, good |-> TRUE]
Existing == {id \in SessionIds : rows[id] # NoRow}
(* session_create's ids, of the time and a random number, are not met twice.  *)
Fresh ==
    {id \in SessionIds : rows[id] = NoRow} \
        (dead \cup loose \cup {file.id, shown, agent.id, loaded["worker"].id, loaded["other"].id})
(* All four blobs decrypt and parse, or there is no session.                 *)
Readable(id) == id \in SessionIds /\ rows[id] # NoRow /\ rows[id].good
Load(id) == IF Readable(id) THEN rows[id] ELSE NoRow
Overtaken(t, id) == [s \in Threads |-> overtaken[s] \/ (s # t /\ loaded[s].id = id)]

(* A save of a loaded Session: the row as a whole, whatever it is by now.    *)
SaveRow(t, id, row) ==
    /\ rows' = [rows EXCEPT ![id] = row]
    /\ overtaken' = [Overtaken(t, id) EXCEPT ![t] = FALSE]
    /\ loose' = IF overtaken[t] THEN loose \cup {id} ELSE loose
SaveFails(t) == overtaken' = [overtaken EXCEPT ![t] = FALSE] /\ UNCHANGED <<rows, loose>>
SaveMay(t, id, row) == SaveRow(t, id, row) \/ SaveFails(t)

(* A load in one critical section, for a save in another.                    *)
Takes(t, id) == loaded' = [loaded EXCEPT ![t] = [id |-> id, row |-> Load(id)]]
Drops(t) == loaded' = [loaded EXCEPT ![t] = NoCopy]

(* A change within one critical section: nobody's copy is involved.          *)
Change(id, row) ==
    /\ rows' = [rows EXCEPT ![id] = row]
    /\ overtaken' = Overtaken("nobody", id)
    /\ UNCHANGED <<loose, made, imports>>

RemoveRows(gone) ==
    /\ rows' = [id \in SessionIds |-> IF id \in gone THEN NoRow ELSE rows[id]]
    /\ dead' = dead \cup gone
    /\ overtaken' = [t \in Threads |-> overtaken[t] \/ loaded[t].id \in gone]
    /\ UNCHANGED <<loose, made, imports>>

(* session_manager_delete_session: 1 if a row went, 0 if there was none; it   *)
(* needs no key, so a damaged row goes too.                                   *)
DeleteCode(id) == IF rows[id] # NoRow THEN 1 ELSE 0
Told(success) == IF success THEN 1 ELSE 0
DeleteRow(id) == RemoveRows(IF DeleteCode(id) = 1 THEN {id} ELSE {})

(* agent_save_session, under the lock from load to save.  A session that is   *)
(* gone or cannot be read gets a new id; the agent keeps it if the save fails. *)
SavedAs(fresh) == IF Readable(agent.id) THEN agent.id ELSE fresh
AgentSave(msgs) ==
    IF ~agent.store
    THEN agent' = [agent EXCEPT !.msgs = msgs] /\ UNCHANGED <<rows, overtaken, loose>>
    ELSE \E fresh \in Fresh :
           LET id == SavedAs(fresh)
               row == IF id = agent.id THEN rows[id] ELSE Blank("new")
           IN  /\ agent' = [agent EXCEPT !.id = id, !.msgs = msgs]
               /\ \/ /\ rows' = [rows EXCEPT ![id] = [row EXCEPT !.msgs = msgs]]
                     /\ overtaken' = Overtaken("nobody", id)
                  \/ UNCHANGED <<rows, overtaken>>
               /\ UNCHANGED loose

-----------------------------------------------------------------------------
(* A run: every save is of the agent's own copy of the messages.             *)
Speak == said < MaxSaid /\ said' = said + 1
RunStep(from, to, msgs) ==
    /\ work = from /\ work' = to
    /\ AgentSave(msgs)
    /\ UNCHANGED <<front, loaded, dead, made, imports>> /\ UNCHANGED ui

AskAgent ==
    /\ front # "library" /\ Speak
    /\ RunStep("idle", "turn", Append(agent.msgs, said + 1))

(* The model asks for a tool: its message is saved, the tool runs (and may    *)
(* wait for the user), its result is saved.                                   *)
ToolTurn == Speak /\ RunStep("turn", "tool", Append(agent.msgs, said + 1))
ToolResult == Speak /\ RunStep("tool", "turn", Append(agent.msgs, said + 1))
TurnFails ==
    /\ work = "turn" /\ work' = "end"
    /\ UNCHANGED <<front, rows, agent, loaded, said>> /\ UNCHANGED past /\ UNCHANGED ui

(* The answer is saved, and again with the results of the run's calls.        *)
AnswerTurn == Speak /\ RunStep("turn", "answered", Append(agent.msgs, said + 1))
AnswerWhole == UNCHANGED said /\ RunStep("answered", "title", agent.msgs)

(* agent_generate_title: look, load again and save the mark.                  *)
TitleStep(from, to) ==
    /\ work = from /\ work' = to
    /\ UNCHANGED <<front, agent, said, dead, imports>> /\ UNCHANGED ui
TitleLook ==
    /\ TitleStep("title", IF agent.store /\ Readable(agent.id) /\ ~rows[agent.id].tried THEN "mark" ELSE "end")
    /\ UNCHANGED <<rows, loaded, overtaken, loose, made>>
\* Mutant of TitleLoad: the session is loaded before it is known to be wanted.
TitleLoadHeld(from, to) ==
    /\ TitleStep(from, IF Readable(agent.id) /\ ~rows[agent.id].tried THEN to ELSE "end")
    /\ IF Readable(agent.id) THEN Takes("worker", agent.id) ELSE UNCHANGED loaded
    /\ UNCHANGED <<rows, overtaken, loose, made>>
TitleLoad(from, to) ==
    /\ TitleStep(from, IF Readable(agent.id) THEN to ELSE "end")
    /\ IF Readable(agent.id) THEN Takes("worker", agent.id) ELSE UNCHANGED loaded
    /\ UNCHANGED <<rows, overtaken, loose, made>>
TitleMark ==
    LET id == loaded["worker"].id
        row == [loaded["worker"].row EXCEPT !.tried = TRUE]
    IN  /\ Drops("worker")
        /\ \/ TitleStep("marking", "model") /\ SaveRow("worker", id, row)
           \/ TitleStep("marking", "end") /\ SaveFails("worker")
        /\ UNCHANGED made
(* The model's title, or the start of the first message.                      *)
TitleApply ==
    LET id == loaded["worker"].id
        row == [loaded["worker"].row EXCEPT !.title = "made"]
    IN  /\ TitleStep("titling", "end") /\ Drops("worker")
        /\ \/ SaveRow("worker", id, row) /\ made' = [made EXCEPT ![id] = @ + 1]
           \/ SaveFails("worker") /\ UNCHANGED made

(* The end of a run tells the UI the session id, if there is one.             *)
EndRun ==
    /\ work = "end" /\ work' = "idle"
    /\ shown' = IF agent.id = NoId THEN shown ELSE agent.id
    /\ UNCHANGED <<front, rows, agent, loaded, said, file, misled>> /\ UNCHANGED past

AgentRun == \/ AskAgent \/ ToolTurn \/ ToolResult \/ TurnFails \/ AnswerTurn \/ AnswerWhole
       \/ TitleLook \/ TitleLoad("mark", "marking") \/ TitleMark
       \/ TitleLoad("model", "titling") \/ TitleApply \/ EndRun

-----------------------------------------------------------------------------
(* The jobs of the terminal's worker, when it is idle.                       *)
Job(to) ==
    /\ front = "terminal" /\ work = "idle" /\ work' = to
    /\ UNCHANGED <<front, said>>

(* The factory's agent has the store and no session; the UI is not told.      *)
JobNew ==
    /\ Job("idle") /\ agent' = [id |-> NoId, msgs |-> <<>>, store |-> TRUE]
    /\ UNCHANGED <<rows, loaded, shown, file, misled>> /\ UNCHANGED past
JobLoad(id) ==
    /\ Job("idle") /\ Readable(id)
    /\ agent' = [agent EXCEPT !.id = id, !.msgs = rows[id].msgs] /\ shown' = id
    /\ UNCHANGED <<rows, loaded, file, misled>> /\ UNCHANGED past
(* It takes 0 for success.                                                   *)
JobDelete(id) ==
    /\ Job("idle") /\ DeleteRow(id)
    /\ misled' = (misled \/ Told(DeleteCode(id) = 0) # DeleteCode(id))
    /\ UNCHANGED <<agent, loaded, shown, file>>
JobRename(id) ==
    /\ Job("rename") /\ Readable(id) /\ Takes("worker", id)
    /\ UNCHANGED <<rows, agent, shown, file, misled>> /\ UNCHANGED past
RenameSave ==
    /\ work = "rename" /\ work' = "idle" /\ Drops("worker")
    /\ SaveMay("worker", loaded["worker"].id, [loaded["worker"].row EXCEPT !.title = "user"])
    /\ UNCHANGED <<front, agent, said, dead, made, imports>> /\ UNCHANGED ui
JobLock ==
    /\ Job("idle") /\ agent' = [agent EXCEPT !.store = FALSE] /\ shown' = NoId
    /\ UNCHANGED <<rows, loaded, file, misled>> /\ UNCHANGED past
JobUnlock ==
    /\ Job("idle") /\ agent' = [agent EXCEPT !.store = TRUE]
    /\ UNCHANGED <<rows, loaded, shown, file, misled>> /\ UNCHANGED past
Jobs == JobNew \/ JobLock \/ JobUnlock \/ \E id \in SessionIds : JobLoad(id) \/ JobDelete(id) \/ JobRename(id)

(* The UI thread: /save loads what the status bar shows, and saves its title. *)
Ui == front = "terminal" /\ UNCHANGED <<front, agent, work, file, said, shown, misled>>
SlashSave ==
    /\ Ui /\ Readable(shown) /\ loaded["other"] = NoCopy /\ Takes("other", shown)
    /\ UNCHANGED rows /\ UNCHANGED past
SlashSaveEnds ==
    /\ Ui /\ loaded["other"] # NoCopy /\ Drops("other")
    /\ SaveMay("other", loaded["other"].id, [loaded["other"].row EXCEPT !.title = "user"])
    /\ UNCHANGED <<dead, made, imports>>

Terminal == Jobs \/ RenameSave \/ SlashSave \/ SlashSaveEnds

-----------------------------------------------------------------------------
(* The REST handlers, each from its load to its save without a break, between *)
(* runs or while one waits for its user.                                     *)
Rest ==
    /\ front = "server" /\ work \in {"idle", "tool"}
    /\ UNCHANGED <<front, agent, work, loaded, shown, said>>
CreateSession ==
    /\ Rest /\ UNCHANGED <<file, misled, dead>>
    /\ \E id \in Fresh : Change(id, Blank("user"))
UpdateSession(id) ==
    /\ Rest /\ Readable(id) /\ Change(id, [rows[id] EXCEPT !.title = "user"])
    /\ UNCHANGED <<file, misled, dead>>
RenameSession(id) == UpdateSession(id)   \* the id in the body instead of the path
DeleteSession(id) ==
    /\ Rest /\ DeleteRow(id) /\ UNCHANGED file
    /\ misled' = (misled \/ Told(DeleteCode(id) = 1) # DeleteCode(id))
Exported(id) == [id |-> id, row |-> Load(id)]
ExportSession(id) ==
    /\ Rest /\ Readable(id) /\ file' = Exported(id)
    /\ UNCHANGED <<rows, misled>> /\ UNCHANGED past
(* What is imported is an exported session or one made elsewhere, which may    *)
(* hold system messages: these are left out.  Only a free id is inserted.      *)
Imported(row) ==
    LET Kept[n \in 0..Len(row.msgs)] ==
            IF n = 0 THEN <<>>
            ELSE IF row.msgs[n] = System THEN Kept[n - 1] ELSE Append(Kept[n - 1], row.msgs[n])
    IN  [row EXCEPT !.msgs = Kept[Len(row.msgs)]]
\* Mutant of IfAbsent: INSERT OR REPLACE.
IfAbsentOver(id, row) == rows' = [rows EXCEPT ![id] = row]
IfAbsent(id, row) == rows[id] = NoRow /\ rows' = [rows EXCEPT ![id] = row]
ImportSession ==
    /\ Rest /\ file # NoCopy
    /\ \E before \in {<<>>, <<System>>} : IfAbsent(file.id, Imported([file.row EXCEPT !.msgs = before \o @]))
    /\ overtaken' = Overtaken("nobody", file.id)
    /\ dead' = dead \ {file.id} /\ made' = [made EXCEPT ![file.id] = 0] /\ imports' = 1 - imports
    /\ UNCHANGED <<file, misled, loose>>
(* A WebSocket connection that names a session loads it into its agent.       *)
Connect(id) ==
    /\ front = "server" /\ work = "idle" /\ Readable(id)
    /\ agent' = [agent EXCEPT !.id = id, !.msgs = rows[id].msgs]
    /\ UNCHANGED <<front, rows, work, loaded, said>> /\ UNCHANGED past /\ UNCHANGED ui
Server == CreateSession \/ ImportSession \/ \E id \in SessionIds : UpdateSession(id) \/ RenameSession(id) \/ DeleteSession(id) \/ ExportSession(id) \/ Connect(id)

-----------------------------------------------------------------------------
(* The functions for one change, which load and save under one lock; the      *)
(* program itself does not call them.                                        *)
Library == front = "library" /\ UNCHANGED <<front, agent, work, loaded>> /\ UNCHANGED ui
AddMessage(id) ==
    /\ Library /\ Speak /\ Readable(id)
    /\ Change(id, [rows[id] EXCEPT !.msgs = Append(@, said + 1)]) /\ UNCHANGED dead
TruncateHistory(id) ==
    /\ Library /\ UNCHANGED said /\ Readable(id)
    /\ \E index \in 1..Len(rows[id].msgs) :
          rows' = [rows EXCEPT ![id].msgs = SubSeq(@, 1, index - 1)]
    /\ overtaken' = Overtaken("nobody", id) /\ loose' = loose \cup {id}
    /\ UNCHANGED <<dead, made, imports>>
LogEvent(id) ==
    /\ Library /\ UNCHANGED said /\ Readable(id)
    /\ Change(id, [rows[id] EXCEPT !.events = 1]) /\ UNCHANGED dead
(* Rows begun before a cutoff: any of them, or -1 for a bad number of days.    *)
PurgeSessions == Library /\ UNCHANGED said /\ \E gone \in SUBSET Existing : RemoveRows(gone)
LibraryCalls == PurgeSessions \/ \E id \in SessionIds : AddMessage(id) \/ TruncateHistory(id) \/ LogEvent(id)

-----------------------------------------------------------------------------
StoreInit ==
    /\ front \in {"terminal", "server", "library"}
    /\ \E hurt \in SUBSET DOMAIN Stored :
          rows = [id \in SessionIds |-> IF id \notin DOMAIN Stored THEN NoRow
                    ELSE [Blank("user") EXCEPT !.msgs = Stored[id], !.good = id \notin hurt]]
    /\ agent = [id |-> NoId, msgs |-> <<>>, store |-> TRUE]
    /\ work = "idle" /\ loaded = [t \in Threads |-> NoCopy]
    /\ shown = NoId /\ file = NoCopy /\ said = Cardinality(DOMAIN Stored)
    /\ misled = FALSE
    /\ overtaken = [t \in Threads |-> FALSE] /\ loose = {} /\ dead = {}
    /\ made = [id \in SessionIds |-> 0] /\ imports = 0

StoreNext == AgentRun \/ Terminal \/ Server \/ LibraryCalls

-----------------------------------------------------------------------------
(* Types; the worker holds a loaded session only on its way to a save.        *)
StoreTypeOK ==
    /\ front \in {"terminal", "server", "library"}
    /\ \A id \in SessionIds : rows[id] = NoRow \/ rows[id] \in Rows
    /\ agent.id \in SessionIds \cup {NoId} /\ agent.msgs \in Seq(Messages) /\ agent.store \in BOOLEAN
    /\ work \in {"idle", "turn", "tool", "answered", "title", "mark", "marking", "model", "titling", "end", "rename"}
    /\ (loaded["worker"] # NoCopy) = (work \in {"marking", "titling", "rename"})
    /\ shown \in SessionIds \cup {NoId} /\ misled \in BOOLEAN /\ said \in 0..MaxSaid

(* What the archive promises: nothing said is lost, what was deleted stays    *)
(* deleted and a title is made once, but for a session that two callers saved *)
(* over each other (session_manager.c, agent.c:177, agent_title.c:129,       *)
(* tui_cmd.c:34, routes_session.c:330).                                     *)
Archived(id) ==
    LET kept == id \notin loose \cup dead /\ rows[id] # NoRow
    IN  [state   |-> CASE id \in loose -> "loose" [] id \in dead \ loose -> "gone" [] kept -> "kept" [] OTHER -> "none",
         history |-> IF kept THEN rows[id].msgs ELSE <<>>,
         made    |-> IF kept THEN made[id] ELSE 0]
Archive == INSTANCE SessionArchive WITH Ids <- SessionIds, archive <- [id \in SessionIds |-> Archived(id)]
ImplementsArchive == Archive!Spec

(* The user is told that a session is deleted if and only if it is            *)
(* (session_manager.h:167, tui_worker.c:496).                               *)
DeletionReported == ~misled
=============================================================================
