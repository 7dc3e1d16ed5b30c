------------------------------ MODULE FileTools ------------------------------
(***************************************************************************)
(* The files the agent's tools write and what undo and redo make of them      *)
(* (src/tools/write_file.c, edit.c, src/change_tracker/change_tracker.c,         *)
(* handle_undo and handle_redo, cmd_undo and cmd_redo), and the paths a tool    *)
(* may use (safety_check_path, safety_resolve_path_alloc in src/safety/safety.c). *)
(*                                                                         *)
(* A path is a sequence of names from the root of the file system; the path    *)
(* an agent gives is [abs, dots, names]: dots when a name is "..".  The tree    *)
(* has its directories, its links (to real paths that exist) and its files.    *)
(*                                                                         *)
(* A tool runs on one thread: the server's loop, which also serves undo, or    *)
(* the TUI's worker, while undo is on the TUI's own thread.  Left out: memory   *)
(* that runs out, two processes of the program, what the replies say, links to  *)
(* nothing, paths longer than PATH_MAX, permissions; the process runs in the    *)
(* workspace.                                                               *)
(***************************************************************************)
EXTENDS TextEdit

CONSTANTS Root,           \* the real path of safety.workspace
          Trees, Lists,   \* file systems and path policies to start with
          Paths,          \* paths the agent gives
          Writes,         \* texts it writes
          FileEdits,      \* edits it asks for
          MaxStack,       \* CT_MAX_STACK
          MaxChanges, MaxUndos  \* bounds: what happens, and undos and redos
\* A name of a file.  What realpath(3) finds where there is nothing is no path.
FileNames == STRING \ {"ENOENT", "ENOTDIR"}
Missing == <<"ENOENT">>
NotDir == <<"ENOTDIR">>
Bad == {Missing, NotDir}
\* A path on which no link lies.
Clear(tree, path) ==
  path \in Seq(FileNames) /\ \A n \in 0 .. Len(path) : SubSeq(path, 1, n) \notin DOMAIN tree.links
\* A file system: no directory is a file, no link lies on the way to either or to
\* where a link leads, and the workspace is a directory.
FileSystem(tree) ==
  /\ tree = [dirs |-> tree.dirs, links |-> tree.links, files |-> tree.files]
  /\ tree.links = [l \in DOMAIN tree.links |-> tree.links[l]]
  /\ \A d \in tree.dirs : d \notin DOMAIN tree.files /\ Clear(tree, d)
  /\ \A q \in DOMAIN tree.files : Clear(tree, q)
  /\ \A l \in DOMAIN tree.links : Clear(tree, tree.links[l])
  /\ \A n \in 0 .. Len(Root) : SubSeq(Root, 1, n) \in tree.dirs
ASSUME FileToolsAssumption ==
  /\ MaxStack \in Nat \ {0} /\ {MaxChanges, MaxUndos} \subseteq Nat
  /\ Root \in Seq(FileNames) /\ \A p \in Paths : p.names \in Seq(FileNames)
  /\ \A tree \in Trees : FileSystem(tree) /\ tree.files = [q \in DOMAIN tree.files |-> tree.files[q]]

VARIABLES
  front,      \* "server" or "tui"
  policy, rules,  \* the safety policy
  disk, origin,  \* the file system; the one it started as (not in the code)
  undo, redo,  \* ctx->change_tracker: [path, text], the top last
  tool,       \* the tool call on the way
  trail, ahead,  \* the files before each write that can be undone, and before each undo (not in the code)
  changes, undos
fileTools == <<front, policy, rules, disk, origin, undo, redo, tool, trail, ahead, changes, undos>>

\* ---- paths and directories ----
\* One name further: what it leads to when it is a link.
Into(tree, at, name) ==
  LET q == Append(at, name)
  IN IF at \in Bad THEN at
     ELSE IF at \in DOMAIN tree.files THEN NotDir
     ELSE IF q \in DOMAIN tree.links THEN tree.links[q]
     ELSE IF q \in tree.dirs \cup DOMAIN tree.files THEN q ELSE Missing
\* realpath(3): every link followed.
Realpath(tree, names) ==
  LET at[n \in 0 .. Len(names)] == IF n = 0 THEN <<>> ELSE Into(tree, at[n - 1], names[n]) IN at[Len(names)]
\* Mutant of IsWithin: a directory that only starts like the workspace is taken.
IsWithinLoose(real) == real # Missing /\ real # NotDir
IsWithin(real) == IsPrefix(Root, real)
HasPart(names, part) == \E i \in 1 .. Len(names) + 1 - Len(part) : SubSeq(names, i, i + Len(part) - 1) = part
\* safety_check_path; lists is the policy: the names that end in an extension
\* that is allowed (none configured: any) or blocked, and the parts blocked.
CheckPath(mode, lists, p) ==
  \/ mode = "unrestricted"
  \/ /\ ~p.dots
     /\ lists.allowed = {} \/ Last(p.names) \in lists.allowed
     /\ Last(p.names) \notin lists.blocked
     /\ \A part \in lists.parts : ~HasPart(p.names, part)
Candidate(p) == IF p.abs THEN p.names ELSE Root \o p.names
\* safety_resolve_path_alloc: a file that does not exist goes by its directory.
Resolve(mode, tree, p) ==
  LET c == Candidate(p)
      real == Realpath(tree, c)
      parent == Realpath(tree, Front(c))
  IN IF mode = "unrestricted" THEN c
     ELSE IF p.dots \/ real = NotDir THEN Missing
     ELSE IF real = Missing THEN IF parent \in Bad \/ ~IsWithin(parent) THEN Missing ELSE Append(parent, Last(c))
     ELSE IF IsWithin(real) THEN real ELSE Missing
\* Where a path that need not exist leads: what fopen would open or make.
Place(tree, path) ==
  LET real == Realpath(tree, path)
      parent == Realpath(tree, Front(path))
  IN IF real # Missing THEN real ELSE IF parent \in Bad THEN parent ELSE Append(parent, Last(path))

\* One step down: the directory there, or one made; inside the workspace if pinned.
Descend(s, prefix, pinned) ==
  LET real == Realpath(s.tree, prefix)
      made == Append(Realpath(s.tree, Front(prefix)), Last(prefix))
  IN IF ~s.ok THEN s
     ELSE IF real = NotDir THEN [s EXCEPT !.ok = FALSE]
     ELSE IF real = Missing THEN [ok |-> ~pinned \/ IsWithin(made), tree |-> [s.tree EXCEPT !.dirs = @ \cup {made}]]
     ELSE [s EXCEPT !.ok = ~pinned \/ IsWithin(real)]   \* a file fails at the next step
\* write_file_ensure_parents and write_file_mkdir_p: what was made stays when a
\* later step fails.
EnsureParents(mode, tree, p) ==
  LET dir == Front(Candidate(p))
      pinned == mode # "unrestricted"
      from == IF pinned THEN Len(Root) ELSE 0
      upTo[n \in from .. Len(dir)] ==
        IF n = from THEN [ok |-> TRUE, tree |-> tree] ELSE Descend(upTo[n - 1], SubSeq(dir, 1, n), pinned)
  IN IF pinned /\ (p.dots \/ ~IsPrefix(Root, dir)) THEN [ok |-> FALSE, tree |-> tree] ELSE upTo[Len(dir)]

NoWrite == [kind |-> "none", path |-> <<>>, text |-> <<>>, before |-> <<>>, snap |-> FALSE]
FilesInit ==
  /\ front \in {"server", "tui"} /\ policy \in {"restricted", "unrestricted"} /\ rules \in Lists
  /\ disk \in Trees /\ origin = disk /\ undo = <<>> /\ redo = <<>> /\ tool = NoWrite
  /\ trail = <<>> /\ ahead = <<>> /\ changes = 0 /\ undos = 0

Change == changes < MaxChanges /\ changes' = changes + 1 /\ UNCHANGED undos
MayUndo == (front = "tui" \/ tool = NoWrite) /\ undos < MaxUndos /\ undos' = undos + 1 /\ UNCHANGED changes
Settings == UNCHANGED <<front, policy, rules, origin>>
Stacks == UNCHANGED <<undo, redo>>
Forget == trail' = <<>> /\ ahead' = <<>>
Newest(stack) == SubSeq(stack, IF Len(stack) > MaxStack THEN Len(stack) + 1 - MaxStack ELSE 1, Len(stack))
With(files, path, text) == [q \in DOMAIN files \cup {path} |-> IF q = path THEN text ELSE files[q]]
CutShort(text) == {SubSeq(text, 1, n) : n \in 0 .. Len(text) - 1}
CanOpen(t, path) == LET p == Place(t, path) IN p \notin Bad \cup t.dirs
Put(t, path, text) == [t EXCEPT !.files = With(@, Place(t, path), text)]
HasFile(t, path) == Realpath(t, path) \in DOMAIN t.files
TextOf(t, path) == t.files[Realpath(t, path)]

\* ---- write_file ----
\* The path is resolved, its directories made where that fails (or where nothing
\* is pinned), and the file that is there put on the undo stack.
Snapshot(t, path) ==
  IF HasFile(t, path)
  THEN undo' = Newest(Append(undo, [path |-> path, text |-> TextOf(t, path)])) /\ redo' = <<>>
  ELSE Stacks
WriteCall ==
  \E p \in Paths, text \in Writes :
    LET found == Resolve(policy, disk, p)
        making == policy = "unrestricted" \/ found = Missing
        made == IF making THEN EnsureParents(policy, disk, p) ELSE [ok |-> TRUE, tree |-> disk]
        path == Resolve(policy, made.tree, p)
    IN /\ Change /\ tool = NoWrite /\ CheckPath(policy, rules, p) /\ Len(text) <= MaxFileSize
       /\ disk' = made.tree /\ UNCHANGED <<trail, ahead>>
       /\ IF made.ok /\ path # Missing
          THEN /\ Snapshot(made.tree, path)
               /\ tool' = [kind |-> "write", path |-> path, text |-> text, before |-> disk.files, snap |-> HasFile(disk, path)]
          ELSE Stacks /\ tool' = NoWrite
       /\ Settings
\* fopen fails, all is written, or less: the file was emptied before.
WritePut ==
  /\ tool.kind = "write" /\ tool' = NoWrite /\ Stacks /\ Settings /\ UNCHANGED <<changes, undos>>
  /\ \/ /\ CanOpen(disk, tool.path) /\ disk' = Put(disk, tool.path, tool.text)
        /\ trail' = (IF tool.snap THEN Newest(Append(trail, tool.before)) ELSE <<>>) /\ ahead' = <<>>
     \/ /\ CanOpen(disk, tool.path) /\ (\E part \in CutShort(tool.text) : disk' = Put(disk, tool.path, part)) /\ Forget
     \/ UNCHANGED disk /\ Forget

\* ---- edit ----
\* The file is read and what is to be written goes to a file beside it.
EditCall ==
  \E p \in Paths, es \in FileEdits :
    LET path == Resolve(policy, disk, p)
    IN /\ Change /\ tool = NoWrite /\ CheckPath(policy, rules, p) /\ path # Missing /\ HasFile(disk, path)
       /\ Edited(TextOf(disk, path), es).ok
       /\ tool' = [kind |-> "edit", path |-> path, text |-> Edited(TextOf(disk, path), es).file, before |-> disk.files, snap |-> FALSE]
       /\ Settings /\ Stacks /\ UNCHANGED <<disk, trail, ahead>>
\* Mutant of Renamed: the file is opened and written.
RenamedInPlace(t, path, text) == Put(t, path, SubSeq(text, 1, Len(text) - 1))
\* rename(2) puts it in the place of the file, or of the link to it.
Renamed(t, path, text) ==
  LET at == Append(Realpath(t, Front(path)), Last(path))
  IN [dirs |-> t.dirs, links |-> [q \in DOMAIN t.links \ {at} |-> t.links[q]], files |-> With(t.files, at, text)]
\* Any failure before the rename leaves the file as it is; without its directory
\* there is no file beside it.
EditPut ==
  /\ tool.kind = "edit" /\ tool' = NoWrite /\ Stacks /\ Forget
  /\ \/ UNCHANGED disk
     \/ Realpath(disk, Front(tool.path)) \notin Bad /\ disk' = Renamed(disk, tool.path, tool.text)
  /\ Settings /\ UNCHANGED <<changes, undos>>

\* ---- undo and redo ----
\* Mutant of UndoDone: the redo entry holds what undo writes, not what was there.
UndoSame(e) == undo' = Front(undo) /\ redo' = Newest(Append(redo, e))
\* What the file held goes on the redo stack, as a C string; nothing where
\* there is no file.
UndoDone(e) ==
  /\ undo' = Front(undo)
  /\ redo' = Newest(Append(redo, [path |-> e.path, text |-> IF HasFile(disk, e.path) THEN CString(TextOf(disk, e.path)) ELSE <<>>]))
\* A file with a NUL comes forward only up to it.
HoldsNul(t, path) == HasFile(t, path) /\ CString(TextOf(t, path)) # TextOf(t, path)
\* A failed restore keeps the entry; the file may have lost its end.
Undo ==
  LET e == Last(undo)
  IN /\ MayUndo /\ undo # <<>>
     /\ \/ /\ CanOpen(disk, e.path) /\ disk' = Put(disk, e.path, e.text) /\ UndoDone(e)
           /\ trail' = (IF trail = <<>> THEN trail ELSE Front(trail))
           /\ ahead' = (IF trail = <<>> \/ HoldsNul(disk, e.path) THEN <<>> ELSE Newest(Append(ahead, disk.files)))
        \/ /\ CanOpen(disk, e.path) /\ \E part \in CutShort(e.text) : disk' = Put(disk, e.path, part)
           /\ Stacks /\ ahead' = <<>> /\ UNCHANGED trail
     /\ Settings /\ UNCHANGED tool
\* The entry goes over as it is: what redo writes, not what was there.
Redo ==
  LET e == Last(redo)
  IN /\ MayUndo /\ redo # <<>>
     /\ \/ /\ CanOpen(disk, e.path) /\ disk' = Put(disk, e.path, e.text)
           /\ redo' = Front(redo) /\ undo' = Newest(Append(undo, e))
           /\ trail' = <<>> /\ ahead' = (IF ahead = <<>> THEN ahead ELSE Front(ahead))
        \/ /\ CanOpen(disk, e.path) /\ \E part \in CutShort(e.text) : disk' = Put(disk, e.path, part)
           /\ Stacks /\ trail' = <<>> /\ UNCHANGED ahead
     /\ Settings /\ UNCHANGED tool

\* ---- the world ----
\* The user changes or removes a file of the workspace.
Foreign ==
  \E q \in DOMAIN disk.files :
    /\ Change /\ IsPrefix(Root, q) /\ Forget /\ Settings /\ Stacks /\ tool' = [tool EXCEPT !.snap = FALSE]
    /\ \/ CanOpen(disk, q) /\ \E text \in Writes : disk' = Put(disk, q, text)
       \/ disk' = [disk EXCEPT !.files = [r \in DOMAIN @ \ {q} |-> @[r]]]
\* The process ends; a write that was on the way leaves any beginning of it.
Crash ==
  /\ Change /\ undo' = <<>> /\ redo' = <<>> /\ tool' = NoWrite /\ Forget /\ Settings
  /\ \/ UNCHANGED disk
     \/ /\ tool.kind = "write" /\ CanOpen(disk, tool.path)
        /\ \E part \in CutShort(tool.text) : disk' = Put(disk, tool.path, part)
FilesNext == WriteCall \/ WritePut \/ EditCall \/ EditPut \/ Undo \/ Redo \/ Foreign \/ Crash

(***************************************************************************)
(* Properties and claims.                                                   *)
(***************************************************************************)
Outside(t) == [dirs |-> {d \in t.dirs : ~IsPrefix(Root, d)}, links |-> {l \in DOMAIN t.links : ~IsPrefix(Root, l)},
               files |-> {<<q, t.files[q]>> : q \in {r \in DOMAIN t.files : ~IsPrefix(Root, r)}}]
\* In the restricted mode nothing outside the workspace is written, made or
\* replaced, through whatever link, missing directory, undo or redo.
OutsideUntouched == policy = "restricted" => Outside(disk) = Outside(origin)
\* An edit shows in a file whole or not at all, crash or no crash.
EditShowsWhole ==
  tool.kind = "edit" /\ tool'.kind = "none" =>
    \A q \in DOMAIN disk'.files : disk'.files[q] = tool.text \/ (q \in DOMAIN disk.files /\ disk'.files[q] = disk.files[q])
EditWhole == [][EditShowsWhole]_fileTools
\* On the server, undos go back through the writes that replaced a file, one by
\* one and after failed tries too, and the redos behind them come forward again,
\* each to exactly the files there were (redo only behind undos of files without
\* a NUL, where a redo entry ends).
WindsBack ==
  front = "server" =>
    /\ (Undo /\ undo' # undo /\ trail # <<>> => disk'.files = Last(trail))
    /\ (Redo /\ redo' # redo /\ ahead # <<>> => disk'.files = Last(ahead))
UndoWinds == [][WindsBack]_fileTools
\* Claim (change_tracker/README.md:8, "guarantees one undo step per edited file"):
\* once a tool has changed a file, undo has an entry of it.  An edit makes none,
\* a file made new makes none, and in the TUI an undo between the snapshot and
\* the write takes it away.
EveryChangeUndoable ==
  [][tool.kind # "none" /\ tool' = NoWrite /\ disk' # disk => tool.path \in {undo'[k].path : k \in DOMAIN undo'}]_fileTools
\* Claim (change_tracker.h:82, "re-apply the most recently undone change"): an
\* undo behind a redo takes it back.  It writes what is there already.
RedoUndone ==
  [][Redo /\ redo' # redo /\ disk' # disk => Last(undo').text # TextOf(disk', Last(undo').path)]_fileTools
=============================================================================
