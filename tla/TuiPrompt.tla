----------------------------- MODULE TuiPrompt -----------------------------
(***************************************************************************)
(* The line the user types: the editor with its walk through the history      *)
(* (src/tui/tui_input.c), the history on disk and the stash of drafts         *)
(* (src/tui/tui_prompt_store.c), and the commands that move a draft between    *)
(* them (tui_picker.c, tui_cmd.c).                                          *)
(*                                                                         *)
(* A text is a number, 0 the empty one.  Left out: the cursor, failing files  *)
(* and allocations, and what a file rewritten in place loses to a crash or to *)
(* another terminal that writes it too.                                     *)
(***************************************************************************)
EXTENDS Integers, Sequences, FiniteSetsExt, SequencesExt

CONSTANTS Texts,      \* what the user types
          RingCap,    \* history_cap of the editor
          FileCap,    \* entries a file keeps
          MaxMoves    \* bound: what the user does
ASSUME PromptAssumption ==
  /\ Texts \subseteq Nat \ {0} /\ RingCap \in Nat \ {0} /\ FileCap \in Nat \ {0} /\ MaxMoves \in Nat

VARIABLES
  draft,            \* the text in the editor
  ring, head, used, \* history: its slots, the oldest one, how many are in use
  walking, walk,    \* a walk goes on, so many entries behind the newest
  saved,            \* the draft the walk began at
  historyFile, stashFile,  \* oldest first
  offered,           \* the stash as the open picker shows it: newest first
  moves,
  submitted,        \* the lines submitted since the start, and those before (not in the code)
  owed              \* drafts the stash has to keep (not in the code)
editor == <<draft, ring, head, used, walking, walk, saved>>
prompt == <<editor, historyFile, stashFile, offered, moves, submitted, owed>>

\* history_push: an array with a head that moves when it is full.
Newest == (head + used - 1) % RingCap
\* Mutant of Pushed: the head stays when the oldest is overwritten.
PushedStill(r, h, u, t) ==
  IF u > 0 /\ r[(h + u - 1) % RingCap] = t THEN [ring |-> r, head |-> h, used |-> u]
  ELSE IF u < RingCap THEN [ring |-> [r EXCEPT ![(h + u) % RingCap] = t], head |-> h, used |-> u + 1]
  ELSE [ring |-> [r EXCEPT ![h] = t], head |-> h, used |-> u]
Pushed(r, h, u, t) ==
  IF u > 0 /\ r[(h + u - 1) % RingCap] = t THEN [ring |-> r, head |-> h, used |-> u]
  ELSE IF u < RingCap THEN [ring |-> [r EXCEPT ![(h + u) % RingCap] = t], head |-> h, used |-> u + 1]
  ELSE [ring |-> [r EXCEPT ![h] = t], head |-> (h + 1) % RingCap, used |-> u]
Entry(n) == ring[(head + used - 1 - n) % RingCap]
Empty == [i \in 0 .. RingCap - 1 |-> 0]
\* tui_input_seed_history.
Seeded(lines) == FoldLeft(LAMBDA s, t : Pushed(s.ring, s.head, s.used, t), [ring |-> Empty, head |-> 0, used |-> 0], lines)

\* tui_prompt_store_history_append: not twice in a row, and the newest only.
Newer(lines, cap) == SubSeq(lines, Max({1, Len(lines) - cap + 1}), Len(lines))
Appended(file, t) == IF file # <<>> /\ Last(file) = t THEN file ELSE Newer(Append(file, t), FileCap)
\* Mutant of Removed: the row is taken for the place in the file.
RemovedSame(file, row) == RemoveAt(file, row)
\* The picker's rows are newest first, the file's oldest first.
Removed(file, row) == RemoveAt(file, Len(file) + 1 - row)

PromptInit ==
  /\ draft = 0 /\ ring = Empty /\ head = 0 /\ used = 0 /\ walking = FALSE /\ walk = 0 /\ saved = 0
  /\ historyFile = <<>> /\ stashFile = <<>> /\ offered = <<>> /\ moves = 0 /\ submitted = <<>> /\ owed = {}

Move == moves < MaxMoves /\ moves' = moves + 1
Closed == offered = <<>>
EndWalk == walking' = FALSE /\ saved' = 0 /\ UNCHANGED walk
History == UNCHANGED <<ring, head, used>>
Files == UNCHANGED <<historyFile, stashFile, offered, submitted, owed>>

\* Typing, deleting, pasting, the editor's text: each ends the walk.
Type ==
  /\ Move /\ Closed /\ EndWalk /\ History /\ Files /\ \E t \in Texts \cup {0} : draft' = t
\* Every line goes into the ring, a prompt the worker took into the file too.
SubmitLine ==
  /\ Move /\ Closed /\ draft # 0 /\ draft' = 0 /\ EndWalk
  /\ LET s == Pushed(ring, head, used, draft) IN ring' = s.ring /\ head' = s.head /\ used' = s.used
  /\ \E file \in {historyFile, Appended(historyFile, draft)} : historyFile' = file
  /\ submitted' = IF submitted # <<>> /\ Last(submitted) = draft THEN submitted ELSE Append(submitted, draft)
  /\ UNCHANGED <<stashFile, offered, owed>>
HistoryBack ==
  /\ Move /\ Closed /\ used > 0 /\ History /\ Files
  /\ IF ~walking THEN walking' = TRUE /\ walk' = 0 /\ saved' = draft
     ELSE walk < used - 1 /\ walk' = walk + 1 /\ UNCHANGED <<walking, saved>>
  /\ draft' = Entry(walk')
HistoryForward ==
  /\ Move /\ Closed /\ walking /\ History /\ Files
  /\ IF walk = 0 THEN draft' = saved /\ walking' = FALSE /\ UNCHANGED <<walk, saved>>
     ELSE walk' = walk - 1 /\ draft' = Entry(walk') /\ UNCHANGED <<walking, saved>>

\* The draft goes to the stash; the walk it may have come from goes on.
StashPush ==
  /\ Move /\ Closed /\ draft # 0 /\ draft' = 0 /\ stashFile' = Appended(stashFile, draft)
  /\ owed' = (owed \cup {draft}) \cap ToSet(stashFile')
  /\ UNCHANGED <<ring, head, used, walking, walk, saved, historyFile, offered, submitted>>
\* Into the editor, over the draft that is there.
StashPop ==
  /\ Move /\ Closed /\ stashFile # <<>> /\ EndWalk /\ History
  /\ draft' = Last(stashFile) /\ stashFile' = Front(stashFile)
  /\ owed' = IF draft' \in ToSet(stashFile') THEN owed ELSE owed \ {draft'}
  /\ UNCHANGED <<historyFile, offered, submitted>>
StashList ==
  /\ Move /\ Closed /\ stashFile # <<>> /\ offered' = Reverse(stashFile)
  /\ UNCHANGED <<editor, historyFile, stashFile, submitted, owed>>
\* The row's text, and the entry at its place in the file as it is by now.
StashPick ==
  \E row \in DOMAIN offered :
    /\ Move /\ EndWalk /\ History /\ draft' = offered[row] /\ offered' = <<>>
    /\ stashFile' = Removed(stashFile, row)
    /\ owed' = IF \E i \in DOMAIN offered : i # row /\ offered[i] = draft' THEN owed ELSE owed \ {draft'}
    /\ UNCHANGED <<historyFile, submitted>>
StashCancel == Move /\ ~Closed /\ offered' = <<>> /\ UNCHANGED <<editor, historyFile, stashFile, submitted, owed>>

\* The terminal is started again: the ring is filled from the file.
Reopen ==
  /\ Move /\ Closed /\ draft' = 0 /\ EndWalk
  /\ LET s == Seeded(historyFile) IN ring' = s.ring /\ head' = s.head /\ used' = s.used
  /\ submitted' = historyFile /\ UNCHANGED <<historyFile, stashFile, offered, owed>>

PromptNext ==
  \/ Type \/ SubmitLine \/ HistoryBack \/ HistoryForward
  \/ StashPush \/ StashPop \/ StashList \/ StashPick \/ StashCancel \/ Reopen

(***************************************************************************)
(* Properties.                                                              *)
(***************************************************************************)
\* A draft is not lost: the stash has each it was given and has not given back
\* (but for those its limit drops), a walk through the history ends at the draft
\* it began with, and walks over the newest lines, newest first.
DraftsSafe ==
  /\ owed \subseteq ToSet(stashFile)
  /\ used = Min({Len(submitted), RingCap})
  /\ \A n \in 0 .. used - 1 : Entry(n) = submitted[Len(submitted) - n]
  /\ walking => walk < used
=============================================================================
