----------------------------- MODULE TuiPicker -----------------------------
(***************************************************************************)
(* The list of a picker dialog: its filter, its cursor and the window of it    *)
(* that is drawn (src/tui/tui_dialogs.c, render_modal in tui_render.c).  Some  *)
(* rows are headers, as in the command palette: they are neither committed     *)
(* nor shown without a row of their section.                                 *)
(*                                                                         *)
(* Left out: the other kinds of modal (TuiDialogs), colours and cut texts,     *)
(* failing allocations.                                                     *)
(***************************************************************************)
EXTENDS Integers, Sequences, FiniteSets

CONSTANTS Lists,    \* lists of rows: [head, has], "has" the filters its text contains
          Filters,  \* what is typed, a set of sequences closed under prefixes
          Windows,  \* rows a frame has for the list
          MaxPresses  \* bound: keys
ASSUME PickerAssumption == <<>> \in Filters /\ Windows \subseteq Nat \ {0} /\ MaxPresses \in Nat

VARIABLES
  entries, filter,
  visible,        \* the rows that pass the filter
  cursor, top, window,   \* places in visible, from 0, and the rows of the last frame
  picked,         \* the row committed, 0 for none, -1 while the picker is open
  framed,         \* this is what the last frame shows (not in the code)
  hung,           \* picker_move does not end (not in the code)
  presses
picker == <<entries, filter, visible, cursor, top, window, picked, framed, hung, presses>>

Hit(list, f, i) == f = <<>> \/ f \in list[i].has
IsHeader(list, i) == list[i].head
\* The rows of the section that header i begins.
Section(list, i) == {j \in i + 1 .. Len(list) : \A k \in i + 1 .. j : ~IsHeader(list, k)}
\* Mutant of Passes: a header stays while any row behind it matches.
PassesAny(list, f, i) ==
  IF IsHeader(list, i) /\ f # <<>> THEN \E j \in i + 1 .. Len(list) : Hit(list, f, j) ELSE Hit(list, f, i)
Passes(list, f, i) ==
  IF IsHeader(list, i) /\ f # <<>> THEN \E j \in Section(list, i) : Hit(list, f, j) ELSE Hit(list, f, i)
\* picker_rebuild: the rows that pass, the cursor on the first that is no header.
Filtered(list, f) == SelectSeq([i \in DOMAIN list |-> i], LAMBDA i : Passes(list, f, i))
FirstSelectable(list, v) ==
  LET free == {r \in DOMAIN v : ~IsHeader(list, v[r])}
  IN IF free = {} THEN 0 ELSE (CHOOSE r \in free : \A q \in free : r <= q) - 1
Clamped(c) == IF c < 0 THEN 0 ELSE IF c >= Len(visible) THEN Len(visible) - 1 ELSE c
OnHeader(c) == c \in 0 .. Len(visible) - 1 /\ IsHeader(entries, visible[c + 1])
\* The first place from c on, in steps of delta, that is no header's.
Leave(c, delta) ==
  c + delta * CHOOSE k \in 0 .. Len(visible) :
                ~OnHeader(c + k * delta) /\ \A j \in 0 .. k - 1 : OnHeader(c + j * delta)
\* picker_move: a step of 0 from a header does not end.
TopFor(c, w) ==
  LET t1 == IF c < top THEN c ELSE IF c >= top + w THEN c - w + 1 ELSE top
      most == IF Len(visible) < w THEN 0 ELSE Len(visible) - w
  IN IF t1 > most THEN most ELSE t1
Moved(delta, w) ==
  IF visible = <<>> THEN [cursor |-> cursor, top |-> top, hung |-> FALSE]
  ELSE IF delta = 0 /\ OnHeader(Clamped(cursor)) THEN [cursor |-> cursor, top |-> top, hung |-> TRUE]
  ELSE LET c == Clamped(Leave(Clamped(cursor + delta), delta))
       IN [cursor |-> c, top |-> TopFor(c, w), hung |-> FALSE]

PickerInit ==
  /\ entries \in Lists /\ filter = <<>> /\ visible = [i \in DOMAIN entries |-> i]
  /\ cursor = FirstSelectable(entries, visible) /\ top = 0 /\ window = 8
  /\ picked = -1 /\ framed = FALSE /\ hung = FALSE /\ presses = 0

Open_ == picked = -1 /\ ~hung
PickerKey == Open_ /\ presses < MaxPresses /\ presses' = presses + 1 /\ framed' = FALSE
MoveBy(delta) ==
  LET m == Moved(delta, window)
  IN PickerKey /\ cursor' = m.cursor /\ top' = m.top /\ UNCHANGED <<entries, filter, visible, window, picked, hung>>
PageRows == IF window > 1 THEN window - 1 ELSE 1
Up == MoveBy(-1)
Down == MoveBy(1)
PageUp == MoveBy(-PageRows)
PageDown == MoveBy(PageRows)
Refilter(f) ==
  /\ PickerKey /\ filter' = f /\ visible' = Filtered(entries, f) /\ cursor' = FirstSelectable(entries, visible') /\ top' = 0
  /\ UNCHANGED <<entries, window, picked, hung>>
TypeFilter == \E f \in Filters : Len(f) = Len(filter) + 1 /\ SubSeq(f, 1, Len(filter)) = filter /\ Refilter(f)
Backspace == Refilter(IF filter = <<>> THEN <<>> ELSE SubSeq(filter, 1, Len(filter) - 1))
\* Enter on a header does nothing; on an empty list it cancels.
Enter ==
  /\ PickerKey /\ ~OnHeader(cursor)
  /\ picked' = IF visible = <<>> THEN 0 ELSE visible[cursor + 1]
  /\ UNCHANGED <<entries, filter, visible, cursor, top, window, hung>>
Escape == PickerKey /\ picked' = 0 /\ UNCHANGED <<entries, filter, visible, cursor, top, window, hung>>
\* A frame: the window is as high as the terminal lets it.
Render ==
  \E w \in Windows :
    LET m == Moved(0, w)
    IN /\ Open_ /\ window' = w /\ cursor' = m.cursor /\ top' = m.top /\ hung' = m.hung /\ framed' = ~m.hung
       /\ UNCHANGED <<entries, filter, visible, picked, presses>>
PickerNext == Up \/ Down \/ PageUp \/ PageDown \/ TypeFilter \/ Backspace \/ Enter \/ Escape \/ Render

(***************************************************************************)
(* Properties and claims.                                                   *)
(***************************************************************************)
\* What is drawn is what Enter takes: the row under the cursor is among those of
\* the frame, the frame wastes no row that the list could fill, each row shown
\* matches what is typed, each header has a row below it, and no row that
\* matches is left out.
PickerShows ==
  LET shown == {visible[r] : r \in DOMAIN visible}
  IN /\ framed /\ visible # <<>> => /\ cursor \in top .. top + window - 1
                                    /\ top = 0 \/ top + window <= Len(visible)
     /\ \A i \in DOMAIN entries : ~IsHeader(entries, i) => (i \in shown <=> Hit(entries, filter, i))
     /\ \A r \in DOMAIN visible : IsHeader(entries, visible[r]) /\ filter # <<>> =>
          r < Len(visible) /\ visible[r + 1] \in Section(entries, visible[r])
     /\ picked > 0 => ~IsHeader(entries, picked) /\ Hit(entries, filter, picked)
\* Claim (tui_dialogs.c:297, "never rest on a header row"): it fails.  Up at the
\* first row of the palette is clamped onto the header above it, and the next
\* frame's picker_move(m, 0) then never leaves its loop: the terminal hangs.
CursorOnRow == ~hung /\ (Open_ => ~OnHeader(cursor))
=============================================================================
