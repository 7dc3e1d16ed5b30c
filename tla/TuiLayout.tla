----------------------------- MODULE TuiLayout -----------------------------
(***************************************************************************)
(* Where things are on the terminal: the planes (layout_planes in             *)
(* src/tui/tui.c), the lines of the chat pane, what of them is drawn and what  *)
(* a click on them means (tui_chat.c, render_chat in tui_render.c, tui.c), and  *)
(* the wrapping of a text (tui_chat_wrap).                                  *)
(*                                                                         *)
(* A block is its kind and the lines its text wraps to; a text is a sequence   *)
(* of symbols with a width: narrow, wide, combining, space, line feed.  Left   *)
(* out: colours, markdown (whose tables take the rows of their lines), the      *)
(* sidebar's width and what is written in the status and input panes.         *)
(***************************************************************************)
EXTENDS Integers, Sequences, SequencesExt, FiniteSets

CONSTANTS Threshold,   \* TUI_CHAT_COLLAPSE_THRESHOLD
          Page,        \* lines a scroll key moves
          Heights,     \* rows the terminal may have
          Sizes,       \* lines of a block
          MaxBlocks, MaxEdits,  \* bounds: blocks, what happens
          Texts_,      \* texts to wrap
          Columns      \* widths to wrap them to
ASSUME LayoutAssumption ==
  /\ {Threshold, Page} \subseteq Nat \ {0} /\ Heights \subseteq Nat \ {0} /\ Sizes \subseteq Nat \ {0}
  /\ MaxBlocks \in Nat /\ MaxEdits \in Nat /\ Columns \subseteq Nat \ {0}

VARIABLES
  blocks,      \* [tool, lines, expanded]
  height,      \* rows of the terminal
  inputRows, laid,  \* rows the input wants, and had when the planes were made
  bar,         \* rows of the approval bar
  chatTop, pinned,  \* app->chat_top, app->auto_scroll
  frame,       \* the lines of the last frame, top row first
  edits,
  sample       \* a text and a width
layout == <<blocks, height, inputRows, laid, bar, chatTop, pinned, frame, edits, sample>>

\* ---- the lines of the pane ----
Long(b) == b.tool /\ b.lines > Threshold
\* tui_chat_block_render_lines: a header, the content, the marker of a long tool block.
BlockLines(b) == 1 + (IF Long(b) /\ ~b.expanded THEN Threshold ELSE b.lines) + (IF Long(b) THEN 1 ELSE 0)
\* A blank line separates a block from the next.
StartOf(bs, n) == FoldLeft(LAMBDA sum, b : sum + BlockLines(b) + 1, 0, SubSeq(bs, 1, n - 1))
\* Mutant of TotalLines: the separators are not counted.
TotalBare(bs) == FoldLeft(LAMBDA sum, b : sum + BlockLines(b), 0, bs)
TotalLines(bs) == IF bs = <<>> THEN 1 ELSE StartOf(bs, Len(bs) + 1)
MaxTop(bs, rows) == IF TotalLines(bs) > rows THEN TotalLines(bs) - rows ELSE 0
Separators(bs) == {StartOf(bs, n + 1) - 1 : n \in DOMAIN bs}
\* render_chat: the lines from the top on; a separator is asked for as the line behind it.
Drawn(bs, t, rows) ==
  LET all == [i \in 1 .. StartOf(bs, Len(bs) + 1) |-> i - 1]
      from == SelectSeq(all, LAMBDA v : v >= t \/ (v + 1 = t /\ v \in Separators(bs)))
  IN SubSeq(from, 1, IF Len(from) < rows THEN Len(from) ELSE rows)

\* ---- the planes: rows from .. to of each, the chat one's height ----
InputRows(rows, want) == IF want + 5 > rows THEN rows - 5 ELSE want
BarRows(rows) == IF bar > rows - 5 THEN rows - 5 ELSE bar
ChatRows(rows) ==
  LET h == rows - 3 - BarRows(rows) - InputRows(rows, inputRows) IN IF h < 1 THEN 1 ELSE h
Planes(rows) ==
  LET i == InputRows(rows, inputRows)  b == BarRows(rows)
  IN [status |-> {0}, tools |-> {1}, chat |-> 2 .. ChatRows(rows) + 1,
      prompt |-> rows - 1 - b - i .. rows - 2 - i, input |-> rows - 1 - i .. rows - 2, footer |-> {rows - 1}]

\* ---- the wrapping of a text ----
WidthOf == [n |-> 1, w |-> 2, c |-> 0, s |-> 1, l |-> 0]
\* tui_chat_wrap: i the place, col the columns of the words that are complete.
WrapStep(text, width, s, i) ==
  LET sym == text[i]
      word == s.word + WidthOf[sym]
      Break(at) == Append(s.starts, at)
  IN CASE sym = "l" -> [starts |-> Break(i + 1), col |-> 0, from |-> i + 1, word |-> 0]
       [] sym = "s" -> IF s.col + s.word + 1 > width /\ s.col > 0
                       THEN [starts |-> Break(i + 1), col |-> 0, from |-> i + 1, word |-> 0]
                       ELSE [s EXCEPT !.col = @ + s.word + 1, !.from = i + 1, !.word = 0]
       [] OTHER ->
            IF s.col + word <= width THEN [s EXCEPT !.word = word]
            ELSE IF s.col > 0 /\ word <= width THEN [s EXCEPT !.starts = Break(s.from), !.col = 0, !.word = word]
            ELSE IF word > width /\ ~(s.col = 0 /\ WidthOf[sym] > width)
            THEN [starts |-> Break(i), col |-> 0, from |-> i, word |-> WidthOf[sym]]
            ELSE [s EXCEPT !.col = IF s.col = 0 THEN word ELSE @, !.word = word]
Wrapped(text, width) ==
  FoldLeft(LAMBDA s, i : WrapStep(text, width, s, i), [starts |-> <<1>>, col |-> 0, from |-> 1, word |-> 0],
           [i \in DOMAIN text |-> i]).starts

LayoutInit ==
  /\ blocks = <<>> /\ height \in Heights /\ inputRows = 1 /\ laid = 0 /\ bar = 0
  /\ chatTop = 0 /\ pinned = TRUE /\ frame = <<>> /\ edits = 0
  /\ sample \in Texts_ \X Columns

Edit == edits < MaxEdits /\ edits' = edits + 1
Screen_ == UNCHANGED <<height, inputRows, laid, bar, frame, sample>>
NewBlock(tool, lines) == [tool |-> tool, lines |-> lines, expanded |-> FALSE]
\* A message, a call of a tool, more of a stream or a tool's result.
AppendBlock ==
  \E tool \in BOOLEAN, n \in Sizes :
    /\ Edit /\ Len(blocks) < MaxBlocks /\ blocks' = Append(blocks, NewBlock(tool, n)) /\ UNCHANGED <<chatTop, pinned>> /\ Screen_
GrowBlock ==
  \E i \in DOMAIN blocks, n \in Sizes :
    /\ Edit /\ n > blocks[i].lines /\ blocks' = [blocks EXCEPT ![i].lines = n] /\ UNCHANGED <<chatTop, pinned>> /\ Screen_
\* TUI_EV_FORK: the block edited is kept, those behind it are not; to the end.
Truncate ==
  /\ Edit /\ pinned' = TRUE /\ Screen_
  /\ \/ \E n \in DOMAIN blocks : blocks' = SubSeq(blocks, 1, n) /\ UNCHANGED chatTop
     \/ blocks' = <<>> /\ chatTop' = 0
\* cmd_clear_chat; rebuild_chat, which pins.
ClearPane == Edit /\ blocks' = <<>> /\ chatTop' = 0 /\ pinned' \in {pinned, TRUE} /\ Screen_
\* Keys, once a frame was drawn.
ScrollUp ==
  /\ Edit /\ pinned' = FALSE /\ chatTop' = (IF chatTop > Page THEN chatTop - Page ELSE 0)
  /\ UNCHANGED blocks /\ Screen_
ScrollDown ==
  LET max == MaxTop(blocks, ChatRows(height))
  IN /\ Edit /\ pinned' = (chatTop + Page >= max)
     /\ chatTop' = (IF chatTop + Page >= max THEN max ELSE chatTop + Page)
     /\ UNCHANGED blocks /\ Screen_
\* The timeline: a block's first line at the top.
Jump == \E n \in DOMAIN blocks : Edit /\ chatTop' = StartOf(blocks, n) /\ pinned' = FALSE /\ UNCHANGED blocks /\ Screen_
\* handle_click: the line that has the row, counted from the top line.
ClickedBlock(bs, v) == {n \in DOMAIN bs : StartOf(bs, n) <= v /\ v < StartOf(bs, n) + BlockLines(bs[n])}
Click ==
  \E row \in 0 .. ChatRows(height) - 1 :
    \E n \in ClickedBlock(blocks, chatTop + row) :
      /\ Edit /\ Long(blocks[n]) /\ blocks' = [blocks EXCEPT ![n].expanded = ~@]
      /\ UNCHANGED <<chatTop, pinned>> /\ Screen_
Resize == Edit /\ \E h \in Heights : height' = h /\ UNCHANGED <<blocks, inputRows, laid, bar, chatTop, pinned, frame, sample>>
\* The text typed takes another number of rows; an approval comes or goes.
Reflow ==
  /\ Edit /\ inputRows' \in 1 .. 5 /\ bar' \in {0, 2}
  /\ UNCHANGED <<blocks, height, laid, chatTop, pinned, frame, sample>>
\* app_loop: planes, the end of the chat when pinned, the frame.
Render_ ==
  LET rows == ChatRows(height)
      top_ == IF pinned /\ TotalLines(blocks) > rows THEN TotalLines(blocks) - rows ELSE chatTop
  IN /\ height >= 6 /\ inputRows' = InputRows(height, inputRows) /\ laid' = inputRows
     /\ chatTop' = top_ /\ frame' = Drawn(blocks, top_, rows)
     /\ UNCHANGED <<blocks, height, bar, pinned, edits, sample>>
LayoutNext ==
  \/ AppendBlock \/ GrowBlock \/ Truncate \/ ClearPane \/ ScrollUp \/ ScrollDown \/ Jump \/ Click
  \/ Resize \/ Reflow \/ Render_

(***************************************************************************)
(* Properties and claims.                                                   *)
(***************************************************************************)
\* No line is skipped or drawn twice, whatever was scrolled, folded or resized;
\* the rows are those from the top line on, behind at most one blank row.
RowsInOrder ==
  \A i \in DOMAIN frame : i > 1 => frame[i] = frame[i - 1] + 1
\* A pinned chat of two rows or more shows the last line of its last block.
EndInSight ==
  LET rows == ChatRows(height)
      last == StartOf(blocks, Len(blocks) + 1) - 2
  IN pinned /\ blocks # <<>> /\ rows > 1 => last \in ToSet(Drawn(blocks, MaxTop(blocks, rows), rows))
\* The lines of a wrapped text are the whole text, none is wider than the pane
\* but for spaces at its end or one symbol that is, and none ends before it must.
Columns_(text, a, b) == FoldLeft(LAMBDA sum, i : sum + WidthOf[text[i]], 0, [k \in 1 .. b - a |-> a + k - 1])
WrapRight ==
  LET text == sample[1]  width == sample[2]
      st == Wrapped(text, width) \o <<Len(text) + 1>>
      Ink(a, b) == {i \in a .. b - 1 : text[i] \notin {"s", "l"}}
      End(a, b) == IF Ink(a, b) = {} THEN a ELSE (CHOOSE i \in Ink(a, b) : \A j \in Ink(a, b) : j <= i) + 1
      WordEnd(a) == CHOOSE e \in a .. Len(text) + 1 :
                      /\ \A i \in a .. e - 1 : text[i] \notin {"s", "l"}
                      /\ e = Len(text) + 1 \/ text[e] \in {"s", "l"}
  IN /\ st[1] = 1 /\ \A k \in 2 .. Len(st) - 1 : st[k - 1] < st[k]
     /\ \A k \in 1 .. Len(st) - 1 :
          LET e == End(st[k], st[k + 1])
          IN \/ Columns_(text, st[k], e) <= width
             \/ Cardinality({i \in Ink(st[k], e) : text[i] # "c"}) = 1
     /\ \A k \in 2 .. Len(st) - 1 :
          \/ text[st[k] - 1] \in {"s", "l"}
             /\ (text[st[k] - 1] = "l" \/ Columns_(text, st[k - 1], st[k]) >= width
                 \/ Columns_(text, st[k - 1], WordEnd(st[k])) > width)
          \/ Columns_(text, st[k - 1], st[k] + 1) > width
LayoutRight == RowsInOrder /\ EndInSight /\ WrapRight
\* Claim (tui_chat.h:374, "The renderer calls this on every scroll input and
\* resize"): it fails, only a scroll down clamps.  A pinned pane whose blocks got
\* fewer or shorter than its height keeps the old top line and is drawn blank.
TopClamped == frame # <<>> \/ TotalLines(blocks) <= 1 \/ laid = 0
\* Claim (tui_picker.c:739, "so the selected message is at the top"; clicks count
\* rows from the top line): it fails, behind a separator the frame is a row late.
TopRowIsTop == frame # <<>> => frame[1] >= chatTop
\* Claim (tui.c:146, "Cap the bar so the chat pane keeps at least one row on
\* short terms"): the row it keeps is under the bar.
PlanesApart ==
  height >= 6 => \A p, q \in DOMAIN Planes(height) : p # q => Planes(height)[p] \cap Planes(height)[q] = {}
=============================================================================
