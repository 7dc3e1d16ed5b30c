--------------------------- MODULE StreamClassifier ---------------------------
(***************************************************************************)
(* How the TUI tells the thinking in a stream from the answer                     *)
(* (src/tui/tui_stream.c, fed by stream_on_chunk of tui_worker.c).               *)
(*                                                                         *)
(* A text is a sequence of characters; the markers are spelt shorter here, the    *)
(* one of the end still with the one of the start's first character.  Left out:   *)
(* memory that runs out, when chunks go on unclassified.                       *)
(***************************************************************************)
EXTENDS Integers, Sequences, SequencesExt, FiniteSets, FiniteSetsExt

CONSTANTS Streams,   \* the texts a model may stream
          MaxParts   \* 4, the parts of one chunk the worker takes

OpenMark == <<"<", "t", ">">>
CloseMark == <<"<", "/", ">">>
BlankChars == {" ", "lf"}

VARIABLE feed   \* [text, at, carry, think, parts, done] and, not in the code, dropped
FeedInit == feed \in {[text |-> t, at |-> 0, carry |-> <<>>, think |-> FALSE, parts |-> <<>>, done |-> FALSE, dropped |-> FALSE] : t \in Streams}

MarkAt(buf, i, mark) == i + Len(mark) - 1 <= Len(buf) /\ SubSeq(buf, i, i + Len(mark) - 1) = mark
\* trim_trailing
Unblanked(s) ==
  LET solid == {i \in DOMAIN s : s[i] \notin BlankChars} IN IF solid = {} THEN <<>> ELSE SubSeq(s, 1, Max(solid))
AddPart(parts, think, text) == IF text = <<>> THEN parts ELSE Append(parts, [think |-> think, text |-> text])
\* One pass over a chunk: at a marker the text before it is a part, blanks behind
\* it are skipped.
Scanned(buf, think) ==
  FoldLeft(LAMBDA acc, i :
    IF acc.skip > 0 THEN [acc EXCEPT !.skip = @ - 1]
    ELSE IF MarkAt(buf, i, OpenMark) \/ MarkAt(buf, i, CloseMark)
      THEN [parts |-> AddPart(acc.parts, acc.think, Unblanked(acc.text)), think |-> MarkAt(buf, i, OpenMark),
            text |-> <<>>, lead |-> TRUE, skip |-> 2]
    ELSE IF acc.lead /\ buf[i] \in BlankChars THEN acc
    ELSE [acc EXCEPT !.text = Append(@, buf[i]), !.lead = FALSE],
    [parts |-> <<>>, think |-> think, text |-> <<>>, lead |-> FALSE, skip |-> 0], [i \in DOMAIN buf |-> i])
\* Mutant of Carry: only the start of a block is waited for.
CarryOpen(s) == Max({k \in 0 .. 2 : k <= Len(s) /\ SubSeq(s, Len(s) - k + 1, Len(s)) = SubSeq(OpenMark, 1, k)})
\* carry_prefix_len
Carry(s) ==
  Max({k \in 0 .. 2 : k <= Len(s) /\ SubSeq(s, Len(s) - k + 1, Len(s)) \in {SubSeq(OpenMark, 1, k), SubSeq(CloseMark, 1, k)}})
Chunk ==
  /\ ~feed.done /\ feed.at < Len(feed.text)
  /\ \E to \in feed.at + 1 .. Len(feed.text) :
       LET all == Scanned(feed.carry \o SubSeq(feed.text, feed.at + 1, to), feed.think)
           keep == Carry(all.text)
           parts == AddPart(all.parts, all.think, SubSeq(all.text, 1, Len(all.text) - keep))
       IN feed' = [feed EXCEPT !.at = to, !.think = all.think, !.carry = SubSeq(all.text, Len(all.text) - keep + 1, Len(all.text)),
                               !.parts = @ \o SubSeq(parts, 1, IF Len(parts) < MaxParts THEN Len(parts) ELSE MaxParts),
                               !.dropped = @ \/ Len(parts) > MaxParts]
\* tui_stream_classifier_flush, when the run is over.
Flush ==
  /\ ~feed.done /\ feed.at = Len(feed.text)
  /\ feed' = [feed EXCEPT !.done = TRUE, !.carry = <<>>, !.parts = AddPart(@, feed.think, feed.carry)]
FeedNext == Chunk \/ Flush

\* What a kind of parts says, without blanks.
Solid(s) == SelectSeq(s, LAMBDA c : c \notin BlankChars)
SaidBy(parts, think) == Solid(FlattenSeq([k \in DOMAIN parts |-> IF parts[k].think = think THEN parts[k].text ELSE <<>>]))
\* However the provider cuts the stream, thinking and answer are the same as when
\* it came in one piece, but for blanks, and no marker is shown, unless a chunk has
\* more parts than the worker takes.
CutsDoNotShow ==
  feed.done /\ ~feed.dropped =>
    LET whole == Scanned(feed.text, FALSE)
        parts == AddPart(whole.parts, whole.think, whole.text)
    IN \A think \in BOOLEAN : SaidBy(feed.parts, think) = SaidBy(parts, think)
\* Claim (tui_stream.c:127, "so no text is lost"): what the worker takes is all.
NoTextLost ==
  feed.done => Len(SaidBy(feed.parts, TRUE)) + Len(SaidBy(feed.parts, FALSE))
               = Len(SaidBy(Scanned(feed.text, FALSE).parts, TRUE)) + Len(SaidBy(Scanned(feed.text, FALSE).parts, FALSE)) + Len(Solid(Scanned(feed.text, FALSE).text))
=============================================================================
