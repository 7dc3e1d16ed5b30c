------------------------------ MODULE ReadWindow ------------------------------
(***************************************************************************)
(* A file read in pieces: read_file_execute (src/tools/read_file.c), and what   *)
(* execute_tool_calls leaves of its result for the model (the end of a long one   *)
(* gives way to a mark, str_truncate_ellipsis_dup in src/utils/string_utils.c).  *)
(* The reader asks for the offset that the last result names.                   *)
(*                                                                         *)
(* A character is "x", "n" for a line feed or "nul".  Left out: which paths may  *)
(* be read (Workspace), files too big, the form of the arguments.              *)
(***************************************************************************)
EXTENDS Integers, Sequences, SequencesExt, FiniteSets

CONSTANTS TextsToRead,
          ReadMaxLines,  \* READ_MAX_LINES
          Limits,        \* limits asked for, 0 for none
          MaxResult,     \* agent.max_tool_result_chars, 0 for no limit
          MarkSize, HintSize  \* length of the mark and of the hint
ASSUME ReadAssumption == ReadMaxLines \in Nat \ {0} /\ Limits \subseteq Nat /\ {MaxResult, MarkSize, HintSize} \subseteq Nat

VARIABLES reading  \* [file, offset, pieces, at, seen]

Reader(file) == [file |-> file, offset |-> 0, pieces |-> <<>>, at |-> "reading", seen |-> TRUE]
ReadInit == \E file \in TextsToRead : reading = Reader(file)

\* Line k of the file; a trailing line feed has an empty line behind it.
Ends(file) == {0, Len(file) + 1} \cup {i \in DOMAIN file : file[i] = "n"}
LineCount(file) == Cardinality(Ends(file)) - 1
Cut(file, k) == CHOOSE i \in Ends(file) : Cardinality({j \in Ends(file) : j < i}) = k
UpTo(text, c) == LET i == SelectInSeq(text, LAMBDA d : d = c) IN IF i = 0 THEN text ELSE SubSeq(text, 1, i - 1)
\* read_line_len: the last line ends at a NUL, the others at their line feed.
LineAt(file, k) ==
  LET line == SubSeq(file, Cut(file, k - 1) + 1, Cut(file, k) - 1)
  IN IF k = LineCount(file) THEN UpTo(line, "nul") ELSE line
JoinLines(file, first, n) ==
  FoldLeft(LAMBDA out, k : IF k = 0 THEN LineAt(file, first) ELSE Append(out, "n") \o LineAt(file, first + k),
           <<>>, [k \in 1 .. n |-> k - 1])
\* Mutant of Hint: the line behind the next one.
HintSkip(first, n, all) == IF first + n - 1 < all THEN first + n + 1 ELSE 0
\* The next offset, when lines are left.
Hint(first, n, all) == IF first + n - 1 < all THEN first + n ELSE 0
\* What the tool returns is a C string: it ends at the first NUL, and so the hint
\* comes right there.
ShownText(file, first, n) == UpTo(JoinLines(file, first, n), "nul")
\* Of a long result the front and the mark; the hint was at its end.
KeptText(text, hint) ==
  LET size == Len(text) + (IF hint > 0 THEN HintSize ELSE 0)
      keep == IF MaxResult > MarkSize + 1 THEN MaxResult - MarkSize ELSE MaxResult
  IN IF MaxResult = 0 \/ size <= MaxResult THEN [text |-> text, hint |-> hint, whole |-> TRUE]
     ELSE [text |-> SubSeq(text, 1, keep), hint |-> 0, whole |-> FALSE]
Read ==
  /\ reading.at = "reading"
  /\ \E limit \in Limits :
       LET all == LineCount(reading.file)
           first == IF reading.offset = 0 THEN 1 ELSE reading.offset
           want == IF limit > 0 THEN limit ELSE ReadMaxLines
           n == IF want > all + 1 - first THEN all + 1 - first ELSE want
           r == KeptText(ShownText(reading.file, first, n), Hint(first, n, all))
       IN IF first > all THEN reading' = [reading EXCEPT !.at = "beyond"]
          ELSE reading' = [reading EXCEPT !.pieces = Append(@, r.text), !.offset = r.hint, !.seen = @ /\ r.whole,
                                          !.at = IF r.hint > 0 THEN "reading" ELSE "done"]
ReadNext == Read

(***************************************************************************)
(* Properties and claims.                                                   *)
(***************************************************************************)
Whole(pieces) == FoldLeft(LAMBDA out, k : IF k = 1 THEN pieces[1] ELSE Append(out, "n") \o pieces[k], <<>>, [k \in DOMAIN pieces |-> k])
\* Who follows the offsets to the end has read the file, byte by byte, if it has
\* no NUL and no piece was too long for the model.
OffsetsReadAll ==
  /\ reading.at # "beyond"
  /\ reading.at = "done" /\ reading.seen /\ "nul" \notin Range(reading.file) => Whole(reading.pieces) = reading.file
\* Claim (read_file.c:210, "so an untruncated read returns the original bytes"):
\* the same of every file.
ReadsOriginal == reading.at = "done" /\ reading.seen => Whole(reading.pieces) = reading.file
\* Claim (read_file.c:235, "continuation hint with the exact next offset"): a
\* reader that has not seen all lines has the next offset.  The limit of the
\* results takes it away.
HintReaches == reading.at = "done" => Len(Whole(reading.pieces)) >= Len(UpTo(reading.file, "nul"))
=============================================================================
