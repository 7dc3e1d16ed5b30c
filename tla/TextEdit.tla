------------------------------- MODULE TextEdit -------------------------------
(***************************************************************************)
(* The edit tool's text work (src/tools/edit.c): every old string is matched  *)
(* once in the file as it was, the replacements are made together, the line    *)
(* endings and the byte order mark are put back and a diff of the change is    *)
(* shown.                                                                  *)
(*                                                                         *)
(* A text is a sequence of symbols: "r" and "n" end lines, "z" is a NUL byte,  *)
(* "m" is the byte order mark, the others are themselves.  Left out: what the  *)
(* messages say, arguments that are no strings, memory that runs out.          *)
(***************************************************************************)
EXTENDS Integers, Sequences, SequencesExt, FiniteSets, TLC

CONSTANTS DiffContext,   \* EDIT_DIFF_CONTEXT
          MaxFileSize,   \* safety.max_file_size
          TextFiles, OldStrings, NewStrings,  \* what is tried
          MaxAtOnce      \* bound: edits of a call
ASSUME TextEditAssumption == {DiffContext, MaxFileSize, MaxAtOnce} \subseteq Nat

VARIABLE request     \* [file, edits]

\* What a C string keeps of a text.
CString(text) == LET z == SelectInSeq(text, LAMBDA x : x = "z") IN IF z = 0 THEN text ELSE SubSeq(text, 1, z - 1)
Mark(file) == IF file # <<>> /\ file[1] = "m" THEN <<"m">> ELSE <<>>
Text(file) == CString(SubSeq(file, Len(Mark(file)) + 1, Len(file)))
Joined(parts) == LET upTo[k \in 0 .. Len(parts)] == IF k = 0 THEN <<>> ELSE upTo[k - 1] \o parts[k] IN upTo[Len(parts)]
EachSymbol(text, Op(_)) == Joined([i \in DOMAIN text |-> Op(i)])
\* Mutant of NormalizeLf: a CR before a LF is a line end of its own.
NormalizeTwice(text) == EachSymbol(text, LAMBDA i : IF text[i] = "r" THEN <<"n">> ELSE <<text[i]>>)
NormalizeLf(text) ==
  EachSymbol(text, LAMBDA i : CASE text[i] = "r" -> <<"n">>
                                [] text[i] = "n" /\ i > 1 /\ text[i - 1] = "r" -> <<>>
                                [] OTHER -> <<text[i]>>)
\* edit_detect_ending: the first line feed decides.
IsCrlf(text) == LET n == SelectInSeq(text, LAMBDA x : x = "n") IN n > 1 /\ text[n - 1] = "r"
RestoreEndings(text, crlf) ==
  IF crlf THEN EachSymbol(text, LAMBDA i : IF text[i] = "n" THEN <<"r", "n">> ELSE <<text[i]>>) ELSE text

\* ---- matching ----
Places(text, old) == {p \in 1 .. Len(text) + 1 - Len(old) : SubSeq(text, p, p + Len(old) - 1) = old}
First(S) == CHOOSE p \in S : \A q \in S : p <= q
\* edit_count_occurrences: one, or more that do not overlap the first.
Found(text, old) ==
  LET at == Places(text, old)
  IN CASE at = {} -> "none" [] \E p \in at : p >= First(at) + Len(old) -> "many" [] OTHER -> "one"
MatchOf(text, e) ==
  [at |-> First(Places(text, NormalizeLf(e.old))), len |-> Len(NormalizeLf(e.old)), new |-> NormalizeLf(e.new)]
MatchesOf(text, edits) == SortSeq([k \in DOMAIN edits |-> MatchOf(text, edits[k])], LAMBDA m, o : m.at < o.at)
Overlapping(ms) == \E k \in DOMAIN ms : k > 1 /\ ms[k - 1].at + ms[k - 1].len > ms[k].at
\* Mutant of Applied: the first one first, at the places of the old text.
AppliedForward(text, ms) ==
  FoldLeft(LAMBDA t, m : SubSeq(t, 1, m.at - 1) \o m.new \o SubSeq(t, m.at + m.len, Len(t)), text, ms)
Applied(text, ms) ==
  FoldRight(LAMBDA m, t : SubSeq(t, 1, m.at - 1) \o m.new \o SubSeq(t, m.at + m.len, Len(t)), ms, text)

\* ---- the diff ----
\* edit_lines_build: a line is without its line feed; there is one behind the last.
LineEnds(text) == SelectSeq([i \in DOMAIN text |-> i], LAMBDA i : text[i] = "n") \o <<Len(text) + 1>>
Lines(text) ==
  LET ends == LineEnds(text)
  IN [k \in DOMAIN ends |-> SubSeq(text, IF k = 1 THEN 1 ELSE ends[k - 1] + 1, ends[k] - 1)]
\* edit_norm_map_build: a CR and its LF count once.
NormLen(line) == Len(line) + (IF line # <<>> /\ Last(line) = "r" THEN 0 ELSE 1)
NormStart(lines, k) == LET start[j \in 1 .. k] == IF j = 1 THEN 1 ELSE start[j - 1] + NormLen(lines[j - 1]) IN start[k]
\* edit_norm_line_of: the last line that starts at the place or before it.
LineOf(lines, place) ==
  CHOOSE k \in DOMAIN lines :
    /\ k = 1 \/ NormStart(lines, k) <= place
    /\ \A j \in DOMAIN lines : j > k => NormStart(lines, j) > place
\* A run: the lines from .. to - 1 of the old text and of the new one.
RunOf(m, shift, old, new) ==
  LET at == m.at + shift
      newFrom == LineOf(new, at)
  IN [from |-> LineOf(old, m.at), to |-> LineOf(old, m.at + m.len - 1) + 1, newFrom |-> newFrom,
      newTo |-> IF m.new = <<>> THEN newFrom ELSE LineOf(new, at + Len(m.new) - 1) + 1]
Touch(r, s) == s.from <= r.to + 2 * DiffContext /\ s.newFrom <= r.newTo + 2 * DiffContext
AddRun(runs, r) ==
  IF runs # <<>> /\ Touch(Last(runs), r)
  THEN [runs EXCEPT ![Len(runs)].to = r.to, ![Len(runs)].newTo = r.newTo] ELSE Append(runs, r)
Runs(ms, old, new) ==
  FoldLeft(LAMBDA s, m : [runs |-> AddRun(s.runs, RunOf(m, s.shift, old, new)), shift |-> s.shift + Len(m.new) - m.len],
           [runs |-> <<>>, shift |-> 0], ms).runs
ShownLine(line) == IF line # <<>> /\ Last(line) = "r" THEN Front(line) ELSE line
Numbered(mark, lines, from, to) ==
  [i \in 1 .. to - from |-> [mark |-> mark, num |-> from + i - 1, text |-> ShownLine(lines[from + i - 1])]]
\* The lines between two runs: all of them, or those next to either.
Gap(lines, from, to, first) ==
  IF to - from <= 2 * DiffContext THEN Numbered(" ", lines, from, to)
  ELSE IF first THEN Numbered(" ", lines, to - DiffContext, to)
  ELSE Numbered(" ", lines, from, from + DiffContext) \o Numbered(" ", lines, to - DiffContext, to)
Diff(oldText, newText, ms) ==
  LET old == Lines(oldText)
      new == Lines(newText)
      runs == Runs(ms, old, new)
      Behind(k) == IF k = 0 THEN 1 ELSE runs[k].to
      Part(k) == Gap(old, Behind(k - 1), runs[k].from, k = 1)
                 \o Numbered("-", old, runs[k].from, runs[k].to) \o Numbered("+", new, runs[k].newFrom, runs[k].newTo)
      tail == Behind(Len(runs))
      until == IF Len(old) + 1 - tail > DiffContext THEN tail + DiffContext ELSE Len(old) + 1
  IN Joined([k \in DOMAIN runs |-> Part(k)]) \o Numbered(" ", old, tail, until)

\* ---- edit_execute, from the arguments to what is to be written ----
Refusal(file, edits) ==
  LET text == NormalizeLf(Text(file))
      bad == {k \in DOMAIN edits : Found(text, NormalizeLf(edits[k].old)) # "one"}
  IN IF edits = <<>> THEN "no edits"
     ELSE IF \E k \in DOMAIN edits : edits[k].old = <<>> THEN "empty old string"
     ELSE IF file = <<>> \/ Len(file) > MaxFileSize THEN "empty or too large"
     ELSE IF bad # {} THEN Found(text, NormalizeLf(edits[First(bad)].old))
     ELSE IF Overlapping(MatchesOf(text, edits)) THEN "overlap"
     ELSE "none of these"
Edited(file, edits) ==
  LET text == NormalizeLf(Text(file))
      ms == MatchesOf(text, edits)
      restored == RestoreEndings(Applied(text, ms), IsCrlf(Text(file)))
      final == Mark(file) \o restored
      why == Refusal(file, edits)
      ok == why = "none of these" /\ final # file
  IN [ok |-> ok, why |-> IF why = "none of these" /\ ~ok THEN "no change" ELSE why,
      file |-> IF ok THEN final ELSE file, diff |-> IF ok THEN Diff(Text(file), restored, ms) ELSE <<>>]

EditInit == request = [file |-> <<>>, edits |-> <<>>]
AskEdit ==
  /\ request = [file |-> <<>>, edits |-> <<>>]
  /\ \E f \in TextFiles, n \in 0 .. MaxAtOnce :
       \E es \in [1 .. n -> [old : OldStrings, new : NewStrings]] : request' = [file |-> f, edits |-> es]

(***************************************************************************)
(* Properties and claims.                                                   *)
(***************************************************************************)
Result == Edited(request.file, request.edits)
HasNul == \E i \in DOMAIN request.file : request.file[i] = "z"
AllCrlf(text) == \A i \in DOMAIN text : (text[i] = "n") = (i > 1 /\ text[i - 1] = "r")
                                        /\ (text[i] = "r" => i < Len(text) /\ text[i + 1] = "n")
Uniform == AllCrlf(request.file) \/ \A i \in DOMAIN request.file : request.file[i] # "r"
\* An edit that is taken puts every new string where its old string was in the
\* file the model read, all at once; nothing else changes, byte for byte, where
\* the file's line ends are of one kind and it has no NUL byte.
EditsMeanIt ==
  LET text == NormalizeLf(Text(request.file))
      es == request.edits
      Old(k) == NormalizeLf(es[k].old)
      Starts(k, p) == p \in Places(text, Old(k))
      New(p) == LET hit == {k \in DOMAIN es : \E q \in 1 .. p : Starts(k, q) /\ p < q + Len(Old(k))}
                IN CASE hit = {} -> <<text[p]>>
                     [] \E k \in hit : Starts(k, p) -> NormalizeLf(es[CHOOSE k \in hit : Starts(k, p)].new)
                     [] OTHER -> <<>>
      wanted == Joined([p \in DOMAIN text |-> New(p)])
      twice == \E k \in DOMAIN es : Cardinality(Places(text, Old(k))) > 1
  IN Result.ok /\ ~twice =>
       /\ NormalizeLf(Text(Result.file)) = wanted /\ Mark(Result.file) = Mark(request.file)
       /\ ~HasNul /\ Uniform =>
            Result.file = Mark(request.file) \o
              (IF "r" \in ToSet(request.file) THEN RestoreEndings(wanted, TRUE) ELSE wanted)
KeptLines(lines, diff, mark) ==
  LET gone == {diff[i].num : i \in {j \in DOMAIN diff : diff[j].mark = mark}}
  IN Joined([k \in DOMAIN lines |-> IF k \in gone THEN <<>> ELSE <<ShownLine(lines[k])>>])
\* The diff's removed lines taken out of the old text, and its added lines out
\* of the new one, leave the same.
DiffAddsUp ==
  Result.ok => KeptLines(Lines(Text(request.file)), Result.diff, "-") = KeptLines(Lines(Text(Result.file)), Result.diff, "+")
EndsLine(text) == Last(text) \in {"n", "r"}
StaysInLines(e) == e.old # <<>> /\ e.new # <<>> /\ EndsLine(e.old) = EndsLine(e.new)
\* So it is for replacements that end a line as their old strings do.
DiffHonest == Uniform /\ ~HasNul /\ (\A k \in DOMAIN request.edits : StaysInLines(request.edits[k])) => DiffAddsUp
\* Claim (edit.c:409, "a multi-line removal renders exactly the removed lines"):
\* the diff of a removal that takes a line end adds up.  A removal that starts
\* inside a line shows that line as removed, and what is left of it nowhere.
RemovalExact ==
  LET e == request.edits[1]
  IN Uniform /\ ~HasNul /\ Len(request.edits) = 1 /\ e.new = <<>> /\ "n" \in ToSet(e.old) => DiffAddsUp
\* Claim (edit.c:803, "so the rewritten file keeps it"): what no edit matched is
\* as it was.  A file of both kinds of line end gets the first one's throughout,
\* and one with a NUL byte ends before it.
RestKept ==
  Result.ok /\ Len(request.edits) = 1 =>
    \E p, q \in 0 .. Len(request.file) :
      /\ IsPrefix(SubSeq(request.file, 1, p), Result.file)
      /\ NormalizeLf(SubSeq(request.file, p + 1, q)) = NormalizeLf(request.edits[1].old)
      /\ IsSuffix(SubSeq(request.file, q + 1, Len(request.file)), Result.file)
=============================================================================
