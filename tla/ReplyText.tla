------------------------------ MODULE ReplyText ------------------------------
(***************************************************************************)
(* The text of a reply as the streams of src/llm build it: pieces, with the     *)
(* thinking of the model between tags.  What is appended is told to the caller   *)
(* at once (on_chunk).  p is a parser with content, heard and thinking.         *)
(***************************************************************************)
EXTENDS Sequences, SequencesExt

Say(p, piece) == [p EXCEPT !.content = Append(@, piece), !.heard = Append(@, piece)]
Think(p, piece) == Say(IF p.thinking THEN p ELSE [Say(p, "<think>") EXCEPT !.thinking = TRUE], piece)
CloseThinking(p) == IF p.thinking THEN [Say(p, "</think>") EXCEPT !.thinking = FALSE] ELSE p
\* ---- for the properties ----
Flat(parts) == FlattenSeq(parts)
Each(s, of(_)) == [k \in DOMAIN s |-> of(s[k])]
\* What stands in and out of the tags, and whether they alternate.
Inside(content) ==
  FoldLeft(LAMBDA acc, x : CASE x = "<think>" -> [acc EXCEPT !.in = TRUE, !.ok = @ /\ ~acc.in]
                             [] x = "</think>" -> [acc EXCEPT !.in = FALSE, !.ok = @ /\ acc.in]
                             [] OTHER -> IF acc.in THEN [acc EXCEPT !.thought = Append(@, x)] ELSE [acc EXCEPT !.text = Append(@, x)],
    [in |-> FALSE, ok |-> TRUE, thought |-> <<>>, text |-> <<>>], content)
=============================================================================
