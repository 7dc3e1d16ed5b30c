------------------------------ MODULE Approvals ------------------------------
(***************************************************************************)
(* Which tool calls ask the user first: the list that safety_load_from_conf    *)
(* makes (src/safety/safety.c), the gate of execute_tool_calls, the terminal's  *)
(* approval dialog and its "Always" rule.  The worker thread reads the list     *)
(* while the main thread takes an entry out of it, with no lock between them.   *)
(*                                                                         *)
(* Left out: calls of unknown tools, what a tool does, memory that runs out.   *)
(***************************************************************************)
EXTENDS Integers, Sequences, SequencesExt, FiniteSets

CONSTANTS Tools, DefaultTools,  \* the list the code falls back on
          ConfLists,  \* values of safety.require_approval_for
          MaxGated    \* bound: calls of tools
ASSUME ApprovalAssumption == DefaultTools \in Seq(Tools) /\ ConfLists \subseteq Seq(Tools) /\ MaxGated \in Nat /\ "" \notin Tools

VARIABLES
  conf, approvalMode,  \* the value of the key, safety.mode
  list,      \* require_approval_for: [tool, freed]
  gate,      \* the worker at its call: [at, tool, i]
  question,     \* the question that waits for an answer: [tool, answer]
  dialog,    \* the dialog and the rule it leaves: [at, tool, selection, i]
  allowed,   \* tools the user chose "Always" for (not in the code)
  ran,       \* the calls that ran: [tool, asked, raced] (not in the code)
  raced,     \* the list changed during the scan (not in the code)
  gated
approvals == <<conf, approvalMode, list, gate, question, dialog, allowed, ran, raced, gated>>

NoTool == ""
NoEvent == [tool |-> NoTool, answer |-> -1]
Closed == [at |-> "closed", tool |-> NoTool, selection |-> 0, i |-> 0]
AtGate(at, t, i) == [at |-> at, tool |-> t, i |-> i]
\* A key that is not there and one that is empty end alike.
Loaded(names) == IF names = <<>> THEN DefaultTools ELSE names
ApprovalInit ==
  /\ conf \in ConfLists /\ approvalMode \in {"restricted", "approve_all", "unrestricted"}
  /\ list = [k \in DOMAIN Loaded(conf) |-> [tool |-> Loaded(conf)[k], freed |-> FALSE]]
  /\ gate = AtGate("model", NoTool, 0) /\ question = NoEvent /\ dialog = Closed
  /\ allowed = {} /\ ran = {} /\ raced = FALSE /\ gated = 0

\* ---- the worker: safety_needs_approval and what follows ----
Main == UNCHANGED <<conf, approvalMode, list, dialog, allowed>>
CallTool(t) ==
  /\ gate.at = "model" /\ gated < MaxGated /\ gated' = gated + 1 /\ raced' = (dialog.at = "shifting")
  /\ gate' = AtGate(CASE approvalMode = "approve_all" -> "ask" [] approvalMode = "unrestricted" -> "run" [] OTHER -> "scan", t, 1)
  /\ Main /\ UNCHANGED <<question, ran>>
\* The text of a freed entry may be anything.
Scan ==
  /\ gate.at = "scan"
  /\ \/ gate.i <= Len(list) /\ (list[gate.i].freed \/ list[gate.i].tool = gate.tool) /\ gate' = [gate EXCEPT !.at = "ask"]
     \/ gate.i <= Len(list) /\ (list[gate.i].freed \/ list[gate.i].tool # gate.tool) /\ gate' = [gate EXCEPT !.i = @ + 1]
     \/ gate.i > Len(list) /\ gate' = [gate EXCEPT !.at = "run"]
  /\ Main /\ UNCHANGED <<question, ran, raced, gated>>
AskUser ==
  /\ gate.at = "ask" /\ gate' = [gate EXCEPT !.at = "asked"] /\ question' = [tool |-> gate.tool, answer |-> -1]
  /\ Main /\ UNCHANGED <<ran, raced, gated>>
\* 0 is a refusal, which the model is told of.
Woken ==
  /\ gate.at = "asked" /\ question.answer >= 0 /\ question' = NoEvent
  /\ gate' = (IF question.answer = 0 THEN AtGate("model", NoTool, 0) ELSE [gate EXCEPT !.at = "run", !.i = 0])
  /\ Main /\ UNCHANGED <<ran, raced, gated>>
Run ==
  /\ gate.at = "run" /\ gate' = AtGate("model", NoTool, 0)
  /\ ran' = ran \cup {[tool |-> gate.tool, asked |-> gate.i = 0, allowed |-> gate.tool \in allowed, raced |-> raced]}
  /\ Main /\ UNCHANGED <<question, raced, gated>>

\* ---- the main thread ----
Worker == UNCHANGED <<conf, approvalMode, gate, ran, gated>>
Open ==
  /\ dialog.at = "closed" /\ question # NoEvent /\ question.answer = -1
  /\ dialog' = [Closed EXCEPT !.at = "open", !.tool = question.tool]
  /\ Worker /\ UNCHANGED <<list, question, allowed, raced>>
\* 0 is once, 1 always, 2 never.
Select ==
  /\ dialog.at = "open"
  /\ \E s \in {(dialog.selection + 1) % 3, (dialog.selection + 2) % 3, 0, 1, 2} : dialog' = [dialog EXCEPT !.selection = s]
  /\ Worker /\ UNCHANGED <<list, question, allowed, raced>>
\* Enter, y or n and Esc: the worker has its answer before the rule is kept.
Decide ==
  /\ dialog.at = "open"
  /\ \E s \in {dialog.selection, 0, 2} :
       /\ question' = [question EXCEPT !.answer = <<1, 2, 0>>[s + 1]]
       /\ dialog' = [dialog EXCEPT !.selection = s, !.at = "commit"]
       /\ allowed' = (IF s = 1 THEN allowed \cup {dialog.tool} ELSE allowed)
  /\ Worker /\ UNCHANGED <<list, raced>>
\* safety_allow_tool_always: the first entry of the tool is freed ...
Commit ==
  /\ dialog.at = "commit"
  /\ LET i == SelectInSeq(list, LAMBDA e : e.tool = dialog.tool)
     IN IF dialog.selection = 1 /\ i > 0
        THEN list' = [list EXCEPT ![i].freed = TRUE] /\ dialog' = [dialog EXCEPT !.at = "shifting", !.i = i] /\ raced' = TRUE
        ELSE dialog' = Closed /\ UNCHANGED <<list, raced>>
  /\ Worker /\ UNCHANGED <<question, allowed>>
\* Mutant of Shift: all the entries behind the first one go.
ShiftShort ==
  /\ dialog.at = "shifting" /\ list' = SubSeq(list, 1, dialog.i - 1) /\ dialog' = Closed /\ raced' = TRUE
  /\ Worker /\ UNCHANGED <<question, allowed>>
\* ... and those behind it move up.
Shift ==
  /\ dialog.at = "shifting" /\ list' = RemoveAt(list, dialog.i) /\ dialog' = Closed /\ raced' = TRUE
  /\ Worker /\ UNCHANGED <<question, allowed>>

ApprovalNext ==
  \/ \E t \in Tools : CallTool(t)
  \/ Scan \/ AskUser \/ Woken \/ Run \/ Open \/ Select \/ Decide \/ Commit \/ Shift

(***************************************************************************)
(* Properties and claims.                                                   *)
(***************************************************************************)
Listed(t) == approvalMode = "approve_all" \/ (approvalMode = "restricted" /\ t \in Range(Loaded(conf)))
\* A tool that the configuration names runs after a question, or because the user
\* chose "Always" for it, unless an entry left the list during the scan.
AskedOrAllowed == \A r \in ran : Listed(r.tool) => r.asked \/ (r.allowed /\ approvalMode = "restricted") \/ r.raced
\* Claim (safety.h:231, "1 when the tool is in the approval list ... thread-safe"):
\* the same with no exception.  A scan that the removal of another tool's entry
\* meets does not see the entry that moved up behind it.
GateThreadSafe == \A r \in ran : Listed(r.tool) => r.asked \/ r.allowed
\* Claim (tui_cmd.c:1186, "so future calls skip the prompt"): a tool allowed
\* always is not asked for again.  It is if the list names it twice.
AlwaysMeansAlways == approvalMode = "restricted" /\ question # NoEvent /\ dialog = Closed => question.tool \notin allowed
\* Claim (config.conf.example:166, "Empty string to disable all approvals"): with
\* an empty list nothing is asked for.  The code falls back on its own list.
EmptyAsksNothing == conf = <<>> /\ approvalMode = "restricted" => question = NoEvent
=============================================================================
