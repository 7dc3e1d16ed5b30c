--------------------------- MODULE AgentWorkProofs ---------------------------
(***************************************************************************)
(* Proofs about the agent's tools: the approvals (safety.c, tui_dialog.c), the  *)
(* checks of commands and addresses (safety.c, net_policy.c), a command of bash   *)
(* (bash.c) and the browser (tool_browser.c, browser.c, cdp.c); about its         *)
(* conversations: the request to Codex (openai_request.c) and the sub-agent       *)
(* (tool_delegate.c); and the theorems of the run, with those of the files.       *)
(*                                                                         *)
(* Each has an inductive invariant of its own, with one lemma for each action;    *)
(* the run is a step of one of them while the others rest.                       *)
(***************************************************************************)
EXTENDS MCAgentWork, FileToolsProofs
-----------------------------------------------------------------------------
(* The approvals: a listed tool runs after a question or an "Always"       *)

Entry == [tool : Tools, freed : BOOLEAN]
Gate == [at : {"model", "scan", "ask", "asked", "run"}, tool : Tools \cup {NoTool}, i : Nat]
Dialog == [at : {"closed", "open", "commit", "shifting"}, tool : Tools \cup {NoTool}, selection : 0 .. 2, i : Nat]
Question == [tool : Tools \cup {NoTool}, answer : {-1, 0, 1, 2}]
ApprovalTypes ==
  /\ conf \in ConfLists /\ approvalMode \in {"restricted", "approve_all", "unrestricted"}
  /\ list \in Seq(Entry)
  /\ gate \in Gate
  /\ dialog \in Dialog
  /\ question \in Question
  /\ raced \in BOOLEAN

\* Every tool of the configuration is in the list still, or allowed for good.
EntriesKept == \A t \in Range(Loaded(conf)) : t \in allowed \/ \E k \in 1 .. Len(list) : list[k].tool = t

\* The dialog takes out entries of tools it has allowed; only while it does so
\* is one freed, and a scan it meets is marked.
RuleSound ==
  /\ dialog.at \in {"commit", "shifting"} /\ dialog.selection = 1 => dialog.tool \in allowed
  /\ dialog.at = "shifting" => raced /\ dialog.i \in 1 .. Len(list) /\ list[dialog.i].tool \in allowed
  /\ dialog.at = "shifting" => \A k \in 1 .. Len(list) : k # dialog.i => ~list[k].freed
  /\ dialog.at # "shifting" => \A k \in 1 .. Len(list) : ~list[k].freed

\* A scan that no removal met has passed no entry of its tool.
ScanSound ==
  /\ gate.at = "scan" => approvalMode = "restricted" /\ gate.i >= 1
  /\ gate.at = "scan" /\ ~raced => \A k \in 1 .. Len(list) : k < gate.i => list[k].tool # gate.tool
  /\ gate.at = "run" /\ gate.i # 0 => approvalMode # "approve_all"
  /\ gate.at = "run" /\ gate.i # 0 /\ ~raced /\ approvalMode = "restricted" =>
       \A k \in 1 .. Len(list) : list[k].tool # gate.tool

ApprovalInv == ApprovalTypes /\ EntriesKept /\ RuleSound /\ ScanSound /\ AskedOrAllowed

\* What changes of a call at the gate and of the dialog.
LEMMA GateIs ==
  ASSUME NEW g \in Gate, NEW a \in {"model", "scan", "ask", "asked", "run"}, NEW n \in Nat
  PROVE  /\ [g EXCEPT !.at = a] \in Gate /\ [g EXCEPT !.at = a].at = a /\ [g EXCEPT !.at = a].i = g.i
         /\ [g EXCEPT !.at = a, !.i = n] \in Gate
         /\ [g EXCEPT !.at = a, !.i = n].at = a /\ [g EXCEPT !.at = a, !.i = n].i = n
  BY DEF Gate

\* A choice and a step of the dialog (tui_dialog.c) leave it a dialog.
LEMMA DialogIs ==
  ASSUME NEW d \in Dialog, NEW a \in {"closed", "open", "commit", "shifting"}, NEW n \in 0 .. 2, NEW j \in Nat
  PROVE  /\ [d EXCEPT !.selection = n, !.at = a] \in Dialog
         /\ [d EXCEPT !.at = a, !.i = j] \in Dialog
  BY DEF Dialog

\* The list a configuration gives.
LEMMA LoadedList ==
  ASSUME NEW names \in ConfLists
  PROVE  Loaded(names) \in Seq(Tools)
  BY ApprovalAssumption DEF Loaded

\* With the list a configuration gives and no call, the approvals hold.
LEMMA ApprovalStart == ApprovalInit => ApprovalInv
  <1> SUFFICES ASSUME ApprovalInit PROVE ApprovalInv
    OBVIOUS
  <1> DEFINE l == Loaded(conf)
  <1>1. l \in Seq(Tools) /\ conf \in ConfLists
    BY LoadedList DEF ApprovalInit
  <1>2. list = [k \in DOMAIN l |-> [tool |-> l[k], freed |-> FALSE]]
    BY DEF ApprovalInit
  <1> HIDE DEF l
  <1>3. /\ list \in Seq(Entry) /\ Len(list) = Len(l)
        /\ \A k \in 1 .. Len(list) : list[k].tool = l[k] /\ ~list[k].freed
    <2>1. DOMAIN l = 1 .. Len(l) /\ Len(l) \in Nat
      BY <1>1
    <2>2. \A k \in 1 .. Len(l) : [tool |-> l[k], freed |-> FALSE] \in Entry
      BY <1>1 DEF Entry
    <2> QED
      BY <1>2, <2>1, <2>2
  <1>4. ApprovalTypes
    <2>1. gate \in Gate
      BY DEF ApprovalInit, AtGate, Gate
    <2>2. dialog \in Dialog
      BY DEF ApprovalInit, Closed, Dialog
    <2>3. question \in Question
      BY DEF ApprovalInit, NoEvent, Question
    <2> QED
      BY <1>3, <2>1, <2>2, <2>3 DEF ApprovalInit, ApprovalTypes
  <1>5. EntriesKept
    <2> SUFFICES ASSUME NEW t \in Range(l) PROVE \E k \in 1 .. Len(list) : list[k].tool = t
      BY DEF EntriesKept, l
    <2>1. PICK k \in DOMAIN l : t = l[k]
      BY DEF Range
    <2> QED
      BY <1>1, <1>3, <2>1
  <1>6. RuleSound /\ ScanSound /\ AskedOrAllowed
    BY <1>3 DEF ApprovalInit, RuleSound, ScanSound, AskedOrAllowed, AtGate, Closed
  <1> QED
    BY <1>4, <1>5, <1>6 DEF ApprovalInv

\* The worker's steps leave the list and the dialog alone.
LEMMA WorkerKeepsRules ==
  ASSUME ApprovalInv, UNCHANGED <<conf, approvalMode, list, dialog, allowed>>,
         dialog.at = "shifting" => raced'
  PROVE  EntriesKept' /\ RuleSound'
  BY DEF ApprovalInv, EntriesKept, RuleSound

\* A call of a tool begins.
LEMMA CallToolSafe ==
  ASSUME ApprovalInv, NEW t \in Tools, CallTool(t)
  PROVE  ApprovalInv'
  <1>1. /\ UNCHANGED <<conf, approvalMode, list, dialog, allowed, question, ran>>
        /\ raced' = (dialog.at = "shifting")
        /\ gate' = [at |-> CASE approvalMode = "approve_all" -> "ask" [] approvalMode = "unrestricted" -> "run" [] OTHER -> "scan",
                    tool |-> t, i |-> 1]
    BY DEF CallTool, Main, AtGate
  <1>2. /\ approvalMode = "approve_all" => gate' = [at |-> "ask", tool |-> t, i |-> 1]
        /\ approvalMode = "unrestricted" => gate' = [at |-> "run", tool |-> t, i |-> 1]
        /\ approvalMode = "restricted" => gate' = [at |-> "scan", tool |-> t, i |-> 1]
        /\ approvalMode \in {"restricted", "approve_all", "unrestricted"}
    BY <1>1 DEF ApprovalInv, ApprovalTypes
  <1>3. ApprovalTypes'
    BY <1>1, <1>2 DEF ApprovalInv, ApprovalTypes, Gate, Dialog, Question
  <1>4. ScanSound'
    BY <1>1, <1>2 DEF ScanSound
  <1>5. EntriesKept' /\ RuleSound'
    BY <1>1, WorkerKeepsRules
  <1>6. AskedOrAllowed'
    BY <1>1 DEF ApprovalInv, AskedOrAllowed, Listed
  <1> QED
    BY <1>3, <1>4, <1>5, <1>6 DEF ApprovalInv

\* The scan looks at one entry more.
LEMMA ScanSafe ==
  ASSUME ApprovalInv, Scan
  PROVE  ApprovalInv'
  <1>1. UNCHANGED <<conf, approvalMode, list, dialog, allowed, question, ran, raced>> /\ gate.at = "scan"
    BY DEF Scan, Main
  <1>2. EntriesKept' /\ RuleSound' /\ AskedOrAllowed'
    BY <1>1, WorkerKeepsRules DEF ApprovalInv, RuleSound, AskedOrAllowed, Listed
  <1>3. gate \in Gate /\ list \in Seq(Entry)
        /\ raced \in BOOLEAN
    BY DEF ApprovalInv, ApprovalTypes
  <1>4. CASE gate' = [gate EXCEPT !.at = "ask"]
    <2>1. gate'.at = "ask" /\ gate' \in Gate
      BY <1>3, <1>4 DEF Gate, Dialog, Question
    <2> QED
      BY <1>1, <1>2, <2>1 DEF ApprovalInv, ApprovalTypes, ScanSound
  <1>5. CASE gate.i <= Len(list) /\ (list[gate.i].freed \/ list[gate.i].tool # gate.tool) /\ gate' = [gate EXCEPT !.i = @ + 1]
    <2>1. /\ gate'.at = gate.at /\ gate'.i = gate.i + 1 /\ gate'.tool = gate.tool
          /\ gate' \in Gate
      BY <1>3, <1>5 DEF Gate, Dialog, Question
    <2>2. ~raced => ~list[gate.i].freed
      <3>1. gate.i \in 1 .. Len(list)
        BY <1>1, <1>3, <1>5 DEF ApprovalInv, ScanSound, Gate, Dialog, Question
      <3> QED
        BY <3>1 DEF ApprovalInv, RuleSound
    <2>3. ASSUME ~raced, NEW k \in 1 .. Len(list), k < gate.i + 1 PROVE list[k].tool # gate.tool
      <3>1. CASE k = gate.i
        BY <1>5, <2>2, <2>3, <3>1
      <3>2. CASE k < gate.i
        BY <1>1, <2>3, <3>2 DEF ApprovalInv, ScanSound
      <3> QED
        BY <1>3, <2>3, <3>1, <3>2 DEF Gate, Dialog, Question
    <2>4. ScanSound'
      BY <1>1, <1>3, <2>1, <2>3 DEF ApprovalInv, ScanSound, Gate, Dialog, Question
    <2> QED
      BY <1>1, <1>2, <2>1, <2>4 DEF ApprovalInv, ApprovalTypes
  <1>6. CASE gate.i > Len(list) /\ gate' = [gate EXCEPT !.at = "run"]
    <2>1. /\ gate'.at = "run" /\ gate'.i = gate.i /\ gate'.tool = gate.tool
          /\ gate' \in Gate
      BY <1>3, <1>6 DEF Gate, Dialog, Question
    <2>2. ASSUME ~raced, NEW k \in 1 .. Len(list) PROVE list[k].tool # gate.tool
      <3>1. k < gate.i
        BY <1>3, <1>6, <2>2 DEF Gate, Dialog, Question
      <3> QED
        BY <1>1, <2>2, <3>1 DEF ApprovalInv, ScanSound
    <2>3. ScanSound'
      BY <1>1, <2>1, <2>2 DEF ApprovalInv, ScanSound
    <2> QED
      BY <1>1, <1>2, <2>1, <2>3 DEF ApprovalInv, ApprovalTypes
  <1> QED
    BY <1>4, <1>5, <1>6 DEF Scan

\* The question is put.
LEMMA AskSafe ==
  ASSUME ApprovalInv, AskUser
  PROVE  ApprovalInv'
  <1>1. /\ UNCHANGED <<conf, approvalMode, list, dialog, allowed, ran, raced>>
        /\ gate' = [gate EXCEPT !.at = "asked"] /\ question' = [tool |-> gate.tool, answer |-> -1]
    BY DEF AskUser, Main
  <1>2. EntriesKept' /\ RuleSound' /\ AskedOrAllowed'
    BY <1>1, WorkerKeepsRules DEF ApprovalInv, RuleSound, AskedOrAllowed, Listed
  <1>3. gate \in Gate
    BY DEF ApprovalInv, ApprovalTypes
  <1>4. gate'.at = "asked" /\ gate' \in Gate
    BY <1>1, <1>3 DEF Gate, Dialog, Question
  <1>5. question' \in Question
    BY <1>1, <1>3 DEF Gate, Dialog, Question
  <1> QED
    BY <1>1, <1>2, <1>4, <1>5 DEF ApprovalInv, ApprovalTypes, ScanSound

\* The answer is there.
LEMMA WokenSafe ==
  ASSUME ApprovalInv, Woken
  PROVE  ApprovalInv'
  <1>1. /\ UNCHANGED <<conf, approvalMode, list, dialog, allowed, ran, raced>>
        /\ question' = NoEvent
        /\ gate' = AtGate("model", NoTool, 0) \/ gate' = [gate EXCEPT !.at = "run", !.i = 0]
    BY DEF Woken, Main
  <1>2. EntriesKept' /\ RuleSound' /\ AskedOrAllowed'
    BY <1>1, WorkerKeepsRules DEF ApprovalInv, RuleSound, AskedOrAllowed, Listed
  <1>3. gate \in Gate
    BY DEF ApprovalInv, ApprovalTypes
  <1>4. /\ gate'.at = "model" \/ (gate'.at = "run" /\ gate'.i = 0)
        /\ gate' \in Gate
    <2>1. CASE gate' = AtGate("model", NoTool, 0)
      BY <2>1 DEF AtGate, Gate
    <2>2. CASE gate' = [gate EXCEPT !.at = "run", !.i = 0]
      <3>1. gate' = [gate EXCEPT !.at = "run", !.i = 0] /\ 0 \in Nat
        BY <2>2
      <3>2. gate' \in Gate /\ gate'.at = "run" /\ gate'.i = 0
        BY <1>3, <3>1 DEF Gate
      <3> QED
        BY <3>2
    <2> QED
      BY <1>1, <2>1, <2>2
  <1>5. question' \in Question
    BY <1>1 DEF NoEvent, Gate, Dialog, Question
  <1> QED
    BY <1>1, <1>2, <1>4, <1>5 DEF ApprovalInv, ApprovalTypes, ScanSound

\* The tool runs.
LEMMA RunSafe ==
  ASSUME ApprovalInv, Run
  PROVE  ApprovalInv'
  <1> DEFINE r == [tool |-> gate.tool, asked |-> gate.i = 0, allowed |-> gate.tool \in allowed, raced |-> raced]
  <1>1. /\ UNCHANGED <<conf, approvalMode, list, dialog, allowed, question, raced>>
        /\ gate.at = "run" /\ gate' = AtGate("model", NoTool, 0) /\ ran' = ran \cup {r}
    BY DEF Run, Main
  <1>2. EntriesKept' /\ RuleSound'
    BY <1>1, WorkerKeepsRules DEF ApprovalInv, RuleSound
  <1>3. ApprovalTypes' /\ ScanSound'
    BY <1>1 DEF ApprovalInv, ApprovalTypes, ScanSound, AtGate, Gate, Dialog, Question
  <1>4. ASSUME Listed(gate.tool), gate.i # 0, ~raced
        PROVE  gate.tool \in allowed /\ approvalMode = "restricted"
    <2>1. approvalMode = "restricted" /\ gate.tool \in Range(Loaded(conf))
      BY <1>1, <1>4 DEF Listed, ApprovalInv, ScanSound
    <2>2. \A k \in 1 .. Len(list) : list[k].tool # gate.tool
      BY <1>1, <1>4, <2>1 DEF ApprovalInv, ScanSound
    <2> QED
      BY <2>1, <2>2 DEF ApprovalInv, EntriesKept
  <1>5. r.tool = gate.tool /\ (r.asked <=> gate.i = 0) /\ (r.allowed <=> gate.tool \in allowed) /\ (r.raced <=> raced)
    OBVIOUS
  <1>6. Listed(r.tool) => r.asked \/ (r.allowed /\ approvalMode = "restricted") \/ r.raced
    BY <1>4, <1>5
  <1> HIDE DEF r
  <1>7. AskedOrAllowed'
    <2> SUFFICES ASSUME NEW q \in ran', Listed(q.tool)'
                 PROVE  (q.asked \/ (q.allowed /\ approvalMode = "restricted") \/ q.raced)'
      BY DEF AskedOrAllowed
    <2>1. Listed(q.tool) /\ approvalMode' = approvalMode
      BY <1>1 DEF Listed
    <2>2. CASE q \in ran
      BY <2>1, <2>2 DEF ApprovalInv, AskedOrAllowed
    <2>3. CASE q = r
      BY <1>6, <2>1, <2>3
    <2> QED
      BY <1>1, <2>2, <2>3
  <1> QED
    BY <1>2, <1>3, <1>7 DEF ApprovalInv

\* The dialog opens, is worked, and decides.
LEMMA DialogSafe ==
  ASSUME ApprovalInv, Open \/ Select \/ Decide
  PROVE  ApprovalInv'
  <1>1. UNCHANGED <<conf, approvalMode, gate, ran, list, raced>>
    BY DEF Open, Select, Decide, Worker
  <1>2. /\ dialog \in Dialog
        /\ question \in Question
    BY DEF ApprovalInv, ApprovalTypes
  <1>3. /\ dialog.at \in {"closed", "open"} /\ dialog'.at \in {"open", "commit"}
        /\ dialog'.at = "commit" /\ dialog'.selection = 1 => dialog'.tool \in allowed'
        /\ allowed \subseteq allowed'
        /\ dialog' \in Dialog
        /\ question' \in Question
    <2>1. CASE Open
      <3>1. dialog' = [at |-> "open", tool |-> question.tool, selection |-> 0, i |-> 0] /\ UNCHANGED <<allowed, question>>
        BY <2>1 DEF Open, Closed
      <3> QED
        BY <1>2, <2>1, <3>1 DEF Open, Gate, Dialog, Question
    <2>2. CASE Select
      <3>1. PICK s \in {(dialog.selection + 1) % 3, (dialog.selection + 2) % 3, 0, 1, 2} : dialog' = [dialog EXCEPT !.selection = s]
        BY <2>2 DEF Select
      <3>2. s \in 0 .. 2
        BY <1>2, <3>1 DEF Gate, Dialog, Question
      <3> QED
        BY <1>2, <2>2, <3>1, <3>2 DEF Select, Gate, Dialog, Question
    <2>3. CASE Decide
      <3>1. PICK s \in {dialog.selection, 0, 2} :
              /\ question' = [question EXCEPT !.answer = <<1, 2, 0>>[s + 1]]
              /\ dialog' = [dialog EXCEPT !.selection = s, !.at = "commit"]
              /\ allowed' = (IF s = 1 THEN allowed \cup {dialog.tool} ELSE allowed)
        BY <2>3 DEF Decide
      <3>2. s \in {0, 1, 2}
        BY <1>2, <3>1 DEF Gate, Dialog, Question
      <3>3. <<1, 2, 0>>[s + 1] \in {0, 1, 2}
        BY <3>2
      <3>4. dialog'.selection = s /\ dialog'.at = "commit" /\ dialog'.tool = dialog.tool /\ dialog'.i = dialog.i
        BY <1>2, <3>1
      <3>5. question' \in Question
        BY <1>2, <3>1, <3>3 DEF Gate, Dialog, Question
      <3>6. dialog' \in Dialog
        <4>1. dialog' = [dialog EXCEPT !.selection = s, !.at = "commit"] /\ s \in 0 .. 2 /\ 0 \in Nat
          BY <3>1, <3>2
        <4> QED
          BY <1>2, <4>1, DialogIs
      <3> QED
        BY <2>3, <3>1, <3>4, <3>5, <3>6 DEF Decide
    <2> QED
      BY <2>1, <2>2, <2>3
  <1>4. ApprovalTypes' /\ ScanSound' /\ AskedOrAllowed'
    BY <1>1, <1>3 DEF ApprovalInv, ApprovalTypes, ScanSound, AskedOrAllowed, Listed
  <1>5. EntriesKept'
    BY <1>1, <1>3 DEF ApprovalInv, EntriesKept
  <1>6. RuleSound'
    BY <1>1, <1>3 DEF ApprovalInv, RuleSound
  <1> QED
    BY <1>4, <1>5, <1>6 DEF ApprovalInv

\* The rule of an "Always" frees the first entry of its tool.
LEMMA CommitSafe ==
  ASSUME ApprovalInv, Commit
  PROVE  ApprovalInv'
  <1>0. /\ dialog \in Dialog
        /\ list \in Seq(Entry) /\ Len(list) \in Nat
    BY DEF ApprovalInv, ApprovalTypes
  <1>1. UNCHANGED <<conf, approvalMode, gate, ran, question, allowed>> /\ dialog.at = "commit"
    BY DEF Commit, Worker
  <1> DEFINE i == SelectInSeq(list, LAMBDA e : e.tool = dialog.tool)
  <1>2. i = 0 \/ (i \in 1 .. Len(list) /\ list[i].tool = dialog.tool)
    <2> DEFINE I == {k \in 1 .. Len(list) : list[k].tool = dialog.tool}
    <2>1. i = IF I # {} THEN Min(I) ELSE 0
      BY DEF SelectInSeq
    <2>2. I \in SUBSET Nat
      BY <1>0
    <2>3. I # {} => Min(I) \in I
      <3> HIDE DEF I
      <3> QED
        BY <2>2, MinIsLeast
    <2> QED
      BY <2>1, <2>3
  <1>3. \/ dialog.selection = 1 /\ i > 0 /\ list' = [list EXCEPT ![i].freed = TRUE]
           /\ dialog' = [dialog EXCEPT !.at = "shifting", !.i = i] /\ raced' = TRUE
        \/ dialog' = Closed /\ UNCHANGED <<list, raced>>
    BY DEF Commit
  <1> HIDE DEF i
  <1>4. CASE /\ dialog.selection = 1 /\ i > 0 /\ list' = [list EXCEPT ![i].freed = TRUE]
             /\ dialog' = [dialog EXCEPT !.at = "shifting", !.i = i] /\ raced' = TRUE
    <2>1. i \in 1 .. Len(list) /\ list[i].tool = dialog.tool /\ list[i] \in Entry /\ i \in Nat
      BY <1>0, <1>2, <1>4
    <2>2. list[i].tool \in allowed
      BY <1>1, <1>4, <2>1 DEF ApprovalInv, RuleSound
    <2>3. [list[i] EXCEPT !.freed = TRUE] \in Entry /\ [list[i] EXCEPT !.freed = TRUE].tool = list[i].tool
      BY <2>1 DEF Entry
    <2>4. list' = [list EXCEPT ![i] = [list[i] EXCEPT !.freed = TRUE]]
      BY <1>4
    <2>5. /\ list' \in Seq(Entry) /\ Len(list') = Len(list)
          /\ \A k \in 1 .. Len(list) : list'[k].tool = list[k].tool
      BY <1>0, <2>1, <2>3, <2>4
    <2>6. dialog'.at = "shifting" /\ dialog'.i = i /\ dialog'.tool = dialog.tool /\ dialog'.selection = dialog.selection
      BY <1>0, <1>4
    <2>7. dialog' \in Dialog
      BY <1>0, <1>4, <2>1, DialogIs DEF Gate, Dialog, Question
    <2>8. ApprovalTypes'
      BY <1>1, <1>4, <2>5, <2>7 DEF ApprovalInv, ApprovalTypes
    <2>9. EntriesKept'
      BY <1>1, <2>5 DEF ApprovalInv, EntriesKept
    <2>10. RuleSound'
      <3>1. \A k \in 1 .. Len(list) : k # i => list'[k] = list[k]
        BY <1>0, <2>1, <2>4
      <3> QED
        BY <1>1, <1>4, <2>1, <2>2, <2>5, <2>6, <3>1 DEF ApprovalInv, RuleSound
    <2>11. ScanSound' /\ AskedOrAllowed'
      BY <1>1, <1>4 DEF ApprovalInv, ScanSound, AskedOrAllowed, Listed
    <2> QED
      BY <2>8, <2>9, <2>10, <2>11 DEF ApprovalInv
  <1>5. CASE dialog' = Closed /\ UNCHANGED <<list, raced>>
    <2>1. ApprovalTypes'
      BY <1>1, <1>5 DEF ApprovalInv, ApprovalTypes, Closed, Gate, Dialog, Question
    <2>2. EntriesKept' /\ ScanSound' /\ AskedOrAllowed'
      BY <1>1, <1>5 DEF ApprovalInv, EntriesKept, ScanSound, AskedOrAllowed, Listed
    <2>3. RuleSound'
      BY <1>1, <1>5 DEF ApprovalInv, RuleSound, Closed
    <2> QED
      BY <2>1, <2>2, <2>3 DEF ApprovalInv
  <1> QED
    BY <1>3, <1>4, <1>5

\* The entries behind it move up.
LEMMA ShiftSafe ==
  ASSUME ApprovalInv, Shift
  PROVE  ApprovalInv'
  <1>1. /\ UNCHANGED <<conf, approvalMode, gate, ran, question, allowed>> /\ dialog.at = "shifting"
        /\ list' = RemoveAt(list, dialog.i) /\ dialog' = Closed /\ raced' = TRUE
    BY DEF Shift, Worker
  <1>2. list \in Seq(Entry) /\ Len(list) \in Nat /\ dialog.i \in 1 .. Len(list) /\ list[dialog.i].tool \in allowed
    BY <1>1 DEF ApprovalInv, ApprovalTypes, RuleSound
  <1> DEFINE i == dialog.i
  <1>3. /\ list' \in Seq(Entry) /\ Len(list') = Len(list) - 1
        /\ \A k \in 1 .. Len(list) - 1 : list'[k] = IF k < i THEN list[k] ELSE list[k + 1]
    BY <1>1, <1>2, RemoveAtIs
  <1>4. ApprovalTypes'
    BY <1>1, <1>3 DEF ApprovalInv, ApprovalTypes, Closed, Gate, Dialog, Question
  <1>5. EntriesKept'
    <2> SUFFICES ASSUME NEW t \in Range(Loaded(conf)), t \notin allowed
                 PROVE  \E k \in 1 .. Len(list') : list'[k].tool = t
      BY <1>1 DEF EntriesKept
    <2>1. PICK k \in 1 .. Len(list) : list[k].tool = t
      BY DEF ApprovalInv, EntriesKept
    <2>2. k # i
      BY <1>2, <2>1
    <2>3. CASE k < i
      BY <1>2, <1>3, <2>1, <2>3
    <2>4. CASE k > i
      <3>1. k - 1 \in 1 .. Len(list) - 1 /\ ~(k - 1 < i) /\ (k - 1) + 1 = k
        BY <1>2, <2>4
      <3> QED
        BY <1>3, <2>1, <3>1
    <2> QED
      BY <1>2, <2>2, <2>3, <2>4
  <1>6. RuleSound'
    <2>1. ASSUME NEW k \in 1 .. Len(list') PROVE ~list'[k].freed
      <3>1. \A j \in 1 .. Len(list) : j # i => ~list[j].freed
        BY <1>1 DEF ApprovalInv, RuleSound
      <3>2. k \in Nat /\ i \in Nat /\ k \in 1 .. Len(list) - 1
        BY <1>2, <1>3
      <3>3. CASE k < i
        BY <1>2, <1>3, <3>1, <3>2, <3>3
      <3>4. CASE ~(k < i)
        <4>1. k + 1 \in 1 .. Len(list) /\ k + 1 # i
          BY <1>2, <3>2, <3>4
        <4> QED
          BY <1>3, <3>1, <3>2, <3>4, <4>1
      <3> QED
        BY <3>3, <3>4
    <2> QED
      BY <1>1, <2>1 DEF RuleSound, Closed
  <1>7. ScanSound' /\ AskedOrAllowed'
    BY <1>1 DEF ApprovalInv, ScanSound, AskedOrAllowed, Listed
  <1> QED
    BY <1>4, <1>5, <1>6, <1>7 DEF ApprovalInv

\* The approvals stay sound.
LEMMA ApprovalStep ==
  ASSUME ApprovalInv, ApprovalNext \/ UNCHANGED approvals
  PROVE  ApprovalInv'
  <1>1. CASE UNCHANGED approvals
    BY <1>1 DEF approvals, ApprovalInv, ApprovalTypes, EntriesKept, RuleSound, ScanSound, AskedOrAllowed, Listed
  <1> QED
    BY <1>1, CallToolSafe, ScanSafe, AskSafe, WokenSafe, RunSafe, DialogSafe, CommitSafe, ShiftSafe DEF ApprovalNext
-----------------------------------------------------------------------------
(* The checks: taking a command apart hides nothing                        *)

\* The pattern p stands in the text at k.
Stands(p, text, k) ==
  /\ k \in 1 .. Len(text) + 1 - Len(p)
  /\ \A j \in 1 .. Len(p) : text[k + j - 1] = p[j]

\* The search of safety.c hits where a pattern stands somewhere in the text.
LEMMA HitsIs ==
  ASSUME NEW text \in Seq(STRING)
  PROVE  Hits(text) <=> \E p \in Patterns : \E k \in Nat : Stands(p, text, k)
  <1>1. ASSUME NEW p \in Patterns, NEW k \in 1 .. Len(text) + 1 - Len(p)
        PROVE  SubSeq(text, k, k + Len(p) - 1) = p <=> \A j \in 1 .. Len(p) : text[k + j - 1] = p[j]
    <2>1. p \in Seq(STRING) /\ Len(p) \in Nat /\ Len(text) \in Nat /\ k \in Nat
      BY ChecksAssumption
    <2> DEFINE s == SubSeq(text, k, k + Len(p) - 1)
    <2>2. s \in Seq(STRING) /\ Len(s) = Len(p) /\ \A j \in 1 .. Len(p) : s[j] = text[k + j - 1]
      BY <1>1, <2>1
    <2> HIDE DEF s
    <2>3. s = p <=> \A j \in 1 .. Len(p) : s[j] = p[j]
      BY <2>1, <2>2
    <2> QED
      BY <2>2, <2>3 DEF s
  <1>2. ASSUME Hits(text) PROVE \E p \in Patterns : \E k \in Nat : Stands(p, text, k)
    <2>1. PICK p \in Patterns : \E k \in 1 .. Len(text) + 1 - Len(p) : SubSeq(text, k, k + Len(p) - 1) = p
      BY <1>2 DEF Hits
    <2>a. PICK k \in 1 .. Len(text) + 1 - Len(p) : SubSeq(text, k, k + Len(p) - 1) = p
      BY <2>1
    <2>2. Stands(p, text, k) /\ k \in Nat
      BY <1>1, <2>a DEF Stands
    <2> QED
      BY <2>2
  <1>3. ASSUME NEW p \in Patterns, NEW k \in Nat, Stands(p, text, k) PROVE Hits(text)
    <2>1. k \in 1 .. Len(text) + 1 - Len(p) /\ SubSeq(text, k, k + Len(p) - 1) = p
      BY <1>1, <1>3 DEF Stands
    <2> QED
      BY <2>1 DEF Hits
  <1> QED
    BY <1>2, <1>3

\* What stands in a part of a text stands in the text, and the other way round if
\* the part has all of it.
LEMMA PartStands ==
  ASSUME NEW text \in Seq(STRING), NEW p \in Patterns,
         NEW a \in 1 .. Len(text) + 1, NEW b \in 0 .. Len(text)
  PROVE  /\ SubSeq(text, a, b) \in Seq(STRING)
         /\ \A k \in Nat : Stands(p, SubSeq(text, a, b), k) => Stands(p, text, k + a - 1)
         /\ \A k \in Nat : Stands(p, text, k) /\ a <= k /\ k + Len(p) - 1 <= b
                             => Stands(p, SubSeq(text, a, b), k - a + 1)
  <1>0. p \in Seq(STRING) /\ p # <<>> /\ Len(p) \in Nat \ {0} /\ Len(text) \in Nat /\ a \in Nat /\ b \in Nat
    BY ChecksAssumption
  <1> DEFINE s == SubSeq(text, a, b)
  <1>1. /\ s \in Seq(STRING) /\ Len(s) = (IF a <= b THEN b - a + 1 ELSE 0)
        /\ \A j \in 1 .. Len(s) : s[j] = text[a + j - 1]
    BY <1>0
  <1> HIDE DEF s
  <1>2. ASSUME NEW k \in Nat, Stands(p, s, k) PROVE Stands(p, text, k + a - 1)
    <2>1. k \in 1 .. Len(s) + 1 - Len(p) /\ a <= b
      BY <1>0, <1>1, <1>2 DEF Stands
    <2>2. k + a - 1 \in 1 .. Len(text) + 1 - Len(p)
      BY <1>0, <1>1, <2>1
    <2>3. ASSUME NEW j \in 1 .. Len(p) PROVE text[(k + a - 1) + j - 1] = p[j]
      <3>1. k + j - 1 \in 1 .. Len(s) /\ a + (k + j - 1) - 1 = (k + a - 1) + j - 1
        BY <1>0, <2>1, <2>3
      <3>2. s[k + j - 1] = p[j]
        BY <1>2 DEF Stands
      <3> QED
        BY <1>1, <3>1, <3>2
    <2> QED
      BY <2>2, <2>3 DEF Stands
  <1>3. ASSUME NEW k \in Nat, Stands(p, text, k), a <= k, k + Len(p) - 1 <= b
        PROVE  Stands(p, s, k - a + 1)
    <2>1. k \in 1 .. Len(text) + 1 - Len(p)
      BY <1>3 DEF Stands
    <2>2. k - a + 1 \in 1 .. Len(s) + 1 - Len(p) /\ a <= b
      BY <1>0, <1>1, <1>3, <2>1
    <2>3. ASSUME NEW j \in 1 .. Len(p) PROVE s[(k - a + 1) + j - 1] = p[j]
      <3>1. (k - a + 1) + j - 1 \in 1 .. Len(s) /\ a + ((k - a + 1) + j - 1) - 1 = k + j - 1
        BY <1>0, <2>2, <2>3
      <3>2. text[k + j - 1] = p[j]
        BY <1>3 DEF Stands
      <3> QED
        BY <1>1, <3>1, <3>2
    <2> QED
      BY <2>2, <2>3 DEF Stands
  <1> QED
    BY <1>1, <1>2, <1>3 DEF s

\* The blanks at the ends of a text are no part of a pattern.
LEMMA StripHits ==
  ASSUME NEW text \in Seq(STRING), \A p \in Patterns : Plain(p)
  PROVE  Stripped(text) \in Seq(STRING) /\ (Hits(Stripped(text)) <=> Hits(text))
  <1>0. Len(text) \in Nat /\ DOMAIN text = 1 .. Len(text) /\ <<>> \in Seq(STRING)
    OBVIOUS
  <1>1. ASSUME NEW p \in Patterns, NEW k \in Nat, Stands(p, text, k)
        PROVE  k \in Inked(text) /\ k + Len(p) - 1 \in Inked(text)
    <2>1. p \in Seq(STRING) /\ Len(p) \in Nat \ {0} /\ 1 \in 1 .. Len(p) /\ Len(p) \in 1 .. Len(p)
      BY ChecksAssumption
    <2>2. p[1] \notin {"sp", "lf"} /\ p[Len(p)] \notin {"sp", "lf"}
      <3>1. p[1] \in Range(p) /\ p[Len(p)] \in Range(p)
        BY <2>1 DEF Range
      <3>2. Range(p) \cap Separators = {} /\ p[1] # "sp" /\ p[Len(p)] # "sp"
        BY DEF Plain
      <3> QED
        BY <3>1, <3>2 DEF Separators
    <2>3. k \in 1 .. Len(text) + 1 - Len(p)
      BY <1>1 DEF Stands
    <2>4. text[k + 1 - 1] = p[1] /\ text[k + Len(p) - 1] = p[Len(p)]
      BY <1>1, <2>1 DEF Stands
    <2>5. k + 1 - 1 = k /\ k \in 1 .. Len(text) /\ k + Len(p) - 1 \in 1 .. Len(text)
      BY <1>0, <2>1, <2>3
    <2> QED
      BY <1>0, <2>2, <2>4, <2>5 DEF Inked
  <1>2. CASE Inked(text) = {}
    <2>1. Stripped(text) = <<>>
      BY <1>2 DEF Stripped
    <2>2. ~Hits(text)
      BY <1>1, <1>2, HitsIs
    <2>3. ~Hits(<<>>)
      <3>1. ASSUME NEW p \in Patterns, NEW k \in Nat, Stands(p, <<>>, k) PROVE FALSE
        <4>1. Len(p) \in Nat \ {0}
          BY ChecksAssumption
        <4> QED
          BY <3>1, <4>1 DEF Stands
      <3> QED
        BY <1>0, <3>1, HitsIs
    <2> QED
      BY <1>0, <2>1, <2>2, <2>3
  <1>3. CASE Inked(text) # {}
    <2> DEFINE I == Inked(text)
               a == CHOOSE x \in I : \A k \in I : x <= k
               b == CHOOSE x \in I : \A k \in I : x >= k
    <2>1. I \in SUBSET Nat /\ I # {} /\ \A k \in I : k \in 1 .. Len(text) /\ k <= Len(text)
      BY <1>0, <1>3 DEF Inked
    <2>2. a \in I /\ \A k \in I : a <= k
      <3> HIDE DEF I
      <3>1. \E x \in I : \A k \in I : x <= k
        BY <2>1, LeastNat
      <3> QED
        BY <3>1
    <2>3. b \in I /\ \A k \in I : b >= k
      <3> HIDE DEF I
      <3>1. \E x \in I : \A k \in I : k <= x
        BY <1>0, <2>1, GreatestNat
      <3>2. \E x \in I : \A k \in I : x >= k
        BY <2>1, <3>1
      <3> QED
        BY <3>2
    <2>4. Stripped(text) = SubSeq(text, a, b)
      BY <1>3 DEF Stripped
    <2>5. a \in 1 .. Len(text) + 1 /\ b \in 0 .. Len(text) /\ a \in Nat /\ b \in Nat
      BY <1>0, <2>1, <2>2, <2>3
    <2> HIDE DEF I, a, b
    <2>6. Stripped(text) \in Seq(STRING)
      BY <1>0, <2>4, <2>5
    <2>7. ASSUME Hits(text) PROVE Hits(Stripped(text))
      <3>1. PICK p \in Patterns, k \in Nat : Stands(p, text, k)
        BY <2>7, HitsIs
      <3>2. a <= k /\ k + Len(p) - 1 <= b /\ k - a + 1 \in Nat
        <4>1. k \in I /\ k + Len(p) - 1 \in I
          BY <1>1, <3>1 DEF I
        <4>2. a <= k /\ b >= k + Len(p) - 1 /\ k + Len(p) - 1 \in Nat
          BY <2>1, <2>2, <2>3, <4>1
        <4> QED
          BY <2>5, <4>2
      <3>3. Stands(p, Stripped(text), k - a + 1)
        BY <2>4, <2>5, <3>1, <3>2, PartStands
      <3> QED
        BY <2>6, <3>2, <3>3, HitsIs
    <2>8. ASSUME Hits(Stripped(text)) PROVE Hits(text)
      <3>1. PICK p \in Patterns, k \in Nat : Stands(p, Stripped(text), k)
        BY <2>6, <2>8, HitsIs
      <3>2. Stands(p, text, k + a - 1)
        BY <2>4, <2>5, <3>1, PartStands
      <3>3. k + a - 1 \in Nat
        BY <2>5, <3>2 DEF Stands
      <3> QED
        BY <3>2, <3>3, HitsIs
    <2> QED
      BY <2>6, <2>7, <2>8
  <1> QED
    BY <1>2, <1>3

\* A pattern without the separator is in one of the pieces, if it is in the text.
LEMMA SplitHits ==
  ASSUME NEW text \in Seq(STRING), NEW sep \in Separators, \A p \in Patterns : Plain(p)
  PROVE  /\ \A q \in SplitAt(text, sep) : q \in Seq(STRING)
         /\ Hits(text) <=> \E q \in SplitAt(text, sep) : Hits(q)
  <1>0. Len(text) \in Nat /\ DOMAIN text = 1 .. Len(text)
    OBVIOUS
  <1>1. Cuts(text, sep) \in SUBSET Nat /\ \A c \in Cuts(text, sep) : c <= Len(text) + 1
    BY <1>0 DEF Cuts
  <1>2. ASSUME NEW q \in SplitAt(text, sep)
        PROVE  \E a \in 1 .. Len(text) + 1, b \in 0 .. Len(text) : q = SubSeq(text, a, b)
    <2>1. PICK c \in Cuts(text, sep), d \in Cuts(text, sep) : c < d /\ q = SubSeq(text, c + 1, d - 1)
      BY <1>2 DEF SplitAt
    <2>2. c + 1 \in 1 .. Len(text) + 1 /\ d - 1 \in 0 .. Len(text)
      BY <1>0, <1>1, <2>1
    <2> QED
      BY <2>1, <2>2
  <1>3. \A q \in SplitAt(text, sep) : q \in Seq(STRING)
    <2>1. \A a \in 1 .. Len(text) + 1, b \in 0 .. Len(text) : SubSeq(text, a, b) \in Seq(STRING)
      BY <1>0
    <2> QED
      BY <1>2, <2>1
  <1>4. ASSUME NEW q \in SplitAt(text, sep), Hits(q) PROVE Hits(text)
    <2>1. PICK a \in 1 .. Len(text) + 1, b \in 0 .. Len(text) : q = SubSeq(text, a, b)
      BY <1>2
    <2>2. PICK p \in Patterns, k \in Nat : Stands(p, q, k)
      BY <1>3, <1>4, HitsIs
    <2>3. Stands(p, text, k + a - 1)
      BY <2>1, <2>2, PartStands
    <2>4. k + a - 1 \in Nat
      BY <2>3 DEF Stands
    <2> QED
      BY <2>3, <2>4, HitsIs
  <1>5. ASSUME Hits(text) PROVE \E q \in SplitAt(text, sep) : Hits(q)
    <2>1. PICK p \in Patterns, k \in Nat : Stands(p, text, k)
      BY <1>5, HitsIs
    <2>2. p \in Seq(STRING) /\ Len(p) \in Nat \ {0}
      BY ChecksAssumption
    <2> DEFINE e == k + Len(p) - 1
    <2>3. k \in 1 .. Len(text) /\ e \in Nat /\ k <= e /\ e <= Len(text)
      BY <1>0, <2>1, <2>2 DEF Stands
    <2>4. ASSUME NEW c \in Cuts(text, sep) PROVE c < k \/ c > e
      <3> SUFFICES ASSUME c \in k .. e PROVE FALSE
        BY <1>1, <2>3, <2>4
      <3>1. c \in 1 .. Len(text) /\ text[c] = sep
        BY <1>0, <2>3, <2>4 DEF Cuts
      <3>2. c - k + 1 \in 1 .. Len(p) /\ k + (c - k + 1) - 1 = c
        BY <2>2, <2>3
      <3>3. text[c] = p[c - k + 1]
        BY <2>1, <3>2 DEF Stands
      <3>4. p[c - k + 1] \in Range(p)
        BY <2>2, <3>2 DEF Range
      <3> QED
        BY <3>1, <3>3, <3>4 DEF Plain
    <2> DEFINE L == {c \in Cuts(text, sep) : c < k}
               R == {c \in Cuts(text, sep) : c > e}
    <2>5. L \in SUBSET Nat /\ 0 \in L /\ k \in Nat /\ \A c \in L : c <= k
      BY <1>0, <1>1, <2>3 DEF Cuts
    <2>6. R \in SUBSET Nat /\ Len(text) + 1 \in R
      BY <1>0, <1>1, <2>3 DEF Cuts
    <2>7. PICK a \in L : \A c \in L : c <= a
      <3> HIDE DEF L
      <3> QED
        BY <2>5, GreatestNat
    <2>8. PICK b \in R : \A c \in R : b <= c
      <3> HIDE DEF R
      <3> QED
        BY <2>6, LeastNat
    <2>9. /\ a \in Cuts(text, sep) /\ b \in Cuts(text, sep) /\ a < k /\ b > e
          /\ a \in Nat /\ b \in Nat /\ a < b /\ b <= Len(text) + 1
      BY <1>1, <2>3, <2>5, <2>6, <2>7, <2>8
    <2>10. ~\E c \in Cuts(text, sep) : a < c /\ c < b
      <3> SUFFICES ASSUME NEW c \in Cuts(text, sep), a < c, c < b PROVE FALSE
        OBVIOUS
      <3>1. c \in L \/ c \in R
        BY <2>4
      <3>2. c \in Nat
        BY <1>1
      <3> QED
        BY <2>7, <2>8, <2>9, <3>1, <3>2
    <2>11. SubSeq(text, a + 1, b - 1) \in SplitAt(text, sep)
      <3>1. <<a, b>> \in {c \in Cuts(text, sep) \X Cuts(text, sep) :
                            c[1] < c[2] /\ ~\E j \in Cuts(text, sep) : c[1] < j /\ j < c[2]}
        BY <2>9, <2>10
      <3> DEFINE pair == <<a, b>>
      <3>2. pair[1] = a /\ pair[2] = b
        OBVIOUS
      <3>3. SubSeq(text, pair[1] + 1, pair[2] - 1) \in SplitAt(text, sep)
        <4> HIDE DEF pair
        <4> QED
          BY <3>1 DEF SplitAt, pair
      <3> QED
        BY <3>2, <3>3
    <2>12. /\ a + 1 \in 1 .. Len(text) + 1 /\ b - 1 \in 0 .. Len(text) /\ a + 1 <= k /\ k + Len(p) - 1 <= b - 1
           /\ k - (a + 1) + 1 \in Nat
      BY <1>0, <2>2, <2>3, <2>9
    <2>13. Stands(p, SubSeq(text, a + 1, b - 1), k - (a + 1) + 1)
      BY <2>1, <2>12, PartStands
    <2>14. Hits(SubSeq(text, a + 1, b - 1))
      BY <1>3, <2>11, <2>12, <2>13, HitsIs
    <2> QED
      BY <2>11, <2>14
  <1> QED
    BY <1>3, <1>4, <1>5

\* And in one of the pieces without their blanks.
LEMMA PieceHits ==
  ASSUME NEW text \in Seq(STRING), NEW sep \in Separators, \A p \in Patterns : Plain(p)
  PROVE  /\ \A q \in Pieces(text, sep) : q \in Seq(STRING)
         /\ Hits(text) <=> \E q \in Pieces(text, sep) : Hits(q)
  <1>1. \A q \in SplitAt(text, sep) : q \in Seq(STRING) /\ Stripped(q) \in Seq(STRING) /\ (Hits(Stripped(q)) <=> Hits(q))
    BY SplitHits, StripHits
  <1>2. \A q \in Pieces(text, sep) : \E r \in SplitAt(text, sep) : q = Stripped(r)
    BY DEF Pieces
  <1>3. ASSUME NEW r \in SplitAt(text, sep), Hits(r) PROVE Stripped(r) \in Pieces(text, sep)
    <2>1. Stripped(r) # <<>>
      <3> SUFFICES ASSUME Stripped(r) = <<>> PROVE FALSE
        OBVIOUS
      <3>1. Hits(<<>>) /\ <<>> \in Seq(STRING)
        BY <1>1, <1>3
      <3>2. PICK p \in Patterns, k \in Nat : Stands(p, <<>>, k)
        BY <3>1, HitsIs
      <3>3. Len(p) \in Nat \ {0}
        BY ChecksAssumption
      <3> QED
        BY <3>2, <3>3 DEF Stands
    <2> QED
      BY <2>1 DEF Pieces
  <1>4. Hits(text) <=> \E r \in SplitAt(text, sep) : Hits(r)
    BY SplitHits
  <1> QED
    BY <1>1, <1>2, <1>3, <1>4

\* A command is refused when a pattern stands in it, and only then.
LEMMA CommandOkIs ==
  ASSUME NEW text \in Seq(STRING), NEW mode, mode # "unrestricted", \A p \in Patterns : Plain(p)
  PROVE  CommandOk(mode, text) <=> ~Hits(text)
  <1>0. {";", "|", "&", "lf"} \subseteq Separators
    BY DEF Separators
  <1>1. ASSUME NEW l \in Seq(STRING) PROVE SegmentOk(l) <=> ~Hits(l)
    <2>1. \A sep \in {"|", "&"} : (\A p \in Pieces(l, sep) : ~Hits(p)) <=> ~Hits(l)
      BY <1>0, PieceHits
    <2> QED
      BY <2>1 DEF SegmentOk
  <1>2. ASSUME NEW s \in Seq(STRING) PROVE (\A l \in Pieces(s, "lf") : SegmentOk(l)) <=> ~Hits(s)
    <2>1. (\A l \in Pieces(s, "lf") : l \in Seq(STRING)) /\ (Hits(s) <=> \E l \in Pieces(s, "lf") : Hits(l))
      BY <1>0, PieceHits
    <2> QED
      BY <1>1, <2>1
  <1>3. (\A s \in Pieces(text, ";") : s \in Seq(STRING)) /\ (Hits(text) <=> \E s \in Pieces(text, ";") : Hits(s))
    BY <1>0, PieceHits
  <1> QED
    BY <1>2, <1>3 DEF CommandOk

CheckInv == CutsChangeNothing /\ FetchesInBounds

\* Before the first check nothing is claimed.
LEMMA CheckStart == ChecksInit => CheckInv
  BY DEF ChecksInit, NoCheck, CheckInv, CutsChangeNothing, FetchesInBounds

\* An address that the socket takes is no private one.
LEMMA SocketPublic ==
  ASSUME NEW mode, mode # "unrestricted", NEW h, SocketOk(mode, h)
  PROVE  ~PrivateHost(h)
  <1>1. CASE h.kind = "v4"
    <2>1. PublicV4(h.a, h.b)
      BY <1>1 DEF SocketOk
    <2>2. PrivateHost(h) <=> h.a \in {0, 10, 127} \/ (h.a = 169 /\ h.b = 254) \/ (h.a = 192 /\ h.b = 168) \/ (h.a = 172 /\ h.b \in 16 .. 31)
      BY <1>1 DEF PrivateHost
    <2> QED
      BY <2>1, <2>2 DEF PublicV4
  <1>2. CASE h.kind = "v6"
    <2>1. h.class \notin {"unspecified", "loopback", "link-local", "multicast", "unique-local"}
      BY <1>2 DEF SocketOk
    <2>2. PrivateHost(h) <=> h.class \in {"loopback", "link-local", "unique-local"}
      BY <1>2 DEF PrivateHost
    <2> QED
      BY <2>1, <2>2
  <1>3. h.kind = "v4" \/ h.kind = "v6"
    BY DEF SocketOk
  <1> QED
    BY <1>1, <1>2, <1>3

\* A command or an address that is checked (safety.c, net_policy.c) keeps both promises.
LEMMA CheckStep ==
  ASSUME CheckInv, ChecksNext \/ UNCHANGED check
  PROVE  CheckInv'
  <1>1. CASE UNCHANGED check
    BY <1>1 DEF CheckInv, CutsChangeNothing, FetchesInBounds
  <1>2. CASE CheckCommand
    <2>1. PICK mode \in Modes, c \in Commands :
            check' = [kind |-> "command", mode |-> mode, command |-> c, ok |-> CommandOk(mode, c)]
      BY <1>2 DEF CheckCommand
    <2>2. /\ check'.kind = "command" /\ check'.mode = mode /\ check'.command = c /\ check'.ok = CommandOk(mode, c)
      BY <2>1
    <2>3. mode # "unrestricted" /\ (\A p \in Patterns : Plain(p)) => (CommandOk(mode, c) <=> ~Hits(c))
      BY ChecksAssumption, CommandOkIs
    <2>4. CommandOk(mode, c) \in BOOLEAN /\ Hits(c) \in BOOLEAN
      BY DEF CommandOk, Hits
    <2>5. CutsChangeNothing'
      BY <2>2, <2>3, <2>4 DEF CutsChangeNothing
    <2>6. FetchesInBounds'
      BY <2>2 DEF FetchesInBounds
    <2> QED
      BY <2>5, <2>6 DEF CheckInv
  <1>3. CASE Fetch
    <2>1. PICK mode \in Modes, network \in BOOLEAN, domains \in DomainLists, url \in Urls, a \in Addresses :
            LET address == IF url.host.kind = "name" THEN a ELSE url.host
            IN check' = [kind |-> "fetch", mode |-> mode, network |-> network, domains |-> domains, url |-> url,
                         address |-> address, ok |-> UrlOk(mode, network, domains, url) /\ SocketOk(mode, address)]
      BY <1>3 DEF Fetch
    <2> DEFINE address == IF url.host.kind = "name" THEN a ELSE url.host
    <2>2. /\ check'.kind = "fetch" /\ check'.mode = mode /\ check'.network = network /\ check'.domains = domains
          /\ check'.url = url /\ check'.address = address
          /\ check'.ok = (UrlOk(mode, network, domains, url) /\ SocketOk(mode, address))
      BY <2>1
    <2> HIDE DEF address
    <2>3. CutsChangeNothing'
      BY <2>2 DEF CutsChangeNothing
    <2>4. ASSUME mode # "unrestricted", UrlOk(mode, network, domains, url), SocketOk(mode, address)
          PROVE  /\ network /\ ~PrivateHost(address)
                 /\ domains # {} => \E d \in domains : Domain(url.host, d)
      BY <2>4, SocketPublic DEF UrlOk
    <2>5. ASSUME mode # "unrestricted", PrivateHost(url.host) PROVE ~SocketOk(mode, url.host)
      BY <2>5, SocketPublic
    <2>6. FetchesInBounds'
      BY <2>2, <2>4, <2>5 DEF FetchesInBounds
    <2> QED
      BY <2>3, <2>6 DEF CheckInv
  <1> QED
    BY <1>1, <1>2, <1>3 DEF ChecksNext
-----------------------------------------------------------------------------
(* A command of bash: nothing left running, and its output right            *)

\* t is the end of w from behind its first n elements.
EndOf(t, w, n) ==
  /\ n \in 0 .. Len(w) /\ Len(t) = Len(w) - n
  /\ \A i \in 1 .. Len(t) : t[i] = w[n + i]

\* What is the end of a text by its positions is its suffix.
LEMMA EndIsSuffix ==
  ASSUME NEW S, NEW t \in Seq(S), NEW w \in Seq(S), NEW n, EndOf(t, w, n)
  PROVE  IsSuffix(t, w)
  <1>0. Len(t) \in Nat /\ Len(w) \in Nat /\ n \in Nat /\ n <= Len(w) /\ Len(t) = Len(w) - n
    BY DEF EndOf
  <1> DEFINE a == Reverse(t)
             b == Reverse(w)
  <1>1. a \in Seq(S) /\ Len(a) = Len(t) /\ \A i \in 1 .. Len(t) : a[i] = t[(Len(t) - i) + 1]
    <2>1. ASSUME NEW i \in 1 .. Len(t) PROVE t[(Len(t) - i) + 1] \in S
      <3>1. (Len(t) - i) + 1 \in 1 .. Len(t)
        BY <1>0
      <3> QED
        BY <3>1
    <2> QED
      BY <1>0, <2>1 DEF Reverse
  <1>2. b \in Seq(S) /\ Len(b) = Len(w) /\ \A i \in 1 .. Len(w) : b[i] = w[(Len(w) - i) + 1]
    <2>1. ASSUME NEW i \in 1 .. Len(w) PROVE w[(Len(w) - i) + 1] \in S
      <3>1. (Len(w) - i) + 1 \in 1 .. Len(w)
        BY <1>0
      <3> QED
        BY <3>1
    <2> QED
      BY <1>0, <2>1 DEF Reverse
  <1> HIDE DEF a, b
  <1>3. ASSUME NEW i \in 1 .. Len(t) PROVE a[i] = b[i]
    <2>1. (Len(t) - i) + 1 \in 1 .. Len(t) /\ n + ((Len(t) - i) + 1) = (Len(w) - i) + 1 /\ i \in 1 .. Len(w)
      BY <1>0
    <2>2. t[(Len(t) - i) + 1] = w[n + ((Len(t) - i) + 1)]
      BY <2>1 DEF EndOf
    <2> QED
      BY <1>1, <1>2, <2>1, <2>2
  <1>4. SubSeq(a, 1, Len(a)) = SubSeq(b, 1, Len(a))
    <2>1. /\ SubSeq(a, 1, Len(a)) \in Seq(S) /\ Len(SubSeq(a, 1, Len(a))) = Len(a)
          /\ \A i \in 1 .. Len(a) : SubSeq(a, 1, Len(a))[i] = a[i]
      BY <1>0, <1>1
    <2>2. /\ SubSeq(b, 1, Len(a)) \in Seq(S) /\ Len(SubSeq(b, 1, Len(a))) = Len(a)
          /\ \A i \in 1 .. Len(a) : SubSeq(b, 1, Len(a))[i] = b[i]
      BY <1>0, <1>1, <1>2
    <2> DEFINE c == SubSeq(a, 1, Len(a))
               d == SubSeq(b, 1, Len(a))
    <2> HIDE DEF c, d
    <2>3. c = d
      BY <1>1, <1>3, <2>1, <2>2, SeqEqual DEF c, d
    <2> QED
      BY <2>3 DEF c, d
  <1>5. IsPrefix(a, b)
    BY <1>0, <1>1, <1>2, <1>4 DEF IsPrefix
  <1> QED
    BY <1>5 DEF IsSuffix, a, b

\* The window has the last bytes there were.
LEMMA CappedIs ==
  ASSUME NEW S, NEW w \in Seq(S), NEW n \in Nat
  PROVE  /\ Capped(w, n) \in Seq(S)
         /\ EndOf(Capped(w, n), w, IF Len(w) > n THEN Len(w) - n ELSE 0)
         /\ Len(w) <= n => Capped(w, n) = w
  <1>0. Len(w) \in Nat
    OBVIOUS
  <1>1. CASE Len(w) > n
    <2>1. Capped(w, n) = SubSeq(w, Len(w) + 1 - n, Len(w))
      BY <1>1 DEF Capped
    <2>2. /\ SubSeq(w, Len(w) + 1 - n, Len(w)) \in Seq(S)
          /\ Len(SubSeq(w, Len(w) + 1 - n, Len(w))) = n
          /\ \A i \in 1 .. n : SubSeq(w, Len(w) + 1 - n, Len(w))[i] = w[(Len(w) - n) + i]
      BY <1>0, <1>1
    <2>3. Len(w) - n \in 0 .. Len(w) /\ Len(w) - (Len(w) - n) = n
      BY <1>0, <1>1
    <2> DEFINE c == Capped(w, n)
    <2>4. c \in Seq(S) /\ Len(c) = n /\ \A i \in 1 .. n : c[i] = w[(Len(w) - n) + i]
      BY <2>1, <2>2
    <2> HIDE DEF c
    <2>5. EndOf(c, w, Len(w) - n)
      BY <2>3, <2>4 DEF EndOf
    <2>6. ~(Len(w) <= n)
      BY <1>0, <1>1
    <2> QED
      BY <1>1, <2>4, <2>5, <2>6 DEF c
  <1>2. CASE Len(w) <= n
    <2>1. Capped(w, n) = SubSeq(w, 1, Len(w))
      <3>1. ~(Len(w) > n)
        BY <1>0, <1>2
      <3> QED
        BY <3>1 DEF Capped
    <2>2. Capped(w, n) = w
      BY <2>1, SubSeqFull
    <2> QED
      BY <1>0, <1>2, <2>2 DEF EndOf
  <1> QED
    BY <1>0, <1>1, <1>2

\* Ends are the same that have the same length.
LEMMA SameEnd ==
  ASSUME NEW S, NEW t \in Seq(S), NEW u \in Seq(S), NEW w \in Seq(S), NEW n, EndOf(t, w, n), EndOf(u, w, n)
  PROVE  t = u
  BY SeqEqual DEF EndOf

\* A byte behind what is read and what is in the pipe is one in the pipe.
LEMMA AppendBehind ==
  ASSUME NEW S, NEW u \in Seq(S), NEW v \in Seq(S), NEW b \in S,
         NEW whole, NEW more, NEW longer, whole = u \o v, more = Append(v, b), longer = Append(whole, b)
  PROVE  longer = u \o more
  <1> DEFINE x == Append(u \o v, b)
             y == u \o Append(v, b)
  <1>0. Len(u) \in Nat /\ Len(v) \in Nat
    OBVIOUS
  <1>1. /\ u \o v \in Seq(S) /\ Len(u \o v) = Len(u) + Len(v)
        /\ \A i \in 1 .. Len(u) + Len(v) : (u \o v)[i] = IF i <= Len(u) THEN u[i] ELSE v[i - Len(u)]
    BY ConcatProperties
  <1>2. /\ Append(v, b) \in Seq(S) /\ Len(Append(v, b)) = Len(v) + 1
        /\ \A i \in 1 .. Len(v) + 1 : Append(v, b)[i] = IF i <= Len(v) THEN v[i] ELSE b
    OBVIOUS
  <1>3. /\ y \in Seq(S) /\ Len(y) = Len(u) + (Len(v) + 1)
        /\ \A i \in 1 .. Len(u) + (Len(v) + 1) : y[i] = IF i <= Len(u) THEN u[i] ELSE Append(v, b)[i - Len(u)]
    <2> DEFINE c == Append(v, b)
    <2>1. c \in Seq(S) /\ Len(c) = Len(v) + 1
      BY <1>2
    <2> HIDE DEF c
    <2>2. /\ u \o c \in Seq(S) /\ Len(u \o c) = Len(u) + Len(c)
          /\ \A i \in 1 .. Len(u) + Len(c) : (u \o c)[i] = IF i <= Len(u) THEN u[i] ELSE c[i - Len(u)]
      BY <2>1, ConcatProperties
    <2> QED
      BY <2>1, <2>2 DEF c
  <1>4. /\ x \in Seq(S) /\ Len(x) = (Len(u) + Len(v)) + 1
        /\ \A i \in 1 .. (Len(u) + Len(v)) + 1 : x[i] = IF i <= Len(u) + Len(v) THEN (u \o v)[i] ELSE b
    <2> DEFINE w == u \o v
    <2>1. w \in Seq(S) /\ Len(w) = Len(u) + Len(v)
      BY <1>1
    <2> HIDE DEF w
    <2>2. /\ Append(w, b) \in Seq(S) /\ Len(Append(w, b)) = Len(w) + 1
          /\ \A i \in 1 .. Len(w) + 1 : Append(w, b)[i] = IF i <= Len(w) THEN w[i] ELSE b
      BY <2>1
    <2> QED
      BY <2>1, <2>2 DEF w
  <1> HIDE DEF x, y
  <1>5. ASSUME NEW i \in 1 .. Len(x) PROVE x[i] = y[i]
    <2>0. i \in Nat /\ i \in 1 .. (Len(u) + Len(v)) + 1 /\ i \in 1 .. Len(u) + (Len(v) + 1)
      BY <1>0, <1>4
    <2>1. CASE i <= Len(u)
      <3>1. i \in 1 .. Len(u) + Len(v) /\ i <= Len(u) + Len(v)
        BY <1>0, <2>0, <2>1
      <3> QED
        BY <1>1, <1>3, <1>4, <2>0, <2>1, <3>1
    <2>2. CASE ~(i <= Len(u)) /\ i <= Len(u) + Len(v)
      <3>1. i \in 1 .. Len(u) + Len(v) /\ i - Len(u) \in 1 .. Len(v) + 1 /\ i - Len(u) <= Len(v)
        BY <1>0, <2>0, <2>2
      <3> QED
        BY <1>1, <1>2, <1>3, <1>4, <2>0, <2>2, <3>1
    <2>3. CASE ~(i <= Len(u)) /\ ~(i <= Len(u) + Len(v))
      <3>1. i - Len(u) \in 1 .. Len(v) + 1 /\ ~(i - Len(u) <= Len(v))
        BY <1>0, <2>0, <2>3
      <3>2. x[i] = b
        BY <1>4, <2>0, <2>3
      <3>3. y[i] = Append(v, b)[i - Len(u)]
        BY <1>3, <2>0, <2>3
      <3>4. Append(v, b)[i - Len(u)] = b
        BY <1>2, <3>1
      <3> QED
        BY <3>2, <3>3, <3>4
    <2> QED
      BY <2>1, <2>2, <2>3
  <1>a. Len(x) = Len(y)
    BY <1>0, <1>3, <1>4
  <1>b. x \in Seq(S) /\ y \in Seq(S)
    BY <1>3, <1>4
  <1> HIDE DEF x, y
  <1>6. x = y
    BY <1>5, <1>a, <1>b, SeqEqual
  <1> QED
    BY <1>6 DEF x, y

\* What a chunk more does to the window of what was before it.
LEMMA CappedMore ==
  ASSUME NEW S, NEW w \in Seq(S), NEW c \in Seq(S), NEW n \in Nat
  PROVE  Capped(Capped(w, n) \o c, n) = Capped(w \o c, n)
  <1>0. /\ Len(w) \in Nat /\ Len(c) \in Nat /\ w \o c \in Seq(S) /\ Len(w \o c) = Len(w) + Len(c)
        /\ \A i \in 1 .. Len(w) + Len(c) : (w \o c)[i] = IF i <= Len(w) THEN w[i] ELSE c[i - Len(w)]
    BY ConcatProperties
  <1>1. CASE Len(w) <= n
    BY <1>1, CappedIs
  <1>2. CASE Len(w) > n
    <2> DEFINE k == Capped(w, n)
               e == Capped(k \o c, n)
               all == w \o c
    <2>1. k \in Seq(S) /\ Len(k) = n /\ \A i \in 1 .. n : k[i] = w[(Len(w) - n) + i]
      <3>1. k \in Seq(S) /\ EndOf(k, w, Len(w) - n)
        BY <1>2, CappedIs
      <3>2. Len(w) - (Len(w) - n) = n
        BY <1>0
      <3> QED
        BY <3>1, <3>2 DEF EndOf
    <2> HIDE DEF k
    <2>2. /\ k \o c \in Seq(S) /\ Len(k \o c) = n + Len(c)
          /\ \A i \in 1 .. n + Len(c) : (k \o c)[i] = IF i <= n THEN k[i] ELSE c[i - n]
      BY <2>1, ConcatProperties
    <2>3. e \in Seq(S) /\ EndOf(e, k \o c, Len(c))
      <3>1. Len(k \o c) > n => Len(k \o c) - n = Len(c)
        BY <1>0, <2>2
      <3>2. ~(Len(k \o c) > n) => Len(c) = 0
        BY <1>0, <2>2
      <3> QED
        BY <2>2, <3>1, <3>2, CappedIs
    <2> HIDE DEF e
    <2>4. Len(e) = n /\ \A i \in 1 .. n : e[i] = (k \o c)[Len(c) + i]
      <3>1. (n + Len(c)) - Len(c) = n
        BY <1>0
      <3> QED
        BY <2>2, <2>3, <3>1 DEF EndOf
    <2>5. ASSUME NEW i \in 1 .. n PROVE e[i] = all[(Len(w) + Len(c) - n) + i]
      <3>1. Len(c) + i \in 1 .. n + Len(c) /\ (Len(w) + Len(c) - n) + i \in 1 .. Len(w) + Len(c) /\ i \in Nat
        BY <1>0, <1>2
      <3>2. CASE Len(c) + i <= n
        <4>1. Len(c) + i \in 1 .. n /\ (Len(w) + Len(c) - n) + i <= Len(w) /\ (Len(w) - n) + (Len(c) + i) = (Len(w) + Len(c) - n) + i
          BY <1>0, <3>1, <3>2
        <4>2. e[i] = k[Len(c) + i]
          BY <2>2, <2>4, <3>1, <3>2
        <4> QED
          BY <1>0, <2>1, <3>1, <4>1, <4>2
      <3>3. CASE ~(Len(c) + i <= n)
        <4>1. ~((Len(w) + Len(c) - n) + i <= Len(w)) /\ (Len(c) + i) - n = ((Len(w) + Len(c) - n) + i) - Len(w)
          BY <1>0, <3>1, <3>3
        <4> QED
          BY <1>0, <2>2, <2>4, <3>1, <3>3, <4>1
      <3> QED
        BY <3>2, <3>3
    <2>6. EndOf(e, all, Len(w) + Len(c) - n)
      <3>1. Len(w) + Len(c) - n \in 0 .. Len(all) /\ Len(all) - (Len(w) + Len(c) - n) = n
        BY <1>0, <1>2
      <3> QED
        BY <2>4, <2>5, <3>1 DEF EndOf
    <2>7. Capped(all, n) \in Seq(S) /\ EndOf(Capped(all, n), all, Len(w) + Len(c) - n)
      <3>1. Len(all) > n /\ Len(all) - n = Len(w) + Len(c) - n /\ all \in Seq(S)
        BY <1>0, <1>2
      <3> HIDE DEF all
      <3>2. /\ Capped(all, n) \in Seq(S)
            /\ EndOf(Capped(all, n), all, IF Len(all) > n THEN Len(all) - n ELSE 0)
        BY <3>1, CappedIs
      <3> QED
        BY <3>1, <3>2
    <2>8. e = Capped(all, n)
      <3>1. all \in Seq(S)
        BY <1>0
      <3> HIDE DEF all
      <3> QED
        BY <2>3, <2>6, <2>7, <3>1, SameEnd
    <2> QED
      BY <2>8 DEF e, k
  <1> QED
    BY <1>0, <1>1, <1>2

\* What is behind the first line feed is an end too.
LEMMA FromLineIs ==
  ASSUME NEW S, NEW w \in Seq(S)
  PROVE  FromLine(w) \in Seq(S) /\ \E n \in 0 .. Len(w) : EndOf(FromLine(w), w, n)
  <1>0. Len(w) \in Nat
    OBVIOUS
  <1> DEFINE I == {i \in 1 .. Len(w) : w[i] = "n"}
             n == SelectInSeq(w, LAMBDA b : b = "n")
  <1>1. n = (IF I # {} THEN Min(I) ELSE 0)
    BY DEF SelectInSeq
  <1>2. I # {} => Min(I) \in 1 .. Len(w)
    <2>1. I \in SUBSET Nat /\ \A i \in I : i \in 1 .. Len(w)
      BY <1>0
    <2> HIDE DEF I
    <2> QED
      BY <2>1, MinIsLeast
  <1>3. FromLine(w) = IF n = 0 THEN w ELSE SubSeq(w, n + 1, Len(w))
    BY DEF FromLine
  <1>4. n \in 0 .. Len(w) /\ n \in Nat
    BY <1>0, <1>1, <1>2
  <1> HIDE DEF n
  <1>5. CASE n = 0
    BY <1>0, <1>3, <1>5 DEF EndOf
  <1>6. CASE n # 0
    <2>1. /\ SubSeq(w, n + 1, Len(w)) \in Seq(S)
          /\ Len(SubSeq(w, n + 1, Len(w))) = Len(w) - n
          /\ \A i \in 1 .. Len(w) - n : SubSeq(w, n + 1, Len(w))[i] = w[n + i]
      BY <1>0, <1>4
    <2> QED
      BY <1>3, <1>4, <1>6, <2>1 DEF EndOf
  <1> QED
    BY <1>5, <1>6

\* An end of an end is an end.
LEMMA EndOfEnd ==
  ASSUME NEW t, NEW u, NEW w, NEW n, NEW m, EndOf(t, u, n), EndOf(u, w, m), Len(t) \in Nat, Len(u) \in Nat, Len(w) \in Nat
  PROVE  EndOf(t, w, m + n)
  <1>1. n \in 0 .. Len(u) /\ m \in 0 .. Len(w) /\ Len(t) = Len(u) - n /\ Len(u) = Len(w) - m
    BY DEF EndOf
  <1>2. m + n \in 0 .. Len(w) /\ Len(t) = Len(w) - (m + n)
    BY <1>1
  <1>3. ASSUME NEW i \in 1 .. Len(t) PROVE t[i] = w[(m + n) + i]
    <2>1. n + i \in 1 .. Len(u) /\ m + (n + i) = (m + n) + i
      BY <1>1
    <2> QED
      BY <2>1 DEF EndOf
  <1> QED
    BY <1>2, <1>3 DEF EndOf

Procs == {"child", "member", "outside"}
Proc == [runs : BOOLEAN, holds : BOOLEAN, deaf : BOOLEAN]
Octets == {"x", "n"}
CommandTypes ==
  /\ program \in {"bash", "python"} /\ procs \in [Procs -> Proc]
  /\ pipes \in [{"out", "err"} -> Seq(Octets)] /\ got \in [{"out", "err"} -> Seq(Octets)]
  /\ pipeOpen \in BOOLEAN /\ lastBytes \in Seq(Octets) /\ written \in Seq(Octets)
  /\ spill \in [is : BOOLEAN, text : Seq(Octets)]
  /\ result \in [kind : {"none", "done", "timeout", "not captured"}, text : Seq(Octets)]

\* What was written is what was read and what is in the pipe.
AllThere == written = got["out"] \o pipes["out"]
\* The window has its end and the file, if there is one, has it all.
WindowRight ==
  result.kind \in {"none", "done"} =>
    /\ lastBytes = Capped(got["out"], TailBytes)
    /\ IF spill.is THEN spill.text = got["out"] /\ Len(got["out"]) > TailBytes ELSE Len(got["out"]) <= TailBytes
\* The child holds the pipe as long as it runs; the end of it was seen with none
\* that holds it and nothing in it.
EndSeen ==
  /\ procs["child"].holds
  /\ ~pipeOpen => ~Held /\ pipes["out"] = <<>>
  /\ loop = "grace" => ~pipeOpen
\* A result is the last of it.
ResultLast ==
  /\ loop # "ended" => result = NoResult
  /\ loop = "ended" => \A p \in InGroup : ~procs[p].runs
  /\ result.kind = "done" => ~pipeOpen /\ result.text = IF spill.is THEN FromLine(lastBytes) ELSE lastBytes

BashSound == AllThere /\ WindowRight /\ EndSeen /\ ResultLast
CommandInv == CommandTypes /\ (program = "bash" => BashSound)

\* What the runs check follows.
LEMMA CommandInvGives ==
  ASSUME CommandInv
  PROVE  NothingLeftRunning /\ OutputRight
  <1>1. NothingLeftRunning
    BY DEF CommandInv, BashSound, ResultLast, NothingLeftRunning
  <1>2. ASSUME program = "bash", result.kind = "done"
        PROVE  /\ IsSuffix(result.text, written)
               /\ IF spill.is THEN spill.text = written /\ Len(written) > TailBytes ELSE result.text = written
    <2>0. /\ got["out"] \in Seq(Octets) /\ lastBytes \in Seq(Octets) /\ TailBytes \in Nat
          /\ BashSound
      BY <1>2, CommandAssumption DEF CommandInv, CommandTypes
    <2>1. written = got["out"]
      <3>1. pipes["out"] = <<>>
        BY <1>2, <2>0 DEF BashSound, EndSeen, ResultLast
      <3> QED
        BY <2>0, <3>1, ConcatEmptySeq DEF BashSound, AllThere
    <2>2. EndOf(lastBytes, written, IF Len(written) > TailBytes THEN Len(written) - TailBytes ELSE 0)
      BY <1>2, <2>0, <2>1, CappedIs DEF BashSound, WindowRight
    <2>3. CASE spill.is
      <3>1. result.text = FromLine(lastBytes)
        BY <1>2, <2>0, <2>3 DEF BashSound, ResultLast
      <3>2. PICK n \in 0 .. Len(lastBytes) : EndOf(result.text, lastBytes, n)
        BY <2>0, <3>1, FromLineIs
      <3>3. result.text \in Seq(Octets)
        BY <2>0, <3>1, FromLineIs
      <3>4. PICK m : EndOf(lastBytes, written, m)
        BY <2>2
      <3>5. EndOf(result.text, written, m + n)
        BY <2>0, <2>1, <3>2, <3>3, <3>4, EndOfEnd
      <3>6. IsSuffix(result.text, written)
        BY <2>0, <2>1, <3>3, <3>5, EndIsSuffix
      <3> QED
        BY <1>2, <2>0, <2>1, <2>3, <3>6 DEF BashSound, WindowRight
    <2>4. CASE ~spill.is
      <3>1. result.text = lastBytes /\ Len(written) <= TailBytes
        BY <1>2, <2>0, <2>1, <2>4 DEF BashSound, ResultLast, WindowRight
      <3>2. lastBytes = written
        BY <1>2, <2>0, <2>1, <3>1, CappedIs DEF BashSound, WindowRight
      <3>3. IsSuffix(result.text, written)
        BY <2>0, <2>1, <2>2, <3>1, EndIsSuffix
      <3> QED
        BY <2>4, <3>1, <3>2, <3>3
    <2> QED
      BY <2>3, <2>4
  <1> QED
    BY <1>1, <1>2 DEF OutputRight

\* When the child of bash.c is started nothing was written, read or returned.
LEMMA CommandStart == CommandInit => CommandInv
  <1> SUFFICES ASSUME CommandInit PROVE CommandInv
    OBVIOUS
  <1>0. <<>> \in Seq(Octets) /\ Len(<<>>) = 0 /\ TailBytes \in Nat
    BY CommandAssumption
  <1>1. procs \in [Procs -> Proc] /\ procs["child"].holds
    <2>1. Absent \in Proc /\ [Absent EXCEPT !.runs = TRUE, !.holds = TRUE] \in Proc
      BY DEF Absent, Proc
    <2>2. procs["child"] = [Absent EXCEPT !.runs = TRUE, !.holds = TRUE]
      BY DEF CommandInit
    <2>3. [Absent EXCEPT !.runs = TRUE, !.holds = TRUE].holds
      BY DEF Absent
    <2> QED
      BY <2>1, <2>2, <2>3 DEF CommandInit, Procs
  <1>2. /\ pipes \in [{"out", "err"} -> Seq(Octets)] /\ got \in [{"out", "err"} -> Seq(Octets)]
        /\ pipes["out"] = <<>> /\ got["out"] = <<>>
    BY <1>0 DEF CommandInit
  <1>3. spill \in [is : BOOLEAN, text : Seq(Octets)] /\ ~spill.is
    BY <1>0 DEF CommandInit, NoFile
  <1>4. result \in [kind : {"none", "done", "timeout", "not captured"}, text : Seq(Octets)] /\ result = NoResult /\ result.kind = "none"
    BY <1>0 DEF CommandInit, NoResult
  <1>5. program \in {"bash", "python"} /\ pipeOpen = TRUE /\ lastBytes = <<>> /\ written = <<>> /\ (program = "bash" => loop = "read")
    BY DEF CommandInit
  <1>6. CommandTypes
    BY <1>0, <1>1, <1>2, <1>3, <1>4, <1>5 DEF CommandTypes
  <1>7. AllThere
    BY <1>0, <1>2, <1>5, ConcatEmptySeq DEF AllThere
  <1>8. WindowRight
    BY <1>0, <1>2, <1>3, <1>5, CappedIs DEF WindowRight
  <1>9. program = "bash" => EndSeen /\ ResultLast
    BY <1>1, <1>4, <1>5 DEF EndSeen, ResultLast
  <1> QED
    BY <1>6, <1>7, <1>8, <1>9 DEF CommandInv, BashSound

\* One of the processes ends, or some are killed.
LEMMA FewerRun ==
  ASSUME CommandTypes, procs' \in [Procs -> Proc],
         \A p \in Procs : procs'[p].holds = procs[p].holds /\ (procs'[p].runs => procs[p].runs)
  PROVE  (Held' => Held) /\ (\A p \in InGroup : procs'[p].runs => procs[p].runs) /\ procs'["child"].holds = procs["child"].holds
  BY DEF CommandTypes, Held, Procs, InGroup

\* What kill does to the processes of bash.c: victims stop, none starts, the ends they hold stay.
LEMMA KillIs ==
  ASSUME CommandTypes, NEW victims, Kill(victims)
  PROVE  /\ procs' \in [Procs -> Proc]
         /\ \A p \in Procs : procs'[p].holds = procs[p].holds /\ (procs'[p].runs => procs[p].runs)
         /\ \A p \in Procs : p \in victims => ~procs'[p].runs
  <1>1. procs \in [Procs -> Proc] /\ DOMAIN procs = Procs
    BY DEF CommandTypes
  <1>2. \A q \in Proc : [q EXCEPT !.runs = FALSE] \in Proc /\ [q EXCEPT !.runs = FALSE].holds = q.holds /\ ~[q EXCEPT !.runs = FALSE].runs
    BY DEF Proc
  <1> QED
    BY <1>1, <1>2 DEF Kill

\* A byte is written.
LEMMA WriteSafe ==
  ASSUME CommandInv, NEW p \in Procs, NEW s \in {"out", "err"}, Write(p, s)
  PROVE  CommandInv'
  <1>1. PICK b \in Octets : pipes' = [pipes EXCEPT ![s] = Append(@, b)] /\ written' = Append(written, b)
    BY DEF Write, Octets
  <1>2. /\ UNCHANGED <<program, loop, procs, pipeOpen, got, lastBytes, spill, result>>
        /\ procs[p].runs /\ procs[p].holds /\ (program = "bash" => s = "out")
    BY DEF Write, Loop_
  <1>3. CommandTypes
    BY DEF CommandInv
  <1>4. /\ pipes \in [{"out", "err"} -> Seq(Octets)] /\ pipes' \in [{"out", "err"} -> Seq(Octets)] /\ written' \in Seq(Octets)
        /\ pipes'[s] = Append(pipes[s], b)
    <2>1. pipes \in [{"out", "err"} -> Seq(Octets)] /\ pipes[s] \in Seq(Octets) /\ written \in Seq(Octets)
      BY <1>3 DEF CommandTypes
    <2>2. Append(pipes[s], b) \in Seq(Octets) /\ Append(written, b) \in Seq(Octets)
      BY <2>1
    <2> QED
      BY <1>1, <2>1, <2>2
  <1>5. CommandTypes'
    BY <1>2, <1>3, <1>4 DEF CommandTypes
  <1>6. ASSUME program = "bash" PROVE BashSound'
    <2>1. AllThere'
      <3>1. got["out"] \in Seq(Octets) /\ pipes["out"] \in Seq(Octets) /\ written = got["out"] \o pipes["out"] /\ pipes'["out"] = Append(pipes["out"], b)
        <4>1. got["out"] \in Seq(Octets) /\ pipes["out"] \in Seq(Octets)
          BY <1>3 DEF CommandTypes
        <4>2. written = got["out"] \o pipes["out"]
          BY <1>6 DEF CommandInv, BashSound, AllThere
        <4>3. pipes'["out"] = Append(pipes["out"], b)
          BY <1>2, <1>4, <1>6
        <4> QED
          BY <4>1, <4>2, <4>3
      <3>2. Append(got["out"] \o pipes["out"], b) = got["out"] \o Append(pipes["out"], b)
        <4> DEFINE u == got["out"]
                   v == pipes["out"]
        <4>1. u \in Seq(Octets) /\ v \in Seq(Octets) /\ b \in Octets
          BY <1>1, <3>1
        <4> HIDE DEF u, v
        <4>2. Append(u \o v, b) = u \o Append(v, b)
          BY ONLY <4>1, AppendBehind
        <4> QED
          BY <4>2 DEF u, v
      <3> QED
        BY <1>1, <1>2, <3>1, <3>2 DEF AllThere
    <2>2. Held
      BY <1>2, <1>3 DEF Held, CommandTypes
    <2>3. pipeOpen
      BY <1>6, <2>2 DEF CommandInv, BashSound, EndSeen
    <2> QED
      BY <1>2, <1>6, <2>1, <2>3 DEF CommandInv, BashSound, WindowRight, EndSeen, ResultLast, Held
  <1> QED
    BY <1>2, <1>5, <1>6 DEF CommandInv

\* A process starts or ends.
LEMMA ProcsSafe ==
  ASSUME CommandInv, NEW p \in Procs, Spawn(p) \/ Exit(p)
  PROVE  CommandInv'
  <1>1. UNCHANGED <<program, loop, pipes, written, pipeOpen, got, lastBytes, spill, result>>
    BY DEF Spawn, Exit, Loop_
  <1>2. CommandTypes /\ procs \in [Procs -> Proc] /\ procs["child"] \in Proc
    BY DEF CommandInv, CommandTypes, Procs
  <1>3. CASE Spawn(p)
    <2>1. PICK holds \in BOOLEAN, deaf \in BOOLEAN : procs' = [procs EXCEPT ![p] = [runs |-> TRUE, holds |-> holds, deaf |-> deaf]]
      BY <1>3 DEF Spawn
    <2>2. [runs |-> TRUE, holds |-> holds, deaf |-> deaf] \in Proc
      BY DEF Proc
    <2>3. procs' \in [Procs -> Proc] /\ procs'["child"] = procs["child"] /\ procs["child"].runs
      <3>1. p # "child" /\ procs["child"].runs /\ "child" \in Procs
        BY <1>3 DEF Spawn, Procs
      <3> DEFINE r == [runs |-> TRUE, holds |-> holds, deaf |-> deaf]
      <3>2. procs' = [procs EXCEPT ![p] = r] /\ r \in Proc
        BY <2>1, <2>2
      <3> HIDE DEF r
      <3> QED
        BY <1>2, <3>1, <3>2
    <2>4. CommandTypes'
      BY <1>1, <1>2, <2>3 DEF CommandTypes
    <2>5. ASSUME program = "bash" PROVE BashSound'
      <3>1. procs["child"].holds
        BY <2>5 DEF CommandInv, BashSound, EndSeen
      <3>2. Held
        BY <1>2, <2>3, <3>1 DEF Held, Procs
      <3>3. pipeOpen /\ loop # "ended"
        BY <2>3, <2>5, <3>2 DEF CommandInv, BashSound, EndSeen, ResultLast, InGroup
      <3> QED
        BY <1>1, <2>3, <2>5, <3>3 DEF CommandInv, BashSound, AllThere, WindowRight, EndSeen, ResultLast
    <2> QED
      BY <1>1, <2>4, <2>5 DEF CommandInv
  <1>4. CASE Exit(p)
    <2>1. procs' = [procs EXCEPT ![p] = [procs[p] EXCEPT !.runs = FALSE, !.deaf = TRUE]] /\ procs[p] \in Proc
      BY <1>2, <1>4 DEF Exit
    <2>2. /\ [procs[p] EXCEPT !.runs = FALSE, !.deaf = TRUE] \in Proc
          /\ [procs[p] EXCEPT !.runs = FALSE, !.deaf = TRUE].holds = procs[p].holds
          /\ ~[procs[p] EXCEPT !.runs = FALSE, !.deaf = TRUE].runs
      BY <2>1 DEF Proc
    <2>3. /\ procs' \in [Procs -> Proc]
          /\ \A q \in Procs : procs'[q].holds = procs[q].holds /\ (procs'[q].runs => procs[q].runs)
      BY <1>2, <2>1, <2>2
    <2>4. (Held' => Held) /\ (\A q \in InGroup : procs'[q].runs => procs[q].runs) /\ procs'["child"].holds = procs["child"].holds
      BY <1>2, <2>3, FewerRun
    <2>5. CommandTypes'
      BY <1>1, <1>2, <2>3 DEF CommandTypes
    <2>6. program = "bash" => BashSound'
      BY <1>1, <2>4 DEF CommandInv, BashSound, AllThere, WindowRight, EndSeen, ResultLast
    <2> QED
      BY <1>1, <2>5, <2>6 DEF CommandInv
  <1> QED
    BY <1>3, <1>4

\* A chunk is read.
LEMMA ReadSafe ==
  ASSUME CommandInv, BashRead
  PROVE  CommandInv'
  <1> DEFINE n == IF Len(pipes["out"]) < ReadBytes THEN Len(pipes["out"]) ELSE ReadBytes
             chunk == SubSeq(pipes["out"], 1, n)
             rest == SubSeq(pipes["out"], n + 1, Len(pipes["out"]))
             old == got["out"]
             all == got["out"] \o chunk
             spills == spill.is \/ Len(all) > TailBytes
  <1>0. /\ CommandTypes /\ BashSound /\ program = "bash" /\ loop = "read" /\ pipeOpen
        /\ UNCHANGED <<program, pipeOpen, written>>
        /\ TailBytes \in Nat /\ ReadBytes \in Nat
    BY CommandAssumption DEF CommandInv, BashRead
  <1>1. /\ pipes' = [pipes EXCEPT !["out"] = rest] /\ got' = [got EXCEPT !["out"] = all]
        /\ \/ /\ spill' = (IF spills THEN [is |-> TRUE, text |-> (IF spill.is THEN spill.text ELSE lastBytes) \o chunk] ELSE spill)
              /\ lastBytes' = Capped(lastBytes \o chunk, TailBytes)
              /\ Step("read") /\ UNCHANGED <<procs, result>>
           \/ spills /\ Kill(InGroup) /\ Returns("not captured", <<>>) /\ spill' = NoFile /\ UNCHANGED lastBytes
    BY DEF BashRead
  <1>2. /\ pipes \in [{"out", "err"} -> Seq(Octets)] /\ got \in [{"out", "err"} -> Seq(Octets)]
        /\ pipes["out"] \in Seq(Octets) /\ old \in Seq(Octets) /\ lastBytes \in Seq(Octets)
        /\ spill \in [is : BOOLEAN, text : Seq(Octets)]
    BY <1>0 DEF CommandTypes
  <1>3. chunk \in Seq(Octets) /\ rest \in Seq(Octets) /\ chunk \o rest = pipes["out"]
    <2>1. n \in Nat /\ n \in 0 .. Len(pipes["out"]) /\ Len(pipes["out"]) \in Nat
      BY <1>0, <1>2
    <2> HIDE DEF n
    <2>2. chunk \in Seq(Octets) /\ rest \in Seq(Octets)
      BY <1>2, <2>1
    <2>3. SubSeq(pipes["out"], 1, n) \o SubSeq(pipes["out"], n + 1, Len(pipes["out"])) = SubSeq(pipes["out"], 1, Len(pipes["out"]))
      <3>1. 1 \in 1 .. Len(pipes["out"]) + 1 /\ n \in 1 - 1 .. Len(pipes["out"]) /\ Len(pipes["out"]) \in n .. Len(pipes["out"])
        BY <2>1
      <3> QED
        BY <1>2, <3>1, ConcatAdjacentSubSeq
    <2> QED
      BY <1>2, <2>2, <2>3, SubSeqFull
  <1> HIDE DEF n, chunk, rest
  <1>4. all \in Seq(Octets) /\ all \o rest = old \o pipes["out"] /\ Len(all) = Len(old) + Len(chunk) /\ Len(all) \in Nat /\ Len(old) \in Nat /\ Len(chunk) \in Nat
    <2>1. all \in Seq(Octets) /\ Len(all) = Len(old) + Len(chunk)
      BY <1>2, <1>3, ConcatProperties
    <2>2. (old \o chunk) \o rest = old \o (chunk \o rest)
      <3>1. chunk \in Seq(Octets) /\ rest \in Seq(Octets) /\ old \in Seq(Octets)
        BY <1>2, <1>3
      <3> HIDE DEF old
      <3> QED
        BY <3>1, ConcatAssociative
    <2>3. all \o rest = old \o pipes["out"]
      BY <1>3, <2>2
    <2>4. Len(old) \in Nat /\ Len(chunk) \in Nat
      BY <1>2, <1>3
    <2> QED
      BY <2>1, <2>3, <2>4
  <1> HIDE DEF all
  <1>5. /\ pipes' \in [{"out", "err"} -> Seq(Octets)] /\ pipes'["out"] = rest
        /\ got' \in [{"out", "err"} -> Seq(Octets)] /\ got'["out"] = all
    BY <1>1, <1>2, <1>3, <1>4
  <1>6. AllThere'
    BY <1>0, <1>4, <1>5 DEF BashSound, AllThere
  <1>7. result = NoResult /\ result.kind = "none"
    BY <1>0 DEF BashSound, ResultLast, NoResult
  <1>8. CASE /\ spill' = (IF spills THEN [is |-> TRUE, text |-> (IF spill.is THEN spill.text ELSE lastBytes) \o chunk] ELSE spill)
             /\ lastBytes' = Capped(lastBytes \o chunk, TailBytes)
             /\ Step("read") /\ UNCHANGED <<procs, result>>
    <2>1. lastBytes = Capped(old, TailBytes)
      BY <1>0, <1>7 DEF BashSound, WindowRight
    <2>2. lastBytes' = Capped(all, TailBytes) /\ lastBytes' \in Seq(Octets)
      <3>1. Capped(Capped(old, TailBytes) \o chunk, TailBytes) = Capped(old \o chunk, TailBytes)
        BY <1>0, <1>2, <1>3, CappedMore
      <3>2. lastBytes' = Capped(lastBytes \o chunk, TailBytes)
        BY <1>8
      <3>3. lastBytes' = Capped(all, TailBytes)
        BY <2>1, <3>1, <3>2 DEF all
      <3> QED
        BY <1>0, <1>4, <3>3, CappedIs
    <2>3. (IF spill.is THEN spill.text ELSE lastBytes) = old
      BY <1>0, <1>2, <1>7, <2>1, CappedIs DEF BashSound, WindowRight
    <2>4. /\ spills => spill' = [is |-> TRUE, text |-> all] /\ Len(all) > TailBytes
          /\ ~spills => spill' = spill /\ ~spill.is /\ Len(all) <= TailBytes
      <3>1. spill.is => Len(old) > TailBytes
        BY <1>0, <1>7 DEF BashSound, WindowRight
      <3>2. spill.is => Len(all) > TailBytes
        BY <1>0, <1>4, <3>1
      <3>3. spills => spill' = [is |-> TRUE, text |-> all]
        BY <1>8, <2>3 DEF all
      <3>4. ~spills => spill' = spill
        BY <1>8
      <3>5. (spills => Len(all) > TailBytes) /\ (~spills => ~spill.is /\ Len(all) <= TailBytes)
        BY <1>0, <1>4, <3>2
      <3> QED
        BY <3>3, <3>4, <3>5
    <2>5. spill' \in [is : BOOLEAN, text : Seq(Octets)]
      <3>1. CASE spills
        <4>1. spill' = [is |-> TRUE, text |-> all]
          BY <2>4, <3>1
        <4>2. [is |-> TRUE, text |-> all] \in [is : BOOLEAN, text : Seq(Octets)]
          BY <1>4
        <4> QED
          BY <4>1, <4>2
      <3>2. CASE ~spills
        BY <1>2, <2>4, <3>2
      <3> QED
        BY <3>1, <3>2
    <2>6. CommandTypes'
      BY <1>0, <1>5, <1>8, <2>2, <2>5 DEF CommandTypes
    <2>7. WindowRight'
      BY <1>5, <2>2, <2>4 DEF WindowRight
    <2>8. EndSeen'
      BY <1>0, <1>8 DEF BashSound, EndSeen, Step
    <2>9. ResultLast'
      BY <1>0, <1>7, <1>8 DEF BashSound, ResultLast, Step
    <2> QED
      BY <1>6, <2>6, <2>7, <2>8, <2>9 DEF CommandInv, BashSound
  <1>9. CASE spills /\ Kill(InGroup) /\ Returns("not captured", <<>>) /\ spill' = NoFile /\ UNCHANGED lastBytes
    <2>1. /\ procs' \in [Procs -> Proc]
          /\ \A p \in Procs : procs'[p].holds = procs[p].holds /\ (procs'[p].runs => procs[p].runs)
          /\ \A p \in InGroup : ~procs'[p].runs
      BY <1>0, <1>9, KillIs DEF InGroup, Procs
    <2>2. procs'["child"].holds = procs["child"].holds
      BY <2>1 DEF Procs
    <2>3. /\ result' \in [kind : {"none", "done", "timeout", "not captured"}, text : Seq(Octets)]
          /\ result'.kind = "not captured" /\ loop' = "ended"
          /\ spill' \in [is : BOOLEAN, text : Seq(Octets)]
      <3>1. <<>> \in Seq(Octets)
        OBVIOUS
      <3> QED
        BY <1>9, <3>1 DEF Returns, NoFile
    <2>4. CommandTypes'
      BY <1>0, <1>5, <1>9, <2>1, <2>3 DEF CommandTypes
    <2>5. WindowRight' /\ ResultLast'
      BY <2>1, <2>3 DEF WindowRight, ResultLast
    <2>6. EndSeen'
      BY <1>0, <2>2, <2>3 DEF BashSound, EndSeen
    <2> QED
      BY <1>6, <2>4, <2>5, <2>6 DEF CommandInv, BashSound
  <1> QED
    BY <1>1, <1>8, <1>9

\* The other steps of bash.
LEMMA BashSafe ==
  ASSUME CommandInv, BashDry \/ BashCheck \/ BashEnd
  PROVE  CommandInv'
  <1>0. /\ CommandTypes /\ BashSound /\ program = "bash" /\ loop # "ended"
        /\ UNCHANGED <<program, pipes, got, lastBytes, written>>
    BY DEF CommandInv, BashDry, BashCheck, BashEnd
  <1>1. AllThere' /\ result = NoResult /\ result.kind = "none" /\ <<>> \in Seq(Octets)
    BY <1>0 DEF BashSound, AllThere, ResultLast, NoResult
  <1>2. CASE BashDry
    <2>1. pipeOpen' = (pipeOpen /\ Held) /\ UNCHANGED <<procs, spill, result>> /\ loop' = "check" /\ (pipeOpen => pipes["out"] = <<>>)
      BY <1>2 DEF BashDry, Step
    <2>2. CommandTypes'
      BY <1>0, <2>1 DEF CommandTypes
    <2>3. EndSeen'
      BY <1>0, <2>1 DEF BashSound, EndSeen, Held
    <2> QED
      BY <1>0, <1>1, <2>1, <2>2, <2>3 DEF CommandInv, BashSound, WindowRight, ResultLast
  <1>3. CASE BashCheck
    <2>1. UNCHANGED pipeOpen
      BY <1>3 DEF BashCheck
    <2>2. CASE Kill(InGroup) /\ Returns("timeout", <<>>) /\ spill' = NoFile
      <3>1. /\ procs' \in [Procs -> Proc]
            /\ \A p \in Procs : procs'[p].holds = procs[p].holds /\ (procs'[p].runs => procs[p].runs)
            /\ \A p \in InGroup : ~procs'[p].runs
        BY <1>0, <2>2, KillIs DEF InGroup, Procs
      <3>2. (Held' => Held) /\ procs'["child"].holds = procs["child"].holds
        BY <1>0, <3>1, FewerRun
      <3>3. /\ result' \in [kind : {"none", "done", "timeout", "not captured"}, text : Seq(Octets)]
            /\ result'.kind = "timeout" /\ loop' = "ended"
            /\ spill' \in [is : BOOLEAN, text : Seq(Octets)]
        BY <1>1, <2>2 DEF Returns, NoFile
      <3>4. CommandTypes'
        BY <1>0, <2>1, <3>1, <3>3 DEF CommandTypes
      <3>5. WindowRight' /\ ResultLast'
        BY <3>1, <3>3 DEF WindowRight, ResultLast
      <3>6. EndSeen'
        BY <1>0, <2>1, <3>2, <3>3 DEF BashSound, EndSeen
      <3> QED
        BY <1>0, <1>1, <3>4, <3>5, <3>6 DEF CommandInv, BashSound
    <2>3. CASE /\ \E victims : Kill(victims)
               /\ loop' \in {"read", "grace"} /\ (loop' = "grace" => ~pipeOpen) /\ UNCHANGED <<spill, result>>
      <3>1. /\ procs' \in [Procs -> Proc]
            /\ \A p \in Procs : procs'[p].holds = procs[p].holds /\ (procs'[p].runs => procs[p].runs)
        BY <1>0, <2>3, KillIs
      <3>2. (Held' => Held) /\ procs'["child"].holds = procs["child"].holds
        BY <1>0, <3>1, FewerRun
      <3>3. CommandTypes'
        BY <1>0, <2>1, <2>3, <3>1 DEF CommandTypes
      <3>4. EndSeen'
        BY <1>0, <2>1, <2>3, <3>2 DEF BashSound, EndSeen
      <3> QED
        BY <1>0, <1>1, <2>3, <3>3, <3>4 DEF CommandInv, BashSound, WindowRight, ResultLast
    <2> QED
      BY <1>3, <2>2, <2>3 DEF BashCheck, Step
  <1>4. CASE BashEnd
    <2>1. UNCHANGED pipeOpen /\ ~pipeOpen /\ Kill(InGroup)
      BY <1>0, <1>4 DEF BashEnd, BashSound, EndSeen
    <2>2. /\ procs' \in [Procs -> Proc]
          /\ \A p \in Procs : procs'[p].holds = procs[p].holds /\ (procs'[p].runs => procs[p].runs)
          /\ \A p \in InGroup : ~procs'[p].runs
      BY <1>0, <2>1, KillIs DEF InGroup, Procs
    <2>3. (Held' => Held) /\ procs'["child"].holds = procs["child"].holds
      BY <1>0, <2>2, FewerRun
    <2>4. loop' = "ended"
      BY <1>4 DEF BashEnd, Returns
    <2>5. EndSeen'
      BY <1>0, <2>1, <2>3, <2>4 DEF BashSound, EndSeen
    <2>6. lastBytes \in Seq(Octets) /\ FromLine(lastBytes) \in Seq(Octets) /\ spill \in [is : BOOLEAN, text : Seq(Octets)]
      BY <1>0, FromLineIs DEF CommandTypes
    <2>7. CASE Returns("done", IF spill.is THEN FromLine(lastBytes) ELSE lastBytes) /\ UNCHANGED spill
      <3>1. /\ result' \in [kind : {"none", "done", "timeout", "not captured"}, text : Seq(Octets)]
            /\ result'.kind = "done" /\ result'.text = IF spill.is THEN FromLine(lastBytes) ELSE lastBytes
        BY <2>6, <2>7 DEF Returns
      <3>2. CommandTypes'
        BY <1>0, <2>1, <2>2, <2>7, <3>1 DEF CommandTypes
      <3>3. WindowRight' /\ ResultLast'
        BY <1>0, <1>1, <2>1, <2>2, <2>4, <2>7, <3>1 DEF BashSound, WindowRight, ResultLast
      <3> QED
        BY <1>0, <1>1, <2>5, <3>2, <3>3 DEF CommandInv, BashSound
    <2>8. CASE Returns("not captured", <<>>) /\ spill' = NoFile
      <3>1. /\ result' \in [kind : {"none", "done", "timeout", "not captured"}, text : Seq(Octets)]
            /\ result'.kind = "not captured" /\ spill' \in [is : BOOLEAN, text : Seq(Octets)]
        BY <1>1, <2>8 DEF Returns, NoFile
      <3>2. CommandTypes'
        BY <1>0, <2>1, <2>2, <3>1 DEF CommandTypes
      <3>3. WindowRight' /\ ResultLast'
        BY <2>2, <2>4, <3>1 DEF WindowRight, ResultLast
      <3> QED
        BY <1>0, <1>1, <2>5, <3>2, <3>3 DEF CommandInv, BashSound
    <2> QED
      BY <1>4, <2>7, <2>8 DEF BashEnd
  <1> QED
    BY <1>2, <1>3, <1>4

\* The python tool keeps the types.
LEMMA PythonSafe ==
  ASSUME CommandInv, PythonWait \/ \E s \in {"out", "err"} : PythonRead(s)
  PROVE  CommandInv'
  <1>0. /\ CommandTypes /\ program = "python" /\ UNCHANGED <<program, pipeOpen, lastBytes, spill, written>> /\ <<>> \in Seq(Octets)
    BY DEF CommandInv, PythonWait, PythonRead
  <1>1. CASE PythonWait
    <2>1. UNCHANGED <<pipes, got>>
      BY <1>1 DEF PythonWait
    <2>2. procs' \in [Procs -> Proc]
      BY <1>0, <1>1, KillIs DEF PythonWait, CommandTypes
    <2>3. result' = result \/ result' = [kind |-> "timeout", text |-> <<>>]
      BY <1>1 DEF PythonWait, Returns
    <2>4. result' \in [kind : {"none", "done", "timeout", "not captured"}, text : Seq(Octets)]
      <3>1. CASE result' = result
        BY <1>0, <3>1 DEF CommandTypes
      <3>2. CASE result' = [kind |-> "timeout", text |-> <<>>]
        BY <1>0, <3>2
      <3> QED
        BY <2>3, <3>1, <3>2
    <2> QED
      BY <1>0, <2>1, <2>2, <2>4 DEF CommandInv, CommandTypes
  <1>2. ASSUME NEW s \in {"out", "err"}, PythonRead(s) PROVE CommandInv'
    <2>1. UNCHANGED procs
      BY <1>2 DEF PythonRead
    <2>2. CASE /\ pipes[s] # <<>> /\ UNCHANGED result
               /\ got' = [got EXCEPT ![s] = Append(@, Head(pipes[s]))] /\ pipes' = [pipes EXCEPT ![s] = Tail(@)]
      <3>1. /\ pipes \in [{"out", "err"} -> Seq(Octets)] /\ got \in [{"out", "err"} -> Seq(Octets)]
            /\ pipes[s] \in Seq(Octets) /\ got[s] \in Seq(Octets)
        BY <1>0 DEF CommandTypes
      <3>2. Head(pipes[s]) \in Octets /\ Tail(pipes[s]) \in Seq(Octets) /\ Append(got[s], Head(pipes[s])) \in Seq(Octets)
        BY <2>2, <3>1
      <3>3. pipes' \in [{"out", "err"} -> Seq(Octets)] /\ got' \in [{"out", "err"} -> Seq(Octets)]
        BY <2>2, <3>1, <3>2
      <3> QED
        BY <1>0, <2>1, <2>2, <3>3 DEF CommandInv, CommandTypes
    <2>3. CASE UNCHANGED <<got, pipes>> /\ (result' = result \/ result' = [kind |-> "done", text |-> got["out"]])
      <3>1. result' \in [kind : {"none", "done", "timeout", "not captured"}, text : Seq(Octets)]
        <4>0. got["out"] \in Seq(Octets)
          BY <1>0 DEF CommandTypes
        <4>1. CASE result' = result
          BY <1>0, <4>1 DEF CommandTypes
        <4>2. CASE result' = [kind |-> "done", text |-> got["out"]]
          BY <4>0, <4>2
        <4> QED
          BY <2>3, <4>1, <4>2
      <3> QED
        BY <1>0, <2>1, <2>3, <3>1 DEF CommandInv, CommandTypes
    <2> QED
      BY <1>2, <2>2, <2>3 DEF PythonRead, Returns
  <1> QED
    BY <1>1, <1>2

\* The command stays sound.
LEMMA CommandStep ==
  ASSUME CommandInv, CommandNext \/ UNCHANGED command
  PROVE  CommandInv'
  <1>1. CASE Second \/ UNCHANGED command
    <2>1. UNCHANGED <<program, loop, procs, pipes, pipeOpen, got, lastBytes, spill, signaled, result, written>>
      BY <1>1 DEF Second, command
    <2> QED
      BY <2>1 DEF CommandInv, CommandTypes, BashSound, AllThere, WindowRight, EndSeen, ResultLast, Held
  <1>2. CASE \E p \in DOMAIN procs : Spawn(p) \/ Exit(p) \/ \E s \in {"out", "err"} : Write(p, s)
    <2>1. DOMAIN procs = Procs
      BY DEF CommandInv, CommandTypes
    <2> QED
      BY <1>2, <2>1, WriteSafe, ProcsSafe
  <1>3. CASE Tool
    BY <1>3, ReadSafe, BashSafe, PythonSafe DEF Tool
  <1> QED
    BY <1>1, <1>2, <1>3 DEF CommandNext
-----------------------------------------------------------------------------
(* The browser: done is done, and nothing is left open                      *)

Methods == {"version", "create", "attach", "navigate", "state", "extract", "evaluate", "capture", "press", "release"}
Sayings == {"ok", "error", "complete", "loading"}
Asked == [method : Methods, says : Sayings \cup {"nothing"}]
Message == [id : Nat, method : Methods, says : Sayings]
Stops == {"idle", "spawn", "client", "write", "wait", "term", "reap", "kill", "await", "stop", "join", "remove"}
Acts == {"none", "open", "navigate", "evaluate", "screenshot", "click", "status", "close"}
Kinds == {"none", "running", "not running", "already open", "error", "opened", "still loading", "done"}
Caller == [at : Stops, action : Acts, todo : Seq(Methods), id : Nat, slept : Nat, done : BOOLEAN, first : Nat \ {0}]
Client == [is : BOOLEAN, dead : BOOLEAN, shutdown : BOOLEAN, pending : Seq(Message)]
Wires == [ours : BOOLEAN, requests : Seq(Nat), replies : Seq(Message)]
Leader == [is : {"none", "forked", "runs", "zombie", "reaped"}, told : BOOLEAN]
Straggler == [runs : BOOLEAN, holds : BOOLEAN, told : BOOLEAN]
Outcome == [action : Acts, kind : Kinds, first : Nat \ {0}]

BrowserTypes ==
  /\ caller \in Caller /\ session \in [is : BOOLEAN, page : BOOLEAN] /\ client \in Client
  /\ listener \in {"none", "polls", "ended"} /\ wires \in Wires /\ leader \in Leader /\ straggler \in Straggler
  /\ requested \in Seq(Asked) /\ outcome \in Outcome

\* What is left of a call before it is over; its handshake has a list of its own.
Todos(a) ==
  CASE a = "navigate" -> {<<"create", "attach", "navigate", "state", "extract">>, <<"attach", "navigate", "state", "extract">>,
                          <<"navigate", "state", "extract">>, <<"state", "extract">>, <<"extract">>}
    [] a = "evaluate" -> {<<"create", "attach", "evaluate">>, <<"attach", "evaluate">>, <<"evaluate">>}
    [] a = "screenshot" -> {<<"create", "attach", "capture">>, <<"attach", "capture">>, <<"capture">>}
    [] a = "click" -> {<<"create", "attach", "press", "release">>, <<"attach", "press", "release">>, <<"press", "release">>, <<"release">>}
    [] OTHER -> {}
\* The browser gave this answer to such a request, from the first of the action on.
Did(first, method, says) == \E i \in first .. Len(requested) : requested[i].method = method /\ requested[i].says = says
\* What is behind an action that has this left to do.
Behind(a, todo, first) ==
  /\ a = "navigate" /\ todo \in {<<"state", "extract">>, <<"extract">>} => Did(first, "navigate", "ok")
  /\ a = "click" /\ todo = <<"release">> => Did(first, "press", "ok")

\* Replies are what the browser answered, each request on the way has none yet.
Truthful(r) == r.id \in 1 .. Len(requested) /\ requested[r.id].method = r.method /\ requested[r.id].says = r.says
Waits(id) == id \in 1 .. Len(requested) /\ requested[id].says = "nothing"
RepliesTrue ==
  /\ \A n \in 1 .. Len(wires.replies) : Truthful(wires.replies[n])
  /\ \A n \in 1 .. Len(client.pending) : Truthful(client.pending[n])
Waiting ==
  /\ \A n \in 1 .. Len(wires.requests) : Waits(wires.requests[n])
  /\ \A m, n \in 1 .. Len(wires.requests) : wires.requests[m] = wires.requests[n] => m = n
Fitting ==
  \A i \in 1 .. Len(requested) :
    requested[i].says \in {"nothing", "error"} \cup (IF requested[i].method = "state" THEN {"complete", "loading"} ELSE {"ok"})
Heard == RepliesTrue /\ Waiting /\ Fitting
\* What the caller does is a part of its action, and what is before that was done.
Working ==
  /\ caller.at \in {"write", "wait"} =>
       /\ caller.todo = <<"version">> \/ (session.is /\ caller.todo \in Todos(caller.action))
       /\ Behind(caller.action, caller.todo, caller.first)
       /\ caller.done => Did(caller.first, "state", "complete")
       /\ caller.first <= Len(requested) + 1
  /\ caller.at = "wait" => caller.id \in caller.first .. Len(requested) /\ requested[caller.id].method = Head(caller.todo)
\* Where nothing of the browser is left, and on the way there.
Gone ==
  /\ leader.is \in {"none", "reaped"} /\ client = NoClient /\ listener = "none" /\ wires = NoWires
  /\ straggler.runs => straggler.told
Staged ==
  /\ client.is \/ (client = NoClient /\ listener = "none")
  /\ caller.at \in {"write", "wait"} \/ (caller.at = "idle" /\ session.is) => client.is
  /\ caller.at \in {"spawn", "remove"} \/ (caller.at = "idle" /\ ~session.is) => Gone
  /\ caller.at \in {"spawn", "client"} => ~session.is /\ ~caller.done
  /\ caller.at = "client" => client = NoClient /\ wires.requests = <<>> /\ wires.replies = <<>>
  /\ caller.at \in {"reap", "kill", "await", "stop", "join"} => leader.told /\ (straggler.runs => straggler.told)
  /\ caller.at \in {"stop", "join"} => leader.is = "reaped"
\* What a call says it did.
Reported ==
  /\ caller.at # "idle" => outcome.kind \notin {"opened", "done"}
  /\ outcome.kind = "opened" => Did(outcome.first, "version", "ok")
  /\ outcome.kind = "done" =>
       /\ outcome.action = "navigate" =>
            Did(outcome.first, "navigate", "ok") /\ Did(outcome.first, "state", "complete") /\ Did(outcome.first, "extract", "ok")
       /\ outcome.action = "evaluate" => Did(outcome.first, "evaluate", "ok")
       /\ outcome.action = "screenshot" => Did(outcome.first, "capture", "ok")
       /\ outcome.action = "click" => Did(outcome.first, "press", "ok") /\ Did(outcome.first, "release", "ok")
BrowserInv == BrowserTypes /\ Heard /\ Working /\ Staged /\ Reported

\* What the runs check follows.
LEMMA BrowserInvGives ==
  ASSUME BrowserInv
  PROVE  NothingLeftOpen /\ DoneIsDone
  <1>1. NothingLeftOpen
    BY DEF BrowserInv, Staged, Gone, NothingLeftOpen, NoClient, NoWires
  <1>2. ASSUME NEW method, NEW says, Did(outcome.first, method, says) PROVE says \in Since(outcome.first, method)
    BY <1>2 DEF Did, Since
  <1>3. DoneIsDone
    BY <1>2 DEF BrowserInv, Reported, DoneIsDone
  <1> QED
    BY <1>1, <1>3

\* Before the first action of the tool there is no browser.
LEMMA BrowserStart == BrowserInit => BrowserInv
  <1> SUFFICES ASSUME BrowserInit PROVE BrowserInv
    OBVIOUS
  <1>0. <<>> \in Seq(Methods) /\ <<>> \in Seq(Message) /\ <<>> \in Seq(Nat) /\ <<>> \in Seq(Asked) /\ Len(<<>>) = 0
    OBVIOUS
  <1>1. caller \in Caller /\ caller.at = "idle"
    BY <1>0 DEF BrowserInit, Idle, Caller, Stops, Acts
  <1>2. client \in Client /\ client = NoClient /\ client.pending = <<>> /\ ~client.is
    BY <1>0 DEF BrowserInit, NoClient, Client
  <1>3. wires \in Wires /\ wires = NoWires /\ wires.requests = <<>> /\ wires.replies = <<>>
    BY <1>0 DEF BrowserInit, NoWires, Wires
  <1>4. leader \in Leader /\ leader.is = "none" /\ straggler \in Straggler /\ ~straggler.runs
    BY DEF BrowserInit, Leader, Straggler, NoStraggler
  <1>5. outcome \in Outcome /\ outcome.kind = "none"
    BY DEF BrowserInit, Outcome, Acts, Kinds
  <1>6. requested = <<>> /\ listener = "none" /\ session \in [is : BOOLEAN, page : BOOLEAN] /\ ~session.is
    BY DEF BrowserInit, NoSession
  <1>7. BrowserTypes
    BY <1>0, <1>1, <1>2, <1>3, <1>4, <1>5, <1>6 DEF BrowserTypes
  <1>8. Heard
    BY <1>0, <1>2, <1>3, <1>6 DEF Heard, RepliesTrue, Waiting, Fitting
  <1>9. Working /\ Staged /\ Reported
    BY <1>1, <1>2, <1>3, <1>4, <1>5, <1>6 DEF Working, Staged, Gone, Reported
  <1> QED
    BY <1>7, <1>8, <1>9 DEF BrowserInv

\* ---- what stays as the requests grow ----
\* No request goes and no answer changes.
AnswersGrow ==
  /\ Len(requested) <= Len(requested')
  /\ \A i \in 1 .. Len(requested) :
       requested'[i].method = requested[i].method /\ (requested[i].says # "nothing" => requested'[i].says = requested[i].says)

\* What the browser answered stays answered.
LEMMA DidStays ==
  ASSUME requested \in Seq(Asked), requested' \in Seq(Asked), AnswersGrow, NEW f \in Nat \ {0}, NEW m, NEW s, s # "nothing", Did(f, m, s)
  PROVE  Did(f, m, s)'
  <1>1. PICK i \in f .. Len(requested) : requested[i].method = m /\ requested[i].says = s
    BY DEF Did
  <1>2. Len(requested) \in Nat /\ Len(requested') \in Nat
    OBVIOUS
  <1>3. i \in 1 .. Len(requested) /\ i \in f .. Len(requested')
    BY <1>2 DEF AnswersGrow
  <1> QED
    BY <1>1, <1>3 DEF Did, AnswersGrow

\* A reply stays what the browser answered to its request.
LEMMA TruthfulStays ==
  ASSUME requested \in Seq(Asked), requested' \in Seq(Asked), AnswersGrow, NEW r \in Message, Truthful(r)
  PROVE  Truthful(r)'
  <1>1. Len(requested) \in Nat /\ Len(requested') \in Nat /\ r.says # "nothing"
    BY DEF Message, Sayings
  <1>2. r.id \in 1 .. Len(requested')
    BY <1>1 DEF Truthful, AnswersGrow
  <1> QED
    BY <1>1, <1>2 DEF Truthful, AnswersGrow

\* What was done before the rest of an action stays done.
LEMMA BehindStays ==
  ASSUME requested \in Seq(Asked), requested' \in Seq(Asked), AnswersGrow, NEW f \in Nat \ {0}, NEW a, NEW t, Behind(a, t, f)
  PROVE  Behind(a, t, f)'
  BY DidStays DEF Behind

\* What the last action reported stays true.
LEMMA ReportedStays ==
  ASSUME BrowserTypes, requested' \in Seq(Asked), AnswersGrow, Reported, UNCHANGED outcome, caller'.at # "idle" => caller.at # "idle"
  PROVE  Reported'
  <1>1. outcome.first \in Nat \ {0}
    BY DEF BrowserTypes, Outcome
  <1>2. ASSUME NEW m, NEW s \in {"ok", "complete"}, Did(outcome.first, m, s) PROVE Did(outcome.first, m, s)'
    BY <1>1, <1>2, DidStays DEF BrowserTypes
  <1> QED
    BY <1>2 DEF Reported

\* What is left to do, one by one.
LEMMA TodoNext ==
  ASSUME NEW a \in Acts, NEW t \in Todos(a)
  PROVE  /\ t \in Seq(Methods) /\ t # <<>> /\ Head(t) \in Methods /\ Head(t) # "version"
         /\ Tail(t) = <<>> \/ Tail(t) \in Todos(a)
         /\ a \in {"navigate", "evaluate", "screenshot", "click"}
  <1>1. CASE a = "navigate"
    <2>1. CASE t = <<"create", "attach", "navigate", "state", "extract">>
      <3>1. <<"create", "attach", "navigate", "state", "extract">> \in Seq(Methods) /\ Head(<<"create", "attach", "navigate", "state", "extract">>) = "create" /\ <<"create", "attach", "navigate", "state", "extract">> # <<>> /\ "create" \in Methods
        BY DEF Methods
      <3>2. Tail(<<"create", "attach", "navigate", "state", "extract">>) = <<"attach", "navigate", "state", "extract">>
        OBVIOUS
      <3>3. <<"attach", "navigate", "state", "extract">> \in Todos(a)
        BY <1>1 DEF Todos
      <3> QED
        BY <1>1, <2>1, <3>1, <3>2, <3>3
    <2>2. CASE t = <<"attach", "navigate", "state", "extract">>
      <3>1. <<"attach", "navigate", "state", "extract">> \in Seq(Methods) /\ Head(<<"attach", "navigate", "state", "extract">>) = "attach" /\ <<"attach", "navigate", "state", "extract">> # <<>> /\ "attach" \in Methods
        BY DEF Methods
      <3>2. Tail(<<"attach", "navigate", "state", "extract">>) = <<"navigate", "state", "extract">>
        OBVIOUS
      <3>3. <<"navigate", "state", "extract">> \in Todos(a)
        BY <1>1 DEF Todos
      <3> QED
        BY <1>1, <2>2, <3>1, <3>2, <3>3
    <2>3. CASE t = <<"navigate", "state", "extract">>
      <3>1. <<"navigate", "state", "extract">> \in Seq(Methods) /\ Head(<<"navigate", "state", "extract">>) = "navigate" /\ <<"navigate", "state", "extract">> # <<>> /\ "navigate" \in Methods
        BY DEF Methods
      <3>2. Tail(<<"navigate", "state", "extract">>) = <<"state", "extract">>
        OBVIOUS
      <3>3. <<"state", "extract">> \in Todos(a)
        BY <1>1 DEF Todos
      <3> QED
        BY <1>1, <2>3, <3>1, <3>2, <3>3
    <2>4. CASE t = <<"state", "extract">>
      <3>1. <<"state", "extract">> \in Seq(Methods) /\ Head(<<"state", "extract">>) = "state" /\ <<"state", "extract">> # <<>> /\ "state" \in Methods
        BY DEF Methods
      <3>2. Tail(<<"state", "extract">>) = <<"extract">>
        OBVIOUS
      <3>3. <<"extract">> \in Todos(a)
        BY <1>1 DEF Todos
      <3> QED
        BY <1>1, <2>4, <3>1, <3>2, <3>3
    <2>5. CASE t = <<"extract">>
      <3>1. <<"extract">> \in Seq(Methods) /\ Head(<<"extract">>) = "extract" /\ <<"extract">> # <<>> /\ "extract" \in Methods
        BY DEF Methods
      <3>2. Tail(<<"extract">>) = <<>>
        OBVIOUS
      <3> QED
        BY <1>1, <2>5, <3>1, <3>2
    <2> QED
      BY <1>1, <2>1, <2>2, <2>3, <2>4, <2>5 DEF Todos
  <1>2. CASE a = "evaluate"
    <2>1. CASE t = <<"create", "attach", "evaluate">>
      <3>1. <<"create", "attach", "evaluate">> \in Seq(Methods) /\ Head(<<"create", "attach", "evaluate">>) = "create" /\ <<"create", "attach", "evaluate">> # <<>> /\ "create" \in Methods
        BY DEF Methods
      <3>2. Tail(<<"create", "attach", "evaluate">>) = <<"attach", "evaluate">>
        OBVIOUS
      <3>3. <<"attach", "evaluate">> \in Todos(a)
        BY <1>2 DEF Todos
      <3> QED
        BY <1>2, <2>1, <3>1, <3>2, <3>3
    <2>2. CASE t = <<"attach", "evaluate">>
      <3>1. <<"attach", "evaluate">> \in Seq(Methods) /\ Head(<<"attach", "evaluate">>) = "attach" /\ <<"attach", "evaluate">> # <<>> /\ "attach" \in Methods
        BY DEF Methods
      <3>2. Tail(<<"attach", "evaluate">>) = <<"evaluate">>
        OBVIOUS
      <3>3. <<"evaluate">> \in Todos(a)
        BY <1>2 DEF Todos
      <3> QED
        BY <1>2, <2>2, <3>1, <3>2, <3>3
    <2>3. CASE t = <<"evaluate">>
      <3>1. <<"evaluate">> \in Seq(Methods) /\ Head(<<"evaluate">>) = "evaluate" /\ <<"evaluate">> # <<>> /\ "evaluate" \in Methods
        BY DEF Methods
      <3>2. Tail(<<"evaluate">>) = <<>>
        OBVIOUS
      <3> QED
        BY <1>2, <2>3, <3>1, <3>2
    <2> QED
      BY <1>2, <2>1, <2>2, <2>3 DEF Todos
  <1>3. CASE a = "screenshot"
    <2>1. CASE t = <<"create", "attach", "capture">>
      <3>1. <<"create", "attach", "capture">> \in Seq(Methods) /\ Head(<<"create", "attach", "capture">>) = "create" /\ <<"create", "attach", "capture">> # <<>> /\ "create" \in Methods
        BY DEF Methods
      <3>2. Tail(<<"create", "attach", "capture">>) = <<"attach", "capture">>
        OBVIOUS
      <3>3. <<"attach", "capture">> \in Todos(a)
        BY <1>3 DEF Todos
      <3> QED
        BY <1>3, <2>1, <3>1, <3>2, <3>3
    <2>2. CASE t = <<"attach", "capture">>
      <3>1. <<"attach", "capture">> \in Seq(Methods) /\ Head(<<"attach", "capture">>) = "attach" /\ <<"attach", "capture">> # <<>> /\ "attach" \in Methods
        BY DEF Methods
      <3>2. Tail(<<"attach", "capture">>) = <<"capture">>
        OBVIOUS
      <3>3. <<"capture">> \in Todos(a)
        BY <1>3 DEF Todos
      <3> QED
        BY <1>3, <2>2, <3>1, <3>2, <3>3
    <2>3. CASE t = <<"capture">>
      <3>1. <<"capture">> \in Seq(Methods) /\ Head(<<"capture">>) = "capture" /\ <<"capture">> # <<>> /\ "capture" \in Methods
        BY DEF Methods
      <3>2. Tail(<<"capture">>) = <<>>
        OBVIOUS
      <3> QED
        BY <1>3, <2>3, <3>1, <3>2
    <2> QED
      BY <1>3, <2>1, <2>2, <2>3 DEF Todos
  <1>4. CASE a = "click"
    <2>1. CASE t = <<"create", "attach", "press", "release">>
      <3>1. <<"create", "attach", "press", "release">> \in Seq(Methods) /\ Head(<<"create", "attach", "press", "release">>) = "create" /\ <<"create", "attach", "press", "release">> # <<>> /\ "create" \in Methods
        BY DEF Methods
      <3>2. Tail(<<"create", "attach", "press", "release">>) = <<"attach", "press", "release">>
        OBVIOUS
      <3>3. <<"attach", "press", "release">> \in Todos(a)
        BY <1>4 DEF Todos
      <3> QED
        BY <1>4, <2>1, <3>1, <3>2, <3>3
    <2>2. CASE t = <<"attach", "press", "release">>
      <3>1. <<"attach", "press", "release">> \in Seq(Methods) /\ Head(<<"attach", "press", "release">>) = "attach" /\ <<"attach", "press", "release">> # <<>> /\ "attach" \in Methods
        BY DEF Methods
      <3>2. Tail(<<"attach", "press", "release">>) = <<"press", "release">>
        OBVIOUS
      <3>3. <<"press", "release">> \in Todos(a)
        BY <1>4 DEF Todos
      <3> QED
        BY <1>4, <2>2, <3>1, <3>2, <3>3
    <2>3. CASE t = <<"press", "release">>
      <3>1. <<"press", "release">> \in Seq(Methods) /\ Head(<<"press", "release">>) = "press" /\ <<"press", "release">> # <<>> /\ "press" \in Methods
        BY DEF Methods
      <3>2. Tail(<<"press", "release">>) = <<"release">>
        OBVIOUS
      <3>3. <<"release">> \in Todos(a)
        BY <1>4 DEF Todos
      <3> QED
        BY <1>4, <2>3, <3>1, <3>2, <3>3
    <2>4. CASE t = <<"release">>
      <3>1. <<"release">> \in Seq(Methods) /\ Head(<<"release">>) = "release" /\ <<"release">> # <<>> /\ "release" \in Methods
        BY DEF Methods
      <3>2. Tail(<<"release">>) = <<>>
        OBVIOUS
      <3> QED
        BY <1>4, <2>4, <3>1, <3>2
    <2> QED
      BY <1>4, <2>1, <2>2, <2>3, <2>4 DEF Todos
  <1>5. CASE a \notin {"navigate", "evaluate", "screenshot", "click"}
    BY <1>5 DEF Todos
  <1> QED
    BY <1>1, <1>2, <1>3, <1>4, <1>5

\* The elements of two behind one another, the first of them a pair.
LEMMA PairFirst ==
  ASSUME NEW S, NEW e \in Seq(S), Len(e) = 2, NEW s \in Seq(S)
  PROVE  /\ e \o s \in Seq(S) /\ Len(e \o s) = 2 + Len(s) /\ (e \o s)[1] = e[1] /\ (e \o s)[2] = e[2]
         /\ 1 <= Len(s) => (e \o s)[3] = s[1]
         /\ 2 <= Len(s) => (e \o s)[4] = s[2]
         /\ 3 <= Len(s) => (e \o s)[5] = s[3]
  BY ConcatProperties

\* How the requests of an action begin.
LEMMA TodoFirst ==
  ASSUME NEW a \in {"navigate", "evaluate", "screenshot", "click"}
  PROVE  Requests(a) \in Todos(a) /\ \A f : Behind(a, Requests(a), f)
  <1>1. CASE session.page
    <2>1. \A s \in Seq(Methods) : <<>> \o s = s
      BY ConcatEmptySeq
    <2>2. NavigateSends \in Seq(Methods) /\ EvaluateSends \in Seq(Methods) /\ ScreenshotSends \in Seq(Methods) /\ ClickSends \in Seq(Methods)
      BY DEF NavigateSends, EvaluateSends, ScreenshotSends, ClickSends, Methods
    <2>3. /\ a = "navigate" => Requests(a) = NavigateSends
          /\ a = "evaluate" => Requests(a) = EvaluateSends
          /\ a = "screenshot" => Requests(a) = ScreenshotSends
          /\ a = "click" => Requests(a) = ClickSends
      BY <1>1, <2>1, <2>2 DEF Requests, EnsurePage
    <2> QED
      BY <2>3 DEF NavigateSends, EvaluateSends, ScreenshotSends, ClickSends, Todos, Behind
  <1>2. CASE ~session.page
    <2>0. EnsurePage \in Seq(Methods) /\ Len(EnsurePage) = 2 /\ EnsurePage[1] = "create" /\ EnsurePage[2] = "attach"
      <3>1. EnsurePage = <<"create", "attach">>
        BY <1>2 DEF EnsurePage
      <3> QED
        BY <3>1 DEF Methods
    <2>1. CASE a = "navigate"
      <3>1. NavigateSends \in Seq(Methods) /\ Len(NavigateSends) = 3 /\ NavigateSends[1] = "navigate" /\ NavigateSends[2] = "state" /\ NavigateSends[3] = "extract"
        BY DEF NavigateSends, Methods
      <3>2. Requests(a) = EnsurePage \o NavigateSends
        BY <2>1 DEF Requests
      <3>3. Requests(a) = <<"create", "attach", "navigate", "state", "extract">>
        <4> DEFINE q == Requests(a)
                   l == <<"create", "attach", "navigate", "state", "extract">>
        <4>1. q \in Seq(Methods) /\ Len(q) = 5 /\ q[1] = "create" /\ q[2] = "attach" /\ q[3] = "navigate" /\ q[4] = "state" /\ q[5] = "extract"
          <5>1. EnsurePage \in Seq(Methods) /\ Len(EnsurePage) = 2 /\ NavigateSends \in Seq(Methods)
            BY <2>0, <3>1
          <5>2. /\ EnsurePage \o NavigateSends \in Seq(Methods) /\ Len(EnsurePage \o NavigateSends) = 2 + Len(NavigateSends)
                /\ (EnsurePage \o NavigateSends)[1] = EnsurePage[1] /\ (EnsurePage \o NavigateSends)[2] = EnsurePage[2]
                /\ 1 <= Len(NavigateSends) => (EnsurePage \o NavigateSends)[3] = NavigateSends[1]
                /\ 2 <= Len(NavigateSends) => (EnsurePage \o NavigateSends)[4] = NavigateSends[2]
                /\ 3 <= Len(NavigateSends) => (EnsurePage \o NavigateSends)[5] = NavigateSends[3]
            BY ONLY <5>1, PairFirst
          <5> QED
            BY <2>0, <3>1, <3>2, <5>2
        <4>2. l \in Seq(Methods) /\ Len(l) = 5 /\ l[1] = "create" /\ l[2] = "attach" /\ l[3] = "navigate" /\ l[4] = "state" /\ l[5] = "extract"
          BY DEF Methods
        <4> HIDE DEF q, l
        <4>3. \A i \in 1 .. Len(q) : q[i] = l[i]
          BY <4>1, <4>2
        <4>4. q = l
          BY <4>1, <4>2, <4>3, SeqEqual
        <4> QED
          BY <4>4 DEF q, l
      <3> QED
        BY <2>1, <3>3 DEF Todos, Behind
    <2>2. CASE a = "evaluate"
      <3>1. EvaluateSends \in Seq(Methods) /\ Len(EvaluateSends) = 1 /\ EvaluateSends[1] = "evaluate"
        BY DEF EvaluateSends, Methods
      <3>2. Requests(a) = EnsurePage \o EvaluateSends
        BY <2>2 DEF Requests
      <3>3. Requests(a) = <<"create", "attach", "evaluate">>
        <4> DEFINE q == Requests(a)
                   l == <<"create", "attach", "evaluate">>
        <4>1. q \in Seq(Methods) /\ Len(q) = 3 /\ q[1] = "create" /\ q[2] = "attach" /\ q[3] = "evaluate"
          <5>1. EnsurePage \in Seq(Methods) /\ Len(EnsurePage) = 2 /\ EvaluateSends \in Seq(Methods)
            BY <2>0, <3>1
          <5>2. /\ EnsurePage \o EvaluateSends \in Seq(Methods) /\ Len(EnsurePage \o EvaluateSends) = 2 + Len(EvaluateSends)
                /\ (EnsurePage \o EvaluateSends)[1] = EnsurePage[1] /\ (EnsurePage \o EvaluateSends)[2] = EnsurePage[2]
                /\ 1 <= Len(EvaluateSends) => (EnsurePage \o EvaluateSends)[3] = EvaluateSends[1]
                /\ 2 <= Len(EvaluateSends) => (EnsurePage \o EvaluateSends)[4] = EvaluateSends[2]
                /\ 3 <= Len(EvaluateSends) => (EnsurePage \o EvaluateSends)[5] = EvaluateSends[3]
            BY ONLY <5>1, PairFirst
          <5> QED
            BY <2>0, <3>1, <3>2, <5>2
        <4>2. l \in Seq(Methods) /\ Len(l) = 3 /\ l[1] = "create" /\ l[2] = "attach" /\ l[3] = "evaluate"
          BY DEF Methods
        <4> HIDE DEF q, l
        <4>3. \A i \in 1 .. Len(q) : q[i] = l[i]
          BY <4>1, <4>2
        <4>4. q = l
          BY <4>1, <4>2, <4>3, SeqEqual
        <4> QED
          BY <4>4 DEF q, l
      <3> QED
        BY <2>2, <3>3 DEF Todos, Behind
    <2>3. CASE a = "screenshot"
      <3>1. ScreenshotSends \in Seq(Methods) /\ Len(ScreenshotSends) = 1 /\ ScreenshotSends[1] = "capture"
        BY DEF ScreenshotSends, Methods
      <3>2. Requests(a) = EnsurePage \o ScreenshotSends
        BY <2>3 DEF Requests
      <3>3. Requests(a) = <<"create", "attach", "capture">>
        <4> DEFINE q == Requests(a)
                   l == <<"create", "attach", "capture">>
        <4>1. q \in Seq(Methods) /\ Len(q) = 3 /\ q[1] = "create" /\ q[2] = "attach" /\ q[3] = "capture"
          <5>1. EnsurePage \in Seq(Methods) /\ Len(EnsurePage) = 2 /\ ScreenshotSends \in Seq(Methods)
            BY <2>0, <3>1
          <5>2. /\ EnsurePage \o ScreenshotSends \in Seq(Methods) /\ Len(EnsurePage \o ScreenshotSends) = 2 + Len(ScreenshotSends)
                /\ (EnsurePage \o ScreenshotSends)[1] = EnsurePage[1] /\ (EnsurePage \o ScreenshotSends)[2] = EnsurePage[2]
                /\ 1 <= Len(ScreenshotSends) => (EnsurePage \o ScreenshotSends)[3] = ScreenshotSends[1]
                /\ 2 <= Len(ScreenshotSends) => (EnsurePage \o ScreenshotSends)[4] = ScreenshotSends[2]
                /\ 3 <= Len(ScreenshotSends) => (EnsurePage \o ScreenshotSends)[5] = ScreenshotSends[3]
            BY ONLY <5>1, PairFirst
          <5> QED
            BY <2>0, <3>1, <3>2, <5>2
        <4>2. l \in Seq(Methods) /\ Len(l) = 3 /\ l[1] = "create" /\ l[2] = "attach" /\ l[3] = "capture"
          BY DEF Methods
        <4> HIDE DEF q, l
        <4>3. \A i \in 1 .. Len(q) : q[i] = l[i]
          BY <4>1, <4>2
        <4>4. q = l
          BY <4>1, <4>2, <4>3, SeqEqual
        <4> QED
          BY <4>4 DEF q, l
      <3> QED
        BY <2>3, <3>3 DEF Todos, Behind
    <2>4. CASE a = "click"
      <3>1. ClickSends \in Seq(Methods) /\ Len(ClickSends) = 2 /\ ClickSends[1] = "press" /\ ClickSends[2] = "release"
        BY DEF ClickSends, Methods
      <3>2. Requests(a) = EnsurePage \o ClickSends
        BY <2>4 DEF Requests
      <3>3. Requests(a) = <<"create", "attach", "press", "release">>
        <4> DEFINE q == Requests(a)
                   l == <<"create", "attach", "press", "release">>
        <4>1. q \in Seq(Methods) /\ Len(q) = 4 /\ q[1] = "create" /\ q[2] = "attach" /\ q[3] = "press" /\ q[4] = "release"
          <5>1. EnsurePage \in Seq(Methods) /\ Len(EnsurePage) = 2 /\ ClickSends \in Seq(Methods)
            BY <2>0, <3>1
          <5>2. /\ EnsurePage \o ClickSends \in Seq(Methods) /\ Len(EnsurePage \o ClickSends) = 2 + Len(ClickSends)
                /\ (EnsurePage \o ClickSends)[1] = EnsurePage[1] /\ (EnsurePage \o ClickSends)[2] = EnsurePage[2]
                /\ 1 <= Len(ClickSends) => (EnsurePage \o ClickSends)[3] = ClickSends[1]
                /\ 2 <= Len(ClickSends) => (EnsurePage \o ClickSends)[4] = ClickSends[2]
                /\ 3 <= Len(ClickSends) => (EnsurePage \o ClickSends)[5] = ClickSends[3]
            BY ONLY <5>1, PairFirst
          <5> QED
            BY <2>0, <3>1, <3>2, <5>2
        <4>2. l \in Seq(Methods) /\ Len(l) = 4 /\ l[1] = "create" /\ l[2] = "attach" /\ l[3] = "press" /\ l[4] = "release"
          BY DEF Methods
        <4> HIDE DEF q, l
        <4>3. \A i \in 1 .. Len(q) : q[i] = l[i]
          BY <4>1, <4>2
        <4>4. q = l
          BY <4>1, <4>2, <4>3, SeqEqual
        <4> QED
          BY <4>4 DEF q, l
      <3> QED
        BY <2>4, <3>3 DEF Todos, Behind
    <2> QED
      BY <2>1, <2>2, <2>3, <2>4
  <1> QED
    BY <1>1, <1>2

\* Each list there is, its first request and the rest.
LEMMA TodoTable ==
  ASSUME NEW a \in Acts, NEW t \in Todos(a)
  PROVE  \/ a = "navigate" /\ t = <<"create", "attach", "navigate", "state", "extract">> /\ Head(t) = "create" /\ Tail(t) = <<"attach", "navigate", "state", "extract">>
         \/ a = "navigate" /\ t = <<"attach", "navigate", "state", "extract">> /\ Head(t) = "attach" /\ Tail(t) = <<"navigate", "state", "extract">>
         \/ a = "navigate" /\ t = <<"navigate", "state", "extract">> /\ Head(t) = "navigate" /\ Tail(t) = <<"state", "extract">>
         \/ a = "navigate" /\ t = <<"state", "extract">> /\ Head(t) = "state" /\ Tail(t) = <<"extract">>
         \/ a = "navigate" /\ t = <<"extract">> /\ Head(t) = "extract" /\ Tail(t) = <<>>
         \/ a = "evaluate" /\ t = <<"create", "attach", "evaluate">> /\ Head(t) = "create" /\ Tail(t) = <<"attach", "evaluate">>
         \/ a = "evaluate" /\ t = <<"attach", "evaluate">> /\ Head(t) = "attach" /\ Tail(t) = <<"evaluate">>
         \/ a = "evaluate" /\ t = <<"evaluate">> /\ Head(t) = "evaluate" /\ Tail(t) = <<>>
         \/ a = "screenshot" /\ t = <<"create", "attach", "capture">> /\ Head(t) = "create" /\ Tail(t) = <<"attach", "capture">>
         \/ a = "screenshot" /\ t = <<"attach", "capture">> /\ Head(t) = "attach" /\ Tail(t) = <<"capture">>
         \/ a = "screenshot" /\ t = <<"capture">> /\ Head(t) = "capture" /\ Tail(t) = <<>>
         \/ a = "click" /\ t = <<"create", "attach", "press", "release">> /\ Head(t) = "create" /\ Tail(t) = <<"attach", "press", "release">>
         \/ a = "click" /\ t = <<"attach", "press", "release">> /\ Head(t) = "attach" /\ Tail(t) = <<"press", "release">>
         \/ a = "click" /\ t = <<"press", "release">> /\ Head(t) = "press" /\ Tail(t) = <<"release">>
         \/ a = "click" /\ t = <<"release">> /\ Head(t) = "release" /\ Tail(t) = <<>>
  <1>1. CASE a = "navigate"
    <2>1. CASE t = <<"create", "attach", "navigate", "state", "extract">>
      <3>1. Head(<<"create", "attach", "navigate", "state", "extract">>) = "create"
        OBVIOUS
      <3>2. Tail(<<"create", "attach", "navigate", "state", "extract">>) = <<"attach", "navigate", "state", "extract">>
        OBVIOUS
      <3> QED
        BY <1>1, <2>1, <3>1, <3>2
    <2>2. CASE t = <<"attach", "navigate", "state", "extract">>
      <3>1. Head(<<"attach", "navigate", "state", "extract">>) = "attach"
        OBVIOUS
      <3>2. Tail(<<"attach", "navigate", "state", "extract">>) = <<"navigate", "state", "extract">>
        OBVIOUS
      <3> QED
        BY <1>1, <2>2, <3>1, <3>2
    <2>3. CASE t = <<"navigate", "state", "extract">>
      <3>1. Head(<<"navigate", "state", "extract">>) = "navigate"
        OBVIOUS
      <3>2. Tail(<<"navigate", "state", "extract">>) = <<"state", "extract">>
        OBVIOUS
      <3> QED
        BY <1>1, <2>3, <3>1, <3>2
    <2>4. CASE t = <<"state", "extract">>
      <3>1. Head(<<"state", "extract">>) = "state"
        OBVIOUS
      <3>2. Tail(<<"state", "extract">>) = <<"extract">>
        OBVIOUS
      <3> QED
        BY <1>1, <2>4, <3>1, <3>2
    <2>5. CASE t = <<"extract">>
      <3>1. Head(<<"extract">>) = "extract"
        OBVIOUS
      <3>2. Tail(<<"extract">>) = <<>>
        OBVIOUS
      <3> QED
        BY <1>1, <2>5, <3>1, <3>2
    <2> QED
      BY <1>1, <2>1, <2>2, <2>3, <2>4, <2>5 DEF Todos
  <1>2. CASE a = "evaluate"
    <2>1. CASE t = <<"create", "attach", "evaluate">>
      <3>1. Head(<<"create", "attach", "evaluate">>) = "create"
        OBVIOUS
      <3>2. Tail(<<"create", "attach", "evaluate">>) = <<"attach", "evaluate">>
        OBVIOUS
      <3> QED
        BY <1>2, <2>1, <3>1, <3>2
    <2>2. CASE t = <<"attach", "evaluate">>
      <3>1. Head(<<"attach", "evaluate">>) = "attach"
        OBVIOUS
      <3>2. Tail(<<"attach", "evaluate">>) = <<"evaluate">>
        OBVIOUS
      <3> QED
        BY <1>2, <2>2, <3>1, <3>2
    <2>3. CASE t = <<"evaluate">>
      <3>1. Head(<<"evaluate">>) = "evaluate"
        OBVIOUS
      <3>2. Tail(<<"evaluate">>) = <<>>
        OBVIOUS
      <3> QED
        BY <1>2, <2>3, <3>1, <3>2
    <2> QED
      BY <1>2, <2>1, <2>2, <2>3 DEF Todos
  <1>3. CASE a = "screenshot"
    <2>1. CASE t = <<"create", "attach", "capture">>
      <3>1. Head(<<"create", "attach", "capture">>) = "create"
        OBVIOUS
      <3>2. Tail(<<"create", "attach", "capture">>) = <<"attach", "capture">>
        OBVIOUS
      <3> QED
        BY <1>3, <2>1, <3>1, <3>2
    <2>2. CASE t = <<"attach", "capture">>
      <3>1. Head(<<"attach", "capture">>) = "attach"
        OBVIOUS
      <3>2. Tail(<<"attach", "capture">>) = <<"capture">>
        OBVIOUS
      <3> QED
        BY <1>3, <2>2, <3>1, <3>2
    <2>3. CASE t = <<"capture">>
      <3>1. Head(<<"capture">>) = "capture"
        OBVIOUS
      <3>2. Tail(<<"capture">>) = <<>>
        OBVIOUS
      <3> QED
        BY <1>3, <2>3, <3>1, <3>2
    <2> QED
      BY <1>3, <2>1, <2>2, <2>3 DEF Todos
  <1>4. CASE a = "click"
    <2>1. CASE t = <<"create", "attach", "press", "release">>
      <3>1. Head(<<"create", "attach", "press", "release">>) = "create"
        OBVIOUS
      <3>2. Tail(<<"create", "attach", "press", "release">>) = <<"attach", "press", "release">>
        OBVIOUS
      <3> QED
        BY <1>4, <2>1, <3>1, <3>2
    <2>2. CASE t = <<"attach", "press", "release">>
      <3>1. Head(<<"attach", "press", "release">>) = "attach"
        OBVIOUS
      <3>2. Tail(<<"attach", "press", "release">>) = <<"press", "release">>
        OBVIOUS
      <3> QED
        BY <1>4, <2>2, <3>1, <3>2
    <2>3. CASE t = <<"press", "release">>
      <3>1. Head(<<"press", "release">>) = "press"
        OBVIOUS
      <3>2. Tail(<<"press", "release">>) = <<"release">>
        OBVIOUS
      <3> QED
        BY <1>4, <2>3, <3>1, <3>2
    <2>4. CASE t = <<"release">>
      <3>1. Head(<<"release">>) = "release"
        OBVIOUS
      <3>2. Tail(<<"release">>) = <<>>
        OBVIOUS
      <3> QED
        BY <1>4, <2>4, <3>1, <3>2
    <2> QED
      BY <1>4, <2>1, <2>2, <2>3, <2>4 DEF Todos
  <1> QED
    BY <1>1, <1>2, <1>3, <1>4 DEF Todos

\* A page may be given up waiting for; what was done before it stays done.
LEMMA TodoState ==
  ASSUME NEW a \in Acts, NEW t \in Todos(a), Head(t) = "state", NEW f, Behind(a, t, f)
  PROVE  Tail(t) \in Todos(a) /\ Behind(a, Tail(t), f) /\ a = "navigate"
  <1>1. a = "navigate" /\ t = <<"state", "extract">> /\ Tail(t) = <<"extract">>
    BY TodoTable
  <1> QED
    BY <1>1 DEF Todos, Behind

\* The first request was done: what is left is behind it, or all is.
LEMMA TodoDone ==
  ASSUME NEW a \in Acts, NEW t \in Todos(a), NEW f, Behind(a, t, f), Did(f, Head(t), IF Head(t) = "state" THEN "complete" ELSE "ok")
  PROVE  /\ Tail(t) # <<>> => Behind(a, Tail(t), f)
         /\ Tail(t) = <<>> =>
              /\ a = "navigate" => Did(f, "navigate", "ok") /\ Did(f, "extract", "ok")
              /\ a = "evaluate" => Did(f, "evaluate", "ok")
              /\ a = "screenshot" => Did(f, "capture", "ok")
              /\ a = "click" => Did(f, "press", "ok") /\ Did(f, "release", "ok")
  <1>0. /\ <<"navigate", "state", "extract">> \notin {<<"state", "extract">>, <<"extract">>}
        /\ <<"attach", "navigate", "state", "extract">> \notin {<<"state", "extract">>, <<"extract">>}
        /\ <<"press", "release">> # <<"release">> /\ <<"attach", "press", "release">> # <<"release">>
    OBVIOUS
  <1>1. CASE a = "navigate"
    <2>1. CASE t = <<"create", "attach", "navigate", "state", "extract">>
      <3>1. Head(t) = "create" /\ Tail(t) = <<"attach", "navigate", "state", "extract">>
        BY <2>1
      <3>2. Tail(t) # <<>>
        BY <3>1
      <3> QED
        BY <1>0, <1>1, <2>1, <3>1, <3>2 DEF Behind
    <2>2. CASE t = <<"attach", "navigate", "state", "extract">>
      <3>1. Head(t) = "attach" /\ Tail(t) = <<"navigate", "state", "extract">>
        BY <2>2
      <3>2. Tail(t) # <<>>
        BY <3>1
      <3> QED
        BY <1>0, <1>1, <2>2, <3>1, <3>2 DEF Behind
    <2>3. CASE t = <<"navigate", "state", "extract">>
      <3>1. Head(t) = "navigate" /\ Tail(t) = <<"state", "extract">>
        BY <2>3
      <3>2. Tail(t) # <<>>
        BY <3>1
      <3> QED
        BY <1>0, <1>1, <2>3, <3>1, <3>2 DEF Behind
    <2>4. CASE t = <<"state", "extract">>
      <3>1. Head(t) = "state" /\ Tail(t) = <<"extract">>
        BY <2>4
      <3>2. Tail(t) # <<>>
        BY <3>1
      <3> QED
        BY <1>0, <1>1, <2>4, <3>1, <3>2 DEF Behind
    <2>5. CASE t = <<"extract">>
      <3>1. Head(t) = "extract" /\ Tail(t) = <<>>
        BY <2>5
      <3> QED
        BY <1>0, <1>1, <2>5, <3>1 DEF Behind
    <2> QED
      BY <1>1, <2>1, <2>2, <2>3, <2>4, <2>5 DEF Todos
  <1>2. CASE a = "click"
    <2>1. CASE t = <<"create", "attach", "press", "release">>
      <3>1. Head(t) = "create" /\ Tail(t) = <<"attach", "press", "release">>
        BY <2>1
      <3>2. Tail(t) # <<>>
        BY <3>1
      <3> QED
        BY <1>0, <1>2, <2>1, <3>1, <3>2 DEF Behind
    <2>2. CASE t = <<"attach", "press", "release">>
      <3>1. Head(t) = "attach" /\ Tail(t) = <<"press", "release">>
        BY <2>2
      <3>2. Tail(t) # <<>>
        BY <3>1
      <3> QED
        BY <1>0, <1>2, <2>2, <3>1, <3>2 DEF Behind
    <2>3. CASE t = <<"press", "release">>
      <3>1. Head(t) = "press" /\ Tail(t) = <<"release">>
        BY <2>3
      <3>2. Tail(t) # <<>>
        BY <3>1
      <3> QED
        BY <1>0, <1>2, <2>3, <3>1, <3>2 DEF Behind
    <2>4. CASE t = <<"release">>
      <3>1. Head(t) = "release" /\ Tail(t) = <<>>
        BY <2>4
      <3> QED
        BY <1>0, <1>2, <2>4, <3>1 DEF Behind
    <2> QED
      BY <1>2, <2>1, <2>2, <2>3, <2>4 DEF Todos
  <1>3. CASE a \in {"evaluate", "screenshot"}
    <2>1. <<"attach", "evaluate">> # <<>> /\ <<"evaluate">> # <<>> /\ <<"attach", "capture">> # <<>> /\ <<"capture">> # <<>>
      OBVIOUS
    <2>2. Tail(t) = <<>> => (a = "evaluate" => Head(t) = "evaluate") /\ (a = "screenshot" => Head(t) = "capture")
      BY <1>3, <2>1, TodoTable
    <2>3. Behind(a, Tail(t), f)
      BY <1>3 DEF Behind
    <2> QED
      BY <1>3, <2>2, <2>3
  <1> QED
    BY <1>1, <1>2, <1>3, TodoTable

\* ---- the calls ----
\* What was asked is the same.
LEMMA SameRequests ==
  ASSUME BrowserTypes, UNCHANGED requested
  PROVE  requested' \in Seq(Asked) /\ AnswersGrow
  <1>1. Len(requested) \in Nat
    BY DEF BrowserTypes
  <1> QED
    BY <1>1 DEF BrowserTypes, AnswersGrow

\* Replies and requests that do not change stay in order.
LEMMA SameHeard ==
  ASSUME Heard, UNCHANGED requested, wires'.requests = wires.requests, wires'.replies = wires.replies, client'.pending = client.pending
  PROVE  Heard'
  BY DEF Heard, RepliesTrue, Waiting, Fitting, Truthful, Waits

\* Where nothing is on the way nothing is out of order.
LEMMA NoneHeard ==
  ASSUME wires'.requests = <<>>, wires'.replies = <<>>, client'.pending = <<>>, BrowserTypes,
         requested' = <<>> \/ (requested' = requested /\ Heard)
  PROVE  Heard'
  <1>1. Len(<<>>) = 0
    OBVIOUS
  <1> QED
    BY <1>1 DEF Heard, RepliesTrue, Waiting, Fitting

\* Replies that were true are true of what was asked since.
LEMMA ToldStays ==
  ASSUME BrowserTypes, RepliesTrue, requested' \in Seq(Asked), AnswersGrow, wires' \in Wires, client' \in Client,
         \A n \in 1 .. Len(wires'.replies) : wires'.replies[n] \in Message /\ Truthful(wires'.replies[n]),
         \A n \in 1 .. Len(client'.pending) : client'.pending[n] \in Message /\ Truthful(client'.pending[n])
  PROVE  RepliesTrue'
  <1>1. ASSUME NEW r \in Message, Truthful(r) PROVE Truthful(r)'
    BY <1>1, TruthfulStays DEF BrowserTypes
  <1>2. ASSUME NEW r \in Message, Truthful(r)
        PROVE  r.id \in 1 .. Len(requested') /\ requested'[r.id].method = r.method /\ requested'[r.id].says = r.says
    BY <1>1, <1>2 DEF Truthful
  <1> QED
    BY <1>2 DEF RepliesTrue, Truthful
\* A handshake is one request.
LEMMA Handshake == <<"version">> \in Seq(Methods) /\ Head(<<"version">>) = "version" /\ Tail(<<"version">>) = <<>> /\ <<"version">> # <<>>
  BY DEF Methods

\* The caller between two actions is one.
LEMMA IdleIs == Idle \in Caller /\ Idle.at = "idle"
  <1>1. <<>> \in Seq(Methods)
    OBVIOUS
  <1> QED
    BY <1>1 DEF Idle, Caller, Stops, Acts

\* Where a call leads to that failed.
LEMMA FailedIs ==
  ASSUME BrowserTypes, Working, caller.at \in {"write", "wait"}, NEW dead, Failed(dead)
  PROVE  /\ caller' \in Caller /\ outcome' \in Outcome /\ leader' \in Leader /\ UNCHANGED session
         /\ \/ caller'.at = "term" /\ UNCHANGED outcome
            \/ /\ caller'.at = "write" /\ UNCHANGED outcome /\ session.is
               /\ caller'.action = caller.action /\ caller'.first = caller.first /\ caller'.done = caller.done
               /\ caller'.todo \in Todos(caller.action) /\ Behind(caller.action, caller'.todo, caller.first)
            \/ caller'.at = "idle" /\ outcome'.kind = "error" /\ session.is
  <1>0. /\ caller \in Caller /\ outcome \in Outcome /\ leader \in Leader /\ caller.action \in Acts /\ caller.first \in Nat \ {0}
        /\ caller.todo \in Seq(Methods) /\ caller.slept \in Nat
        /\ Behind(caller.action, caller.todo, caller.first)
        /\ caller.todo = <<"version">> \/ (session.is /\ caller.todo \in Todos(caller.action))
    BY DEF BrowserTypes, Caller, Working
  <1>1. CASE Head(caller.todo) = "version"
    <2>1. /\ caller' = [caller EXCEPT !.at = "term"] /\ UNCHANGED <<outcome, session>>
          /\ leader' = (IF dead /\ leader.is = "zombie" THEN [leader EXCEPT !.is = "reaped"] ELSE leader)
      BY <1>1 DEF Failed
    <2>2. leader' \in Leader
      BY <1>0, <2>1 DEF Leader
    <2>3. caller' \in Caller /\ caller'.at = "term"
      BY <1>0, <2>1 DEF Caller, Stops
    <2> QED
      BY <1>0, <2>1, <2>2, <2>3
  <1>2. CASE Head(caller.todo) = "state"
    <2>1. /\ caller' = [caller EXCEPT !.at = "write", !.slept = @ + 1,
                                      !.todo = IF caller.slept + 1 < MaxSleeps THEN @ ELSE Tail(@)]
          /\ UNCHANGED <<outcome, session, leader>>
      BY <1>2 DEF Failed
    <2>2. session.is /\ caller.todo \in Todos(caller.action)
      BY <1>0, <1>2, Handshake
    <2>3. Tail(caller.todo) \in Todos(caller.action) /\ Behind(caller.action, Tail(caller.todo), caller.first)
      BY <1>0, <1>2, <2>2, TodoState
    <2>4. PICK t \in Todos(caller.action) : caller' = [caller EXCEPT !.at = "write", !.slept = @ + 1, !.todo = t] /\ Behind(caller.action, t, caller.first)
      BY <1>0, <2>1, <2>2, <2>3
    <2>5. t \in Seq(Methods)
      <3>1. caller.action \in Acts /\ t \in Todos(caller.action)
        BY <1>0, <2>4
      <3> QED
        BY <3>1, TodoNext
    <2>6. caller' \in Caller /\ caller'.at = "write" /\ caller'.todo = t /\ caller'.action = caller.action /\ caller'.first = caller.first /\ caller'.done = caller.done
      <3>1. caller' = [caller EXCEPT !.at = "write", !.slept = caller.slept + 1, !.todo = t] /\ caller.slept + 1 \in Nat /\ "write" \in Stops
        BY <1>0, <2>4 DEF Stops
      <3>2. caller' \in Caller
        BY <1>0, <2>5, <3>1 DEF Caller
      <3> QED
        BY <1>0, <3>1, <3>2 DEF Caller
    <2> QED
      BY <1>0, <2>1, <2>2, <2>4, <2>6
  <1>3. CASE Head(caller.todo) \notin {"version", "state"}
    <2>1. Concludes("error") /\ UNCHANGED <<session, leader>>
      BY <1>3 DEF Failed
    <2>2. caller' \in Caller /\ caller'.at = "idle"
      BY <2>1 DEF Concludes, Idle, Caller, Stops, Acts
    <2>3. outcome' \in Outcome /\ outcome'.kind = "error"
      BY <1>0, <2>1 DEF Concludes, Outcome, Kinds
    <2>4. session.is
      BY <1>0, <1>3, Handshake
    <2> QED
      BY <1>0, <2>1, <2>2, <2>3, <2>4
  <1> QED
    BY <1>1, <1>2, <1>3

\* A call of cdp.c that fails leads to its pause, its error or the end of the session.
LEMMA FailedSafe ==
  ASSUME BrowserInv, caller.at \in {"write", "wait"}, NEW dead, Failed(dead),
         requested' \in Seq(Asked), AnswersGrow, wires' \in Wires, client' \in Client, client'.is = client.is,
         UNCHANGED <<listener, straggler>>, Heard'
  PROVE  BrowserInv'
  <1>0. /\ BrowserTypes /\ Working /\ Staged /\ Reported /\ client.is
        /\ caller.first \in Nat \ {0} /\ Len(requested) \in Nat /\ Len(requested') \in Nat
    BY DEF BrowserInv, BrowserTypes, Caller, Staged
  <1>1. /\ caller' \in Caller /\ outcome' \in Outcome /\ leader' \in Leader /\ UNCHANGED session
        /\ \/ caller'.at = "term" /\ UNCHANGED outcome
           \/ /\ caller'.at = "write" /\ UNCHANGED outcome /\ session.is
              /\ caller'.action = caller.action /\ caller'.first = caller.first /\ caller'.done = caller.done
              /\ caller'.todo \in Todos(caller.action) /\ Behind(caller.action, caller'.todo, caller.first)
           \/ caller'.at = "idle" /\ outcome'.kind = "error" /\ session.is
    BY <1>0, FailedIs
  <1>2. BrowserTypes'
    BY <1>0, <1>1 DEF BrowserTypes
  <1>3. Staged'
    BY <1>0, <1>1 DEF Staged
  <1>4. CASE caller'.at # "idle" /\ UNCHANGED outcome
    <2>1. Reported'
      <3>1. caller'.at # "idle" => caller.at # "idle"
        OBVIOUS
      <3> QED
        BY <1>0, <1>4, <3>1, ReportedStays
    <2>2. ASSUME caller'.at = "write" PROVE Working'
      <3>1. /\ session'.is /\ caller'.action = caller.action /\ caller'.first = caller.first /\ caller'.done = caller.done
            /\ caller'.todo \in Todos(caller.action) /\ Behind(caller.action, caller'.todo, caller.first)
        BY <1>1, <2>2
      <3>2. PICK t : t = caller'.todo
        OBVIOUS
      <3>3. PICK f \in Nat \ {0} : f = caller.first
        BY <1>0
      <3>4. PICK a : a = caller.action
        OBVIOUS
      <3>5. Behind(a, t, f)'
        BY <1>0, <3>1, <3>2, <3>3, <3>4, BehindStays DEF BrowserTypes
      <3>6. caller.done => Did(f, "state", "complete")'
        BY <1>0, <3>3, DidStays DEF BrowserTypes, Working
      <3>7. caller'.first <= Len(requested') + 1
        BY <1>0, <3>1 DEF Working, AnswersGrow
      <3>8. Behind(caller.action, caller.todo, caller.first)' /\ (caller.done => Did(caller.first, "state", "complete"))'
        BY <3>1, <3>2, <3>3, <3>4, <3>5, <3>6 DEF Behind, Did
      <3> QED
        BY <2>2, <3>1, <3>7, <3>8 DEF Working
    <2>3. caller'.at # "write" => Working'
      BY <1>1, <1>4 DEF Working
    <2> QED
      BY <1>2, <1>3, <2>1, <2>2, <2>3 DEF BrowserInv
  <1>5. CASE caller'.at = "idle" /\ outcome'.kind = "error"
    <2>1. Working' /\ Reported'
      BY <1>5 DEF Working, Reported
    <2> QED
      BY <1>2, <1>3, <2>1 DEF BrowserInv
  <1> QED
    BY <1>1, <1>4, <1>5

\* A request is written.
LEMMA SendSafe ==
  ASSUME BrowserInv, SendRequest
  PROVE  BrowserInv'
  <1>0. /\ BrowserTypes /\ Heard /\ Working /\ Staged /\ Reported /\ caller.at = "write" /\ UNCHANGED <<listener, straggler>>
        /\ caller \in Caller /\ client \in Client /\ wires \in Wires /\ requested \in Seq(Asked)
        /\ Len(requested) \in Nat
    BY DEF BrowserInv, BrowserTypes, SendRequest
  <1>a. /\ caller.todo \in Seq(Methods) /\ Head(caller.todo) \in Methods /\ caller.first \in Nat \ {0} /\ caller.action \in Acts
        /\ wires.requests \in Seq(Nat) /\ wires.replies \in Seq(Message) /\ client.pending \in Seq(Message)
    BY <1>0, Handshake, TodoNext DEF Caller, Working, Methods, Wires, Client
  <1>1. CASE client.dead
    <2>1. Failed(TRUE) /\ UNCHANGED <<client, wires, requested>>
      BY <1>1 DEF SendRequest
    <2>2. Heard' /\ requested' \in Seq(Asked) /\ AnswersGrow
      BY <1>0, <2>1, SameRequests, SameHeard
    <2> QED
      BY <1>0, <2>1, <2>2, FailedSafe
  <1>2. CASE ~client.dead
    <2> DEFINE new == [method |-> Head(caller.todo), says |-> "nothing"]
    <2>0. new \in Asked /\ new.method = Head(caller.todo) /\ new.says = "nothing"
      BY <1>a DEF Asked
    <2>1. requested' = Append(requested, new)
      BY <1>2 DEF SendRequest
    <2> HIDE DEF new
    <2>2. /\ requested' \in Seq(Asked) /\ Len(requested') = Len(requested) + 1
          /\ \A i \in 1 .. Len(requested) : requested'[i] = requested[i]
          /\ requested'[Len(requested) + 1] = new
      BY <1>0, <2>0, <2>1
    <2>3. AnswersGrow
      BY <1>0, <2>2 DEF AnswersGrow
    <2>4. ASSUME wires' \in Wires, client' \in Client, wires'.replies = wires.replies, client'.pending = client.pending PROVE RepliesTrue'
      <3>1. \A n \in 1 .. Len(wires'.replies) : wires'.replies[n] \in Message /\ Truthful(wires'.replies[n])
        <4>1. \A n \in 1 .. Len(wires.replies) : wires.replies[n] \in Message /\ Truthful(wires.replies[n])
          BY <1>0, <1>a DEF Heard, RepliesTrue
        <4> QED
          BY <2>4, <4>1
      <3>2. \A n \in 1 .. Len(client'.pending) : client'.pending[n] \in Message /\ Truthful(client'.pending[n])
        <4>1. \A n \in 1 .. Len(client.pending) : client.pending[n] \in Message /\ Truthful(client.pending[n])
          BY <1>0, <1>a DEF Heard, RepliesTrue
        <4> QED
          BY <2>4, <4>1
      <3>3. RepliesTrue
        BY <1>0 DEF Heard
      <3> QED
        BY <1>0, <2>2, <2>3, <2>4, <3>1, <3>2, <3>3, ToldStays
    <2>5. Fitting'
      <3>1. ASSUME NEW i \in 1 .. Len(requested') PROVE i \in 1 .. Len(requested) \/ i = Len(requested) + 1
        BY <1>0, <2>2
      <3> QED
        BY <1>0, <2>0, <2>2, <3>1 DEF Heard, Fitting
    <2>6. ASSUME NEW n \in 1 .. Len(wires.requests) PROVE wires.requests[n] \in 1 .. Len(requested) /\ requested'[wires.requests[n]].says = "nothing"
      BY <1>0, <2>2 DEF Heard, Waiting, Waits
    <2>7. CASE HungUp
      <3>1. client' = [client EXCEPT !.dead = TRUE] /\ Failed(TRUE) /\ UNCHANGED wires
        BY <1>2, <2>7 DEF SendRequest
      <3>2. client' \in Client /\ client'.is = client.is /\ client'.pending = client.pending
        BY <1>0, <3>1 DEF Client
      <3>3. RepliesTrue'
        BY <1>0, <2>4, <3>1, <3>2
      <3>4. Waiting'
        BY <1>0, <2>2, <2>6, <3>1 DEF Heard, Waiting, Waits
      <3> QED
        BY <1>0, <2>2, <2>3, <2>5, <3>1, <3>2, <3>3, <3>4, FailedSafe DEF Heard
    <2>8. CASE ~HungUp
      <3> DEFINE id == Len(requested) + 1
      <3>1. /\ wires' = [wires EXCEPT !.requests = Append(wires.requests, id)]
            /\ caller' = [caller EXCEPT !.at = "wait", !.id = id]
            /\ UNCHANGED <<session, client, leader, outcome>>
        BY <1>2, <2>8 DEF SendRequest
      <3>2. id \in Nat /\ id \in 1 .. Len(requested') /\ id \notin 1 .. Len(requested) /\ requested'[id].says = "nothing" /\ requested'[id].method = Head(caller.todo)
        BY <1>0, <2>0, <2>2
      <3> HIDE DEF id
      <3>3. /\ wires' \in Wires /\ wires'.replies = wires.replies /\ wires'.requests = Append(wires.requests, id)
        <4>1. Append(wires.requests, id) \in Seq(Nat)
          BY <1>a, <3>2
        <4> QED
          BY <1>0, <3>1, <4>1 DEF Wires
      <3>4. /\ Len(wires'.requests) = Len(wires.requests) + 1 /\ Len(wires.requests) \in Nat
            /\ \A n \in 1 .. Len(wires.requests) : wires'.requests[n] = wires.requests[n]
            /\ wires'.requests[Len(wires.requests) + 1] = id
        BY <1>a, <3>2, <3>3
      <3>5. Waiting'
        <4>1. ASSUME NEW n \in 1 .. Len(wires'.requests) PROVE n \in 1 .. Len(wires.requests) \/ n = Len(wires.requests) + 1
          BY <3>4
        <4>3. ASSUME NEW n \in 1 .. Len(wires'.requests)
              PROVE  wires'.requests[n] \in 1 .. Len(requested') /\ requested'[wires'.requests[n]].says = "nothing"
          <5>1. CASE n \in 1 .. Len(wires.requests)
            <6>1. wires'.requests[n] = wires.requests[n] /\ wires.requests[n] \in 1 .. Len(requested) /\ requested'[wires.requests[n]].says = "nothing"
              BY <2>6, <3>4, <5>1
            <6>2. wires.requests[n] \in 1 .. Len(requested')
              BY <1>0, <2>2, <6>1
            <6> QED
              BY <6>1, <6>2
          <5>2. CASE n = Len(wires.requests) + 1
            <6>1. wires'.requests[n] = id
              BY <3>4, <5>2
            <6> QED
              BY <3>2, <6>1
          <5> QED
            BY <4>1, <5>1, <5>2
        <4>4. \A m, n \in 1 .. Len(wires'.requests) : wires'.requests[m] = wires'.requests[n] => m = n
          <5>1. ASSUME NEW n \in 1 .. Len(wires'.requests)
                PROVE  \/ n \in 1 .. Len(wires.requests) /\ wires'.requests[n] = wires.requests[n] /\ wires'.requests[n] # id
                       \/ n = Len(wires.requests) + 1 /\ wires'.requests[n] = id
            BY <2>6, <3>2, <3>4, <4>1
          <5>2. \A m, n \in 1 .. Len(wires.requests) : wires.requests[m] = wires.requests[n] => m = n
            BY <1>0 DEF Heard, Waiting
          <5> QED
            BY <5>1, <5>2
        <4> QED
          BY <4>3, <4>4 DEF Waiting, Waits
      <3>6. Heard'
        BY <1>0, <2>4, <2>5, <3>1, <3>3, <3>5 DEF Heard
      <3>7. /\ caller' \in Caller /\ caller'.at = "wait" /\ caller'.id = id /\ caller'.todo = caller.todo /\ caller'.action = caller.action
            /\ caller'.first = caller.first /\ caller'.done = caller.done
        BY <1>0, <3>1, <3>2 DEF Caller, Stops
      <3>8. BrowserTypes'
        BY <1>0, <2>2, <3>1, <3>3, <3>7 DEF BrowserTypes
      <3>9. Staged'
        BY <1>0, <3>1, <3>7 DEF Staged
      <3>10. Reported'
        BY <1>0, <2>2, <2>3, <3>1, <3>7, ReportedStays
      <3>11. Working'
        <4>1. PICK f \in Nat \ {0} : f = caller.first
          BY <1>a
        <4>2. PICK t : t = caller.todo
          OBVIOUS
        <4>3. PICK a : a = caller.action
          OBVIOUS
        <4>4. /\ caller.todo = <<"version">> \/ (session.is /\ caller.todo \in Todos(caller.action))
              /\ Behind(a, t, f) /\ (caller.done => Did(f, "state", "complete")) /\ caller.first <= Len(requested) + 1
          BY <1>0, <4>1, <4>2, <4>3 DEF Working
        <4>5. Behind(a, t, f)' /\ (caller.done => Did(f, "state", "complete")')
          BY <1>0, <2>2, <2>3, <4>4, BehindStays, DidStays
        <4>6. Behind(caller.action, caller.todo, caller.first)' /\ (caller'.done => Did(caller.first, "state", "complete")')
          BY <3>7, <4>1, <4>2, <4>3, <4>5 DEF Behind, Did
        <4>7. caller'.first <= Len(requested') + 1 /\ id \in caller'.first .. Len(requested')
          BY <1>0, <1>a, <2>2, <3>7, <4>4 DEF id
        <4> QED
          BY <3>1, <3>2, <3>7, <4>4, <4>6, <4>7 DEF Working
      <3> QED
        BY <3>6, <3>8, <3>9, <3>10, <3>11 DEF BrowserInv
    <2> QED
      BY <2>7, <2>8
  <1> QED
    BY <1>1, <1>2

\* An answer that is the caller's own.
LEMMA AnsweredSafe ==
  ASSUME BrowserInv, caller.at = "wait", NEW reply \in Message, Truthful(reply), reply.id = caller.id, WasAnswered(reply),
         UNCHANGED <<listener, wires, straggler, requested>>, client' \in Client, client'.is = client.is, Heard'
  PROVE  BrowserInv'
  <1>0. /\ BrowserTypes /\ Heard /\ Working /\ Staged /\ Reported /\ client.is
        /\ caller \in Caller /\ outcome \in Outcome /\ requested \in Seq(Asked) /\ session \in [is : BOOLEAN, page : BOOLEAN]
        /\ wires \in Wires
    BY DEF BrowserInv, BrowserTypes, Staged
  <1> DEFINE a == caller.action
             t == caller.todo
             f == caller.first
  <1>1. /\ a \in Acts /\ t \in Seq(Methods) /\ f \in Nat \ {0} /\ caller.done \in BOOLEAN
        /\ caller.id \in f .. Len(requested) /\ requested[caller.id].method = Head(t)
        /\ Behind(a, t, f) /\ (caller.done => Did(f, "state", "complete")) /\ f <= Len(requested) + 1
        /\ t = <<"version">> \/ (session.is /\ t \in Todos(a))
        /\ Len(requested) \in Nat
    BY <1>0 DEF Caller, Working
  <1>2. reply.method = Head(t) /\ Did(f, Head(t), reply.says) /\ reply.says \in Sayings
    BY <1>1 DEF Truthful, Did, Message
  <1>3. requested' \in Seq(Asked) /\ AnswersGrow
    BY <1>0, SameRequests
  <1>4. CASE reply.says = "error" \/ (reply.method = "state" /\ reply.says = "loading")
    <2>1. Failed(client.dead)
      BY <1>4 DEF WasAnswered
    <2> QED
      BY <1>0, <1>3, <2>1, FailedSafe
  <1>5. CASE ~(reply.says = "error" \/ (reply.method = "state" /\ reply.says = "loading"))
    <2>1. reply.says = IF Head(t) = "state" THEN "complete" ELSE "ok"
      <3>1. requested[caller.id].says = reply.says /\ caller.id \in 1 .. Len(requested)
        BY <1>1 DEF Truthful
      <3>2. requested[caller.id].says \in {"nothing", "error"} \cup (IF requested[caller.id].method = "state" THEN {"complete", "loading"} ELSE {"ok"})
        BY <1>0, <3>1 DEF Heard, Fitting
      <3> QED
        BY <1>1, <1>2, <1>5, <3>1, <3>2 DEF Sayings
    <2>2. Did(f, Head(t), IF Head(t) = "state" THEN "complete" ELSE "ok")
      BY <1>2, <2>1
    <2>3. /\ session' = [session EXCEPT !.page = @ \/ reply.method = "attach", !.is = @ \/ reply.method = "version"]
          /\ \/ /\ Tail(t) # <<>> /\ UNCHANGED outcome
                /\ caller' = [caller EXCEPT !.at = "write", !.todo = Tail(t), !.done = @ \/ reply.method = "state"]
             \/ /\ Tail(t) = <<>>
                /\ \/ Concludes(IF reply.method = "version" THEN "opened"
                                ELSE IF caller.action = "navigate" /\ ~caller.done THEN "still loading" ELSE "done")
                   \/ reply.method = "capture" /\ Concludes("error")
          /\ UNCHANGED leader
      BY <1>5 DEF WasAnswered
    <2>4. /\ session' \in [is : BOOLEAN, page : BOOLEAN]
          /\ session.is => session'.is
          /\ reply.method = "version" => session'.is
      <3>1. (session.is \/ reply.method = "version") \in BOOLEAN /\ (session.page \/ reply.method = "attach") \in BOOLEAN
        BY <1>0
      <3> QED
        BY <1>0, <2>3, <3>1
    <2>5. session'.is
      BY <1>1, <1>2, <2>4, Handshake
    <2>6. CASE Tail(t) # <<>>
      <3>1. session.is /\ t \in Todos(a)
        BY <1>1, <2>6, Handshake
      <3>2. Tail(t) \in Todos(a) /\ Tail(t) \in Seq(Methods)
        <4>1. Tail(t) \in Todos(a)
          BY <1>1, <2>6, <3>1, TodoNext
        <4> QED
          BY <1>1, <4>1, TodoNext
      <3>3. Behind(a, Tail(t), f)
        BY <1>1, <2>2, <2>6, <3>1, TodoDone
      <3>4. caller' = [caller EXCEPT !.at = "write", !.todo = Tail(t), !.done = caller.done \/ reply.method = "state"] /\ UNCHANGED outcome
        BY <2>3, <2>6
      <3>5. (caller.done \/ reply.method = "state") \in BOOLEAN /\ "write" \in Stops
        BY <1>1 DEF Stops
      <3>6. caller' \in Caller
        BY <1>0, <3>2, <3>4, <3>5 DEF Caller
      <3>7. /\ caller'.at = "write" /\ caller'.todo = Tail(t) /\ caller'.action = a /\ caller'.first = f
            /\ caller'.done = (caller.done \/ reply.method = "state")
        BY <1>0, <3>4 DEF Caller
      <3>8. caller'.done => Did(f, "state", "complete")
        BY <1>1, <1>2, <2>2, <3>7
      <3> HIDE DEF a, t, f
      <3>9. Working'
        <4>1. PICK g : g = f
          OBVIOUS
        <4>2. PICK u : u = Tail(t)
          OBVIOUS
        <4>3. PICK b : b = a
          OBVIOUS
        <4>4. Behind(b, u, g) /\ (caller'.done => Did(g, "state", "complete"))
          BY <3>3, <3>8, <4>1, <4>2, <4>3
        <4>5. Behind(b, u, g)' /\ (caller'.done => Did(g, "state", "complete")')
          BY <4>4 DEF Behind, Did
        <4>6. Behind(caller.action, caller.todo, caller.first)' /\ (caller'.done => Did(caller.first, "state", "complete")')
          BY <3>7, <4>1, <4>2, <4>3, <4>5 DEF Behind, Did
        <4> QED
          BY <1>1, <2>5, <3>2, <3>7, <4>6 DEF Working
      <3>10. BrowserTypes'
        BY <1>0, <1>3, <2>3, <2>4, <3>4, <3>6 DEF BrowserTypes
      <3>11. Staged'
        BY <1>0, <2>3, <2>5, <3>7 DEF Staged
      <3>12. Reported'
        BY <1>0, <1>3, <3>4, <3>7, ReportedStays
      <3> QED
        BY <3>9, <3>10, <3>11, <3>12 DEF BrowserInv
    <2>7. CASE Tail(t) = <<>>
      <3>1. PICK kind \in {"opened", "still loading", "done", "error"} :
              /\ Concludes(kind)
              /\ kind = "opened" => reply.method = "version"
              /\ kind = "done" => reply.method # "version" /\ (a = "navigate" => caller.done)
        BY <1>1, <2>3, <2>7
      <3>2. outcome' = [action |-> a, kind |-> kind, first |-> f] /\ caller' = Idle
        BY <3>1 DEF Concludes
      <3>3. caller' \in Caller /\ caller'.at = "idle"
        BY <3>2, IdleIs
      <3>4. outcome' \in Outcome /\ outcome'.action = a /\ outcome'.kind = kind /\ outcome'.first = f
        BY <1>1, <3>2 DEF Outcome, Kinds
      <3>5. kind = "opened" => Did(f, "version", "ok")
        BY <1>2, <2>2, <3>1
      <3>6. kind = "done" =>
              /\ a = "navigate" => Did(f, "navigate", "ok") /\ Did(f, "state", "complete") /\ Did(f, "extract", "ok")
              /\ a = "evaluate" => Did(f, "evaluate", "ok")
              /\ a = "screenshot" => Did(f, "capture", "ok")
              /\ a = "click" => Did(f, "press", "ok") /\ Did(f, "release", "ok")
        <4>1. kind = "done" => t \in Todos(a)
          BY <1>1, <1>2, <3>1, Handshake
        <4> QED
          BY <1>1, <2>2, <2>7, <3>1, <4>1, TodoDone
      <3> HIDE DEF a, t, f
      <3>7. Reported'
        <4>1. PICK g : g = f
          OBVIOUS
        <4>2. ASSUME NEW m, NEW s, Did(f, m, s) PROVE Did(outcome.first, m, s)'
          BY <3>4, <4>2 DEF Did
        <4> QED
          BY <3>3, <3>4, <3>5, <3>6, <4>2 DEF Reported
      <3>8. BrowserTypes'
        BY <1>0, <1>3, <2>3, <2>4, <3>3, <3>4 DEF BrowserTypes
      <3>9. Staged' /\ Working'
        BY <1>0, <2>3, <2>5, <3>3 DEF Staged, Working
      <3> QED
        BY <3>7, <3>8, <3>9 DEF BrowserInv
    <2> QED
      BY <2>6, <2>7
  <1> QED
    BY <1>4, <1>5

\* A reply is taken, or none comes in time.
LEMMA WaitSafe ==
  ASSUME BrowserInv, TakeReply \/ NoReply
  PROVE  BrowserInv'
  <1>0. /\ BrowserTypes /\ Heard /\ RepliesTrue /\ caller.at = "wait" /\ UNCHANGED <<listener, wires, straggler, requested>>
        /\ client \in Client /\ wires \in Wires /\ client.pending \in Seq(Message)
    BY DEF BrowserInv, BrowserTypes, TakeReply, NoReply, Heard, Client
  <1>1. requested' \in Seq(Asked) /\ AnswersGrow
    BY <1>0, SameRequests
  <1>2. CASE NoReply
    <2>1. UNCHANGED client /\ Failed(client.dead)
      BY <1>2 DEF NoReply
    <2>2. Heard'
      BY <1>0, <2>1, SameHeard
    <2> QED
      BY <1>0, <1>1, <2>1, <2>2, FailedSafe
  <1>3. CASE TakeReply
    <2> DEFINE T == {i \in 1 .. Len(client.pending) : Mine(client.pending[i])}
               n == SelectInSeq(client.pending, Mine)
    <2>1. /\ n # 0 /\ client' = [client EXCEPT !.pending = RemoveAt(client.pending, n)] /\ WasAnswered(client.pending[n])
      BY <1>3 DEF TakeReply
    <2>2. n = (IF T # {} THEN Min(T) ELSE 0)
      BY DEF SelectInSeq
    <2>3. T # {} /\ n = Min(T)
      BY <2>1, <2>2
    <2>4. n \in 1 .. Len(client.pending) /\ Mine(client.pending[n])
      <3>1. T \in SUBSET Nat
        OBVIOUS
      <3>2. Min(T) \in T
        BY <2>3, <3>1, MinIsLeast
      <3> QED
        BY <2>3, <3>2
    <2> HIDE DEF T, n
    <2> DEFINE reply == client.pending[n]
               less == RemoveAt(client.pending, n)
    <2>5. reply \in Message /\ Truthful(reply) /\ reply.id = caller.id
      BY <1>0, <2>4 DEF RepliesTrue, Mine
    <2>6. /\ less \in Seq(Message) /\ Len(less) = Len(client.pending) - 1 /\ Len(client.pending) \in Nat
          /\ \A k \in 1 .. Len(client.pending) - 1 : less[k] = IF k < n THEN client.pending[k] ELSE client.pending[k + 1]
      <3>1. PICK s \in Seq(Message) : s = client.pending
        BY <1>0
      <3>2. PICK j \in 1 .. Len(s) : j = n
        BY <2>4, <3>1
      <3>3. /\ RemoveAt(s, j) \in Seq(Message) /\ Len(RemoveAt(s, j)) = Len(s) - 1
            /\ \A k \in 1 .. Len(s) - 1 : RemoveAt(s, j)[k] = IF k < j THEN s[k] ELSE s[k + 1]
        BY RemoveAtIs
      <3>4. less = RemoveAt(s, j)
        BY <3>1, <3>2
      <3> HIDE DEF less
      <3>5. /\ less \in Seq(Message) /\ Len(less) = Len(s) - 1
            /\ \A k \in 1 .. Len(s) - 1 : less[k] = IF k < j THEN s[k] ELSE s[k + 1]
        BY <3>3, <3>4
      <3>6. Len(s) \in Nat
        OBVIOUS
      <3> QED
        BY <3>1, <3>2, <3>5, <3>6
    <2> HIDE DEF less
    <2>7. client' = [client EXCEPT !.pending = less]
      BY <2>1 DEF less
    <2>8. client' \in Client /\ client'.is = client.is /\ client'.pending = less
      BY <1>0, <2>6, <2>7 DEF Client
    <2>9. RepliesTrue'
      <3>1. ASSUME NEW k \in 1 .. Len(less) PROVE \E j \in 1 .. Len(client.pending) : less[k] = client.pending[j]
        <4>1. k \in 1 .. Len(client.pending) /\ k + 1 \in 1 .. Len(client.pending)
          BY <2>6
        <4> QED
          BY <2>6, <4>1
      <3>2. \A k \in 1 .. Len(less) : Truthful(less[k])
        BY <1>0, <3>1 DEF RepliesTrue
      <3> QED
        BY <1>0, <2>8, <3>2 DEF RepliesTrue, Truthful
    <2>10. Heard'
      BY <1>0, <2>9 DEF Heard, Waiting, Waits, Fitting
    <2> QED
      BY <1>0, <2>1, <2>5, <2>8, <2>10, AnsweredSafe
  <1> QED
    BY <1>2, <1>3

\* An action is asked for.
LEMMA AskSafeBrowser ==
  ASSUME BrowserInv, NEW a \in Actions, AskTool(a)
  PROVE  BrowserInv'
  <1>a. a \in Acts \ {"none"}
    BY BrowserAssumption DEF Acts
  <1>b. BrowserTypes /\ Heard /\ Staged /\ Reported
    BY DEF BrowserInv
  <1>c. caller.at = "idle" /\ UNCHANGED <<session, client, listener, wires, leader, straggler, requested>>
    BY DEF AskTool
  <1>0. /\ BrowserTypes /\ Heard /\ Staged /\ Reported /\ caller.at = "idle"
        /\ UNCHANGED <<session, client, listener, wires, leader, straggler, requested>>
        /\ outcome \in Outcome /\ caller \in Caller /\ Len(requested) \in Nat /\ a \in Acts
        /\ session \in [is : BOOLEAN, page : BOOLEAN]
    BY <1>a, <1>b, <1>c DEF BrowserTypes
  <1>1. requested' \in Seq(Asked) /\ AnswersGrow /\ Heard'
    BY <1>0, SameRequests, SameHeard
  <1> DEFINE first == Len(requested) + 1
  <1>2. first \in Nat \ {0}
    BY <1>0
  <1> DEFINE Goes(at, todo) == /\ caller' = [Idle EXCEPT !.at = at, !.action = a, !.todo = todo, !.first = first]
                             /\ outcome' = [outcome EXCEPT !.kind = "none"]
             Tells(kind) == outcome' = [action |-> a, kind |-> kind, first |-> first] /\ UNCHANGED caller
  <1>3. \/ Tells("running") \/ Tells("not running") \/ Tells("already open")
        \/ Goes("term", <<>>) \/ (~session.is /\ Goes("spawn", <<>>))
        \/ (a \notin {"status", "close", "open"} /\ session.is /\ Goes("write", Requests(a)))
    <2>1. \/ a = "status" /\ Tells(IF session.is /\ ~client.dead THEN "running" ELSE "not running")
          \/ a = "close" /\ IF session.is THEN Goes("term", <<>>) ELSE Tells("not running")
          \/ a = "open" /\ session.is /\ Tells("already open")
          \/ a \notin {"status", "close"} /\ ~session.is /\ Goes("spawn", <<>>)
          \/ a \notin {"status", "close", "open"} /\ session.is /\ Goes("write", Requests(a))
      BY DEF AskTool
    <2> HIDE DEF Goes, Tells
    <2> QED
      BY <2>1
  <1>f. first = Len(requested) + 1
    OBVIOUS
  <1> HIDE DEF first
  <1>4. ASSUME NEW kind \in {"running", "not running", "already open"}, Tells(kind)
        PROVE  BrowserInv'
    <2>1. outcome' \in Outcome /\ outcome'.kind = kind
      BY <1>0, <1>2, <1>4 DEF Outcome, Kinds
    <2>2. BrowserTypes'
      BY <1>0, <1>4, <2>1 DEF BrowserTypes
    <2>3. Working' /\ Reported'
      BY <1>0, <1>4, <2>1 DEF Working, Reported
    <2>4. Staged'
      BY <1>0, <1>4 DEF Staged, Gone
    <2> QED
      BY <1>1, <2>2, <2>3, <2>4 DEF BrowserInv
  <1>5. ASSUME NEW at \in {"term", "spawn", "write"}, NEW todo, Goes(at, todo),
               at # "write" => todo = <<>>, at = "spawn" => ~session.is,
               at = "write" => session.is /\ a \notin {"status", "close", "open"} /\ todo = Requests(a)
        PROVE  BrowserInv'
    <2>1. at = "write" => todo \in Todos(a) /\ \A f : Behind(a, todo, f)
      <3>1. at = "write" => a \in {"navigate", "evaluate", "screenshot", "click"}
        BY <1>a, <1>5 DEF Acts
      <3>2. ASSUME NEW b \in {"navigate", "evaluate", "screenshot", "click"}
            PROVE  Requests(b) \in Todos(b) /\ \A f : Behind(b, Requests(b), f)
        BY <3>2, TodoFirst
      <3> QED
        BY <1>5, <3>1, <3>2
    <2>2. todo \in Seq(Methods)
      <3>1. <<>> \in Seq(Methods)
        OBVIOUS
      <3> QED
        BY <1>0, <1>5, <2>1, <3>1, TodoNext
    <2>3. caller' \in Caller
      BY <1>0, <1>2, <1>5, <2>2, IdleIs DEF Caller, Stops
    <2>4. /\ caller'.at = at /\ caller'.action = a /\ caller'.todo = todo /\ caller'.first = first
      BY <1>5, IdleIs DEF Caller
    <2>5. caller'.done = FALSE
      BY <1>5 DEF Idle
    <2>6. outcome' \in Outcome /\ outcome'.kind = "none"
      BY <1>0, <1>5 DEF Outcome, Kinds
    <2>7. BrowserTypes'
      BY <1>0, <2>3, <2>6 DEF BrowserTypes
    <2>8. Working'
      <3>1. at = "write" => Behind(caller.action, caller.todo, caller.first)'
        BY <1>0, <2>1, <2>4 DEF Behind, Did
      <3>2. caller'.first <= Len(requested') + 1
        BY <1>0, <1>2, <1>f, <2>4
      <3> QED
        BY <1>0, <1>5, <2>1, <2>4, <2>5, <3>1, <3>2 DEF Working
    <2>9. Staged'
      <3>1. at = "write" => client.is
        BY <1>0, <1>5 DEF Staged
      <3>2. at = "spawn" => Gone
        BY <1>0, <1>5 DEF Staged
      <3>3. at = "spawn" => Gone'
        BY <1>0, <3>2 DEF Gone
      <3>4. client'.is \/ (client' = NoClient /\ listener' = "none")
        BY <1>0 DEF Staged
      <3> QED
        BY <1>0, <1>5, <2>4, <2>5, <3>1, <3>3, <3>4 DEF Staged
    <2>10. Reported'
      BY <2>6 DEF Reported
    <2> QED
      BY <1>1, <2>7, <2>8, <2>9, <2>10 DEF BrowserInv
  <1>6. ASSUME Goes("term", <<>>) PROVE BrowserInv'
    BY <1>5, <1>6
  <1>7. ASSUME ~session.is, Goes("spawn", <<>>) PROVE BrowserInv'
    BY <1>5, <1>7
  <1>8. ASSUME a \notin {"status", "close", "open"}, session.is, Goes("write", Requests(a)) PROVE BrowserInv'
    BY <1>5, <1>8
  <1>9. (Tells("running") \/ Tells("not running") \/ Tells("already open")) => BrowserInv'
    BY <1>4
  <1> QED
    BY <1>3, <1>6, <1>7, <1>8, <1>9

\* An action ends that reports nothing done.
LEMMA ConcludesIs ==
  ASSUME BrowserTypes, NEW kind \in Kinds, Concludes(kind)
  PROVE  /\ caller' \in Caller /\ caller'.at = "idle" /\ outcome' \in Outcome /\ outcome'.kind = kind
         /\ outcome'.action = caller.action
  <1>1. caller.action \in Acts /\ caller.first \in Nat \ {0}
    BY DEF BrowserTypes, Caller
  <1> QED
    BY <1>1, IdleIs DEF Concludes, Outcome

\* The browser is started.
LEMMA SpawnSafe ==
  ASSUME BrowserInv, SpawnBrowser
  PROVE  BrowserInv'
  <1>0. /\ BrowserTypes /\ Heard /\ Staged /\ Reported /\ caller.at = "spawn" /\ Gone /\ ~session.is
        /\ UNCHANGED <<session, client, listener, requested>>
        /\ caller \in Caller /\ outcome \in Outcome
    BY DEF BrowserInv, BrowserTypes, SpawnBrowser, Staged
  <1>1. CASE Concludes("error") /\ UNCHANGED <<leader, straggler, wires>>
    <2>1. caller' \in Caller /\ caller'.at = "idle" /\ outcome' \in Outcome /\ outcome'.kind = "error"
      BY <1>0, <1>1, ConcludesIs DEF Kinds
    <2>2. BrowserTypes' /\ Heard'
      BY <1>0, <1>1, <2>1, SameHeard DEF BrowserTypes
    <2>3. Working' /\ Reported' /\ Staged'
      BY <1>0, <1>1, <2>1 DEF Working, Reported, Staged, Gone
    <2> QED
      BY <2>2, <2>3 DEF BrowserInv
  <1>2. CASE caller' = [caller EXCEPT !.at = "remove"] /\ UNCHANGED <<leader, straggler, wires, outcome>>
    <2>1. caller' \in Caller /\ caller'.at = "remove"
      BY <1>0, <1>2 DEF Caller, Stops
    <2>2. BrowserTypes' /\ Heard'
      BY <1>0, <1>2, <2>1, SameHeard DEF BrowserTypes
    <2>3. Working' /\ Staged'
      BY <1>0, <1>2, <2>1 DEF Working, Staged, Gone
    <2>4. Reported'
      BY <1>0, <1>2 DEF Reported
    <2> QED
      BY <2>2, <2>3, <2>4 DEF BrowserInv
  <1>3. CASE /\ caller' = [caller EXCEPT !.at = "client"] /\ leader' = [is |-> "forked", told |-> FALSE] /\ straggler' = NoStraggler
             /\ wires' = [NoWires EXCEPT !.ours = TRUE] /\ UNCHANGED outcome
    <2>1. caller' \in Caller /\ caller'.at = "client" /\ caller'.done = caller.done
      BY <1>0, <1>3 DEF Caller, Stops
    <2>2. leader' \in Leader /\ straggler' \in Straggler
      BY <1>3 DEF Leader, Straggler, NoStraggler
    <2>3. wires' \in Wires /\ wires'.requests = <<>> /\ wires'.replies = <<>>
      <3>1. <<>> \in Seq(Nat) /\ <<>> \in Seq(Message)
        OBVIOUS
      <3> QED
        BY <1>3, <3>1 DEF NoWires, Wires
    <2>4. client'.pending = <<>>
      BY <1>0 DEF Gone, NoClient
    <2>5. BrowserTypes' /\ Heard'
      BY <1>0, <1>3, <2>1, <2>2, <2>3, <2>4, NoneHeard DEF BrowserTypes
    <2>6. Working' /\ Staged'
      <3>1. ~caller.done
        BY <1>0 DEF Staged
      <3>2. client' = NoClient /\ listener' = "none"
        BY <1>0 DEF Gone
      <3> QED
        BY <1>0, <2>1, <2>3, <3>1, <3>2 DEF Working, Staged
    <2>7. Reported'
      BY <1>0, <1>3 DEF Reported
    <2> QED
      BY <2>5, <2>6, <2>7 DEF BrowserInv
  <1> QED
    BY <1>1, <1>2, <1>3 DEF SpawnBrowser

\* The reader starts, or the child is buried (browser.c).
LEMMA ClientSafe ==
  ASSUME BrowserInv, StartClient
  PROVE  BrowserInv'
  <1>0. /\ BrowserTypes /\ Heard /\ Staged /\ Reported /\ caller.at = "client" /\ requested' = <<>>
        /\ client = NoClient /\ wires.requests = <<>> /\ wires.replies = <<>> /\ ~session.is
        /\ UNCHANGED <<session, wires, leader, straggler, outcome>>
        /\ caller \in Caller /\ outcome \in Outcome
        /\ <<>> \in Seq(Asked) /\ <<>> \in Seq(Message) /\ Len(<<>>) = 0
    BY DEF BrowserInv, BrowserTypes, StartClient, Staged
  <1>1. Reported'
    BY <1>0 DEF Reported
  <1>2. CASE /\ client' = [NoClient EXCEPT !.is = TRUE] /\ listener' = "polls"
             /\ caller' = [caller EXCEPT !.at = "write", !.todo = <<"version">>, !.first = 1]
    <2>1. client' \in Client /\ client'.is /\ client'.pending = <<>>
      BY <1>0, <1>2 DEF NoClient, Client
    <2>2. caller' \in Caller /\ caller'.at = "write" /\ caller'.todo = <<"version">> /\ caller'.first = 1 /\ caller'.done = caller.done /\ caller'.action = caller.action
      <3>1. 1 \in Nat \ {0} /\ "write" \in Stops
        BY DEF Stops
      <3> QED
        BY <1>0, <1>2, <3>1, Handshake DEF Caller
    <2>3. BrowserTypes' /\ Heard'
      BY <1>0, <1>2, <2>1, <2>2, NoneHeard DEF BrowserTypes
    <2>4. Staged'
      BY <1>0, <2>1, <2>2 DEF Staged
    <2>5. Behind(caller.action, caller.todo, caller.first)'
      <3>1. <<"version">> # <<"release">> /\ <<"version">> \notin {<<"state", "extract">>, <<"extract">>}
        OBVIOUS
      <3> QED
        BY <2>2, <3>1 DEF Behind
    <2>6. Working'
      <3>1. ~caller'.done
        BY <1>0, <2>2 DEF Staged
      <3>2. caller'.first <= Len(requested') + 1
        BY <1>0, <2>2
      <3> QED
        BY <2>2, <2>5, <3>1, <3>2 DEF Working
    <2> QED
      BY <1>1, <2>3, <2>4, <2>6 DEF BrowserInv
  <1>3. CASE caller' = [caller EXCEPT !.at = "term"] /\ UNCHANGED <<client, listener>>
    <2>1. caller' \in Caller /\ caller'.at = "term"
      BY <1>0, <1>3 DEF Caller, Stops
    <2>2. client'.pending = <<>>
      BY <1>0, <1>3 DEF NoClient
    <2>3. BrowserTypes' /\ Heard'
      BY <1>0, <1>3, <2>1, <2>2, NoneHeard DEF BrowserTypes
    <2>4. Working' /\ Staged'
      BY <1>0, <1>3, <2>1 DEF Working, Staged
    <2> QED
      BY <1>1, <2>3, <2>4 DEF BrowserInv
  <1> QED
    BY <1>2, <1>3 DEF StartClient

\* ---- closing ----
\* The caller alone moves on, to a stage whose part of Staged holds.
LEMMA MovesOn ==
  ASSUME BrowserInv, caller.at \notin {"idle", "write", "wait"}, UNCHANGED <<requested, outcome, session>>,
         caller' \in Caller, caller'.at \notin {"idle", "write", "wait"},
         client' \in Client, listener' \in {"none", "polls", "ended"}, wires' \in Wires, leader' \in Leader, straggler' \in Straggler,
         Heard', Staged'
  PROVE  BrowserInv'
  <1>1. BrowserTypes /\ Reported
    BY DEF BrowserInv
  <1>2. BrowserTypes'
    BY <1>1 DEF BrowserTypes
  <1>3. Working' /\ Reported'
    BY <1>1 DEF Working, Reported, Did
  <1> QED
    BY <1>2, <1>3 DEF BrowserInv

\* The group is told to end.
LEMMA TermSafe ==
  ASSUME BrowserInv, Term
  PROVE  BrowserInv'
  <1>0. /\ BrowserTypes /\ Heard /\ Staged /\ caller.at = "term" /\ UNCHANGED <<session, client, listener, wires, requested, outcome>>
        /\ caller \in Caller /\ leader \in Leader /\ straggler \in Straggler /\ client \in Client /\ wires \in Wires
        /\ listener \in {"none", "polls", "ended"}
    BY DEF BrowserInv, BrowserTypes, Term
  <1>1. caller' \in Caller /\ caller'.at = "reap"
    BY <1>0 DEF Term, Caller, Stops
  <1>2. leader' \in Leader /\ leader'.told
    BY <1>0 DEF Term, Leader
  <1>3. straggler' \in Straggler /\ (straggler'.runs => straggler'.told)
    <2>1. straggler' = [straggler EXCEPT !.told = straggler.told \/ straggler.runs] /\ (straggler.told \/ straggler.runs) \in BOOLEAN
      BY <1>0 DEF Term
    <2> QED
      BY <1>0, <2>1 DEF Straggler
  <1>4. Heard'
    BY <1>0, SameHeard
  <1>5. Staged'
    BY <1>0, <1>1, <1>2, <1>3 DEF Staged
  <1> QED
    BY <1>0, <1>1, <1>2, <1>3, <1>4, <1>5, MovesOn

\* The child is asked for.
LEMMA ReapSafe ==
  ASSUME BrowserInv, Reap
  PROVE  BrowserInv'
  <1>0. /\ BrowserTypes /\ Heard /\ Staged /\ caller.at = "reap"
        /\ UNCHANGED <<session, client, listener, wires, straggler, requested, outcome>>
        /\ caller \in Caller /\ leader \in Leader /\ straggler \in Straggler /\ client \in Client /\ wires \in Wires
        /\ listener \in {"none", "polls", "ended"}
    BY DEF BrowserInv, BrowserTypes, Reap
  <1>1. /\ leader.told /\ (straggler.runs => straggler.told)
        /\ client.is \/ (client = NoClient /\ listener = "none")
    BY <1>0 DEF Staged
  <1>2. Heard'
    BY <1>0, SameHeard
  <1>3. CASE leader.is = "zombie"
    <2>1. leader' = [leader EXCEPT !.is = "reaped"] /\ caller' = [caller EXCEPT !.at = "stop"]
      BY <1>3 DEF Reap
    <2>2. leader' \in Leader /\ leader'.is = "reaped" /\ leader'.told = leader.told
      BY <1>0, <2>1 DEF Leader
    <2>3. caller' \in Caller /\ caller'.at = "stop"
      BY <1>0, <2>1 DEF Caller, Stops
    <2>4. Staged'
      BY <1>0, <1>1, <2>2, <2>3 DEF Staged
    <2> QED
      BY <1>0, <1>2, <2>2, <2>3, <2>4, MovesOn
  <1>4. CASE leader.is # "zombie"
    <2>1. UNCHANGED leader /\ caller' = [caller EXCEPT !.at = "kill"]
      BY <1>4 DEF Reap
    <2>2. caller' \in Caller /\ caller'.at = "kill"
      BY <1>0, <2>1 DEF Caller, Stops
    <2>3. Staged'
      BY <1>0, <1>1, <2>1, <2>2 DEF Staged
    <2> QED
      BY <1>0, <1>2, <2>1, <2>2, <2>3, MovesOn
  <1> QED
    BY <1>3, <1>4

\* The group is killed.
LEMMA KillSafe ==
  ASSUME BrowserInv, KillGroup
  PROVE  BrowserInv'
  <1>0. /\ BrowserTypes /\ Heard /\ Staged /\ caller.at = "kill"
        /\ UNCHANGED <<session, client, listener, wires, requested, outcome>>
        /\ caller \in Caller /\ leader \in Leader /\ straggler \in Straggler /\ client \in Client /\ wires \in Wires
        /\ listener \in {"none", "polls", "ended"}
    BY DEF BrowserInv, BrowserTypes, KillGroup
  <1>1. /\ leader.told /\ (straggler.runs => straggler.told)
        /\ client.is \/ (client = NoClient /\ listener = "none")
    BY <1>0 DEF Staged
  <1>2. caller' \in Caller /\ caller'.at = "await"
    BY <1>0 DEF KillGroup, Caller, Stops
  <1>3. leader' \in Leader /\ leader'.told = leader.told
    BY <1>0 DEF KillGroup, Leader
  <1>4. straggler' \in Straggler /\ (straggler'.runs => straggler'.told)
    BY <1>0, <1>1 DEF KillGroup, Straggler
  <1>5. Heard'
    BY <1>0, SameHeard
  <1>6. Staged'
    BY <1>0, <1>1, <1>2, <1>3, <1>4 DEF Staged
  <1> QED
    BY <1>0, <1>2, <1>3, <1>4, <1>5, <1>6, MovesOn

\* The child is waited for.
LEMMA AwaitSafe ==
  ASSUME BrowserInv, Await
  PROVE  BrowserInv'
  <1>0. /\ BrowserTypes /\ Heard /\ Staged /\ caller.at = "await"
        /\ UNCHANGED <<session, client, listener, wires, straggler, requested, outcome>>
        /\ caller \in Caller /\ leader \in Leader /\ straggler \in Straggler /\ client \in Client /\ wires \in Wires
        /\ listener \in {"none", "polls", "ended"}
    BY DEF BrowserInv, BrowserTypes, Await
  <1>1. /\ leader.told /\ (straggler.runs => straggler.told)
        /\ client.is \/ (client = NoClient /\ listener = "none")
    BY <1>0 DEF Staged
  <1>2. leader' \in Leader /\ leader'.is = "reaped" /\ leader'.told = leader.told
    BY <1>0 DEF Await, Leader
  <1>3. caller' \in Caller /\ caller'.at = "stop"
    BY <1>0 DEF Await, Caller, Stops
  <1>4. Heard'
    BY <1>0, SameHeard
  <1>5. Staged'
    BY <1>0, <1>1, <1>2, <1>3 DEF Staged
  <1> QED
    BY <1>0, <1>2, <1>3, <1>4, <1>5, MovesOn

\* The reader is told to end, where there is one.
LEMMA StopSafe ==
  ASSUME BrowserInv, StopReader
  PROVE  BrowserInv'
  <1>0. /\ BrowserTypes /\ Heard /\ Staged /\ caller.at = "stop"
        /\ UNCHANGED <<session, listener, leader, straggler, requested, outcome>>
        /\ caller \in Caller /\ leader \in Leader /\ straggler \in Straggler /\ client \in Client /\ wires \in Wires
        /\ listener \in {"none", "polls", "ended"}
    BY DEF BrowserInv, BrowserTypes, StopReader
  <1>1. /\ leader.told /\ (straggler.runs => straggler.told) /\ leader.is = "reaped"
        /\ client.is \/ (client = NoClient /\ listener = "none")
    BY <1>0 DEF Staged
  <1>2. CASE client.is
    <2>1. client' = [client EXCEPT !.shutdown = TRUE, !.dead = TRUE] /\ caller' = [caller EXCEPT !.at = "join"] /\ UNCHANGED wires
      BY <1>2 DEF StopReader
    <2>2. client' \in Client /\ client'.is /\ client'.pending = client.pending
      BY <1>0, <1>2, <2>1 DEF Client
    <2>3. caller' \in Caller /\ caller'.at = "join"
      BY <1>0, <2>1 DEF Caller, Stops
    <2>4. Heard'
      BY <1>0, <2>1, <2>2, SameHeard
    <2>5. Staged'
      BY <1>0, <1>1, <2>2, <2>3 DEF Staged
    <2> QED
      BY <1>0, <2>1, <2>2, <2>3, <2>4, <2>5, MovesOn
  <1>3. CASE ~client.is
    <2>1. UNCHANGED client /\ caller' = [caller EXCEPT !.at = "remove"] /\ wires' = NoWires
      BY <1>3 DEF StopReader
    <2>2. caller' \in Caller /\ caller'.at = "remove"
      BY <1>0, <2>1 DEF Caller, Stops
    <2>3. wires' \in Wires /\ wires'.requests = <<>> /\ wires'.replies = <<>>
      <3>1. <<>> \in Seq(Nat) /\ <<>> \in Seq(Message)
        OBVIOUS
      <3> QED
        BY <2>1, <3>1 DEF NoWires, Wires
    <2>4. client'.pending = <<>>
      BY <1>1, <1>3, <2>1 DEF NoClient
    <2>5. Heard'
      BY <1>0, <2>3, <2>4, NoneHeard
    <2>6. Gone'
      BY <1>0, <1>1, <1>3, <2>1 DEF Gone
    <2>7. Staged'
      BY <1>0, <2>2, <2>6 DEF Staged, Gone
    <2> QED
      BY <1>0, <2>1, <2>2, <2>3, <2>5, <2>7, MovesOn
  <1> QED
    BY <1>2, <1>3

\* It has ended; our ends are closed.
LEMMA JoinSafe ==
  ASSUME BrowserInv, JoinReader
  PROVE  BrowserInv'
  <1>0. /\ BrowserTypes /\ Heard /\ Staged /\ caller.at = "join" /\ listener' = "none" /\ client' = NoClient /\ wires' = NoWires
        /\ UNCHANGED <<session, leader, straggler, requested, outcome>>
        /\ caller \in Caller /\ leader \in Leader /\ straggler \in Straggler
    BY DEF BrowserInv, BrowserTypes, JoinReader
  <1>1. (straggler.runs => straggler.told) /\ leader.is = "reaped"
    BY <1>0 DEF Staged
  <1>2. caller' \in Caller /\ caller'.at = "remove"
    <2>1. 0 \in Nat /\ "remove" \in Stops
      BY DEF Stops
    <2> QED
      BY <1>0, <2>1 DEF JoinReader, Caller
  <1>3. wires' \in Wires /\ wires'.requests = <<>> /\ wires'.replies = <<>> /\ client' \in Client /\ client'.pending = <<>>
    <2>1. <<>> \in Seq(Nat) /\ <<>> \in Seq(Message)
      OBVIOUS
    <2> QED
      BY <1>0, <2>1 DEF NoWires, Wires, NoClient, Client
  <1>4. Heard'
    BY <1>0, <1>3, NoneHeard
  <1>5. Gone'
    BY <1>0, <1>1 DEF Gone
  <1>6. Staged'
    BY <1>2, <1>5 DEF Staged, Gone
  <1> QED
    BY <1>0, <1>2, <1>3, <1>4, <1>6, MovesOn

\* The profile is removed, and the action is over.
LEMMA RemoveSafe ==
  ASSUME BrowserInv, RemoveProfile
  PROVE  BrowserInv'
  <1>0. /\ BrowserTypes /\ Heard /\ Staged /\ Gone /\ caller.at = "remove"
        /\ UNCHANGED <<client, listener, wires, leader, straggler, requested>>
        /\ caller \in Caller /\ leader \in Leader /\ straggler \in Straggler /\ client \in Client /\ wires \in Wires
        /\ listener \in {"none", "polls", "ended"}
    BY DEF BrowserInv, BrowserTypes, RemoveProfile, Staged
  <1>1. Heard' /\ Gone'
    BY <1>0, SameHeard DEF Gone
  <1>2. CASE caller' = [caller EXCEPT !.slept = @ + 1] /\ UNCHANGED <<session, outcome>>
    <2>1. caller' \in Caller /\ caller'.at = "remove"
      BY <1>0, <1>2 DEF Caller
    <2>2. Staged'
      BY <1>1, <2>1 DEF Staged, Gone
    <2> QED
      BY <1>0, <1>1, <1>2, <2>1, <2>2, MovesOn
  <1>3. CASE Concludes(IF caller.action = "close" THEN "done" ELSE "error") /\ session' = NoSession
    <2>1. PICK kind \in {"done", "error"} : Concludes(kind) /\ (kind = "done" => caller.action = "close")
      BY <1>3
    <2>2. caller' \in Caller /\ caller'.at = "idle" /\ outcome' \in Outcome /\ outcome'.kind = kind /\ outcome'.action = caller.action
      BY <1>0, <2>1, ConcludesIs DEF Kinds
    <2>3. session' \in [is : BOOLEAN, page : BOOLEAN] /\ ~session'.is
      BY <1>3 DEF NoSession
    <2>4. BrowserTypes'
      BY <1>0, <2>2, <2>3 DEF BrowserTypes
    <2>5. Working' /\ Staged'
      BY <1>1, <2>2, <2>3 DEF Working, Staged, Gone
    <2>6. Reported'
      BY <2>1, <2>2 DEF Reported
    <2> QED
      BY <1>1, <2>4, <2>5, <2>6 DEF BrowserInv
  <1> QED
    BY <1>2, <1>3 DEF RemoveProfile

\* ---- the reader and the browser ----
\* What the caller does and says holds when only the answers grow.
LEMMA OthersMove ==
  ASSUME BrowserInv, UNCHANGED <<caller, session, outcome>>, requested' \in Seq(Asked), AnswersGrow, Len(requested') = Len(requested),
         client' \in Client, listener' \in {"none", "polls", "ended"}, wires' \in Wires, leader' \in Leader, straggler' \in Straggler,
         Heard', Staged'
  PROVE  BrowserInv'
  <1>1. BrowserTypes /\ Reported /\ Working /\ caller \in Caller /\ requested \in Seq(Asked)
    BY DEF BrowserInv, BrowserTypes
  <1>2. BrowserTypes'
    BY <1>1 DEF BrowserTypes
  <1>3. Reported'
    BY <1>1, ReportedStays
  <1>4. Working'
    <2>1. CASE caller.at \in {"write", "wait"}
      <3>1. PICK f \in Nat \ {0} : f = caller.first
        BY <1>1 DEF Caller
      <3>2. PICK t : t = caller.todo
        OBVIOUS
      <3>3. PICK a : a = caller.action
        OBVIOUS
      <3>4. /\ caller.todo = <<"version">> \/ (session.is /\ caller.todo \in Todos(caller.action))
            /\ Behind(a, t, f) /\ (caller.done => Did(f, "state", "complete")) /\ caller.first <= Len(requested) + 1
            /\ caller.at = "wait" => caller.id \in caller.first .. Len(requested) /\ requested[caller.id].method = Head(caller.todo)
        BY <1>1, <2>1, <3>1, <3>2, <3>3 DEF Working
      <3>5. Behind(a, t, f)' /\ (caller.done => Did(f, "state", "complete")')
        BY <1>1, <3>4, BehindStays, DidStays
      <3>6. Behind(caller.action, caller.todo, caller.first)' /\ (caller'.done => Did(caller.first, "state", "complete")')
        BY <3>1, <3>2, <3>3, <3>5 DEF Behind, Did
      <3>7. caller.at = "wait" => caller'.id \in caller'.first .. Len(requested') /\ requested'[caller.id].method = Head(caller'.todo)
        BY <1>1, <3>1, <3>4 DEF AnswersGrow
      <3> QED
        BY <3>4, <3>6, <3>7 DEF Working
    <2>2. CASE caller.at \notin {"write", "wait"}
      BY <2>2 DEF Working
    <2> QED
      BY <2>1, <2>2
  <1> QED
    BY <1>2, <1>3, <1>4 DEF BrowserInv

\* The reader ends, or stores what a chunk brought.
LEMMA ReadRoundSafe ==
  ASSUME BrowserInv, ReadRound
  PROVE  BrowserInv'
  <1>0. /\ BrowserTypes /\ Heard /\ RepliesTrue /\ Staged /\ listener = "polls"
        /\ UNCHANGED <<caller, session, leader, straggler, requested, outcome>>
        /\ leader \in Leader /\ straggler \in Straggler /\ client \in Client /\ wires \in Wires
    BY DEF BrowserInv, BrowserTypes, ReadRound, Heard
  <1>1. requested' \in Seq(Asked) /\ AnswersGrow /\ Len(requested') = Len(requested)
    BY <1>0, SameRequests
  <1>2. /\ client.is /\ caller.at \notin {"spawn", "client", "remove"} /\ (caller.at = "idle" => session.is)
        /\ caller.at \in {"reap", "kill", "await", "stop", "join"} => leader.told /\ (straggler.runs => straggler.told)
        /\ caller.at \in {"stop", "join"} => leader.is = "reaped"
    BY <1>0 DEF Staged, Gone, NoClient
  <1>3. ASSUME client'.is PROVE Staged'
    BY <1>0, <1>2, <1>3 DEF Staged
  <1>4. CASE ReaderEnds
    <2>1. listener' = "ended" /\ client' = [client EXCEPT !.dead = TRUE] /\ UNCHANGED wires
      BY <1>4 DEF ReaderEnds
    <2>2. client' \in Client /\ client'.is /\ client'.pending = client.pending
      BY <1>0, <1>2, <2>1 DEF Client
    <2>3. Heard'
      BY <1>0, <2>1, <2>2, SameHeard
    <2> QED
      BY <1>0, <1>1, <1>3, <2>1, <2>2, <2>3, OthersMove
  <1>5. ASSUME NEW n \in 1 .. Len(wires.replies),
               wires' = [wires EXCEPT !.replies = SubSeq(@, n + 1, Len(@))], UNCHANGED listener,
               client' = [client EXCEPT !.pending = Stored(@ \o SubSeq(wires.replies, 1, n))]
        PROVE  BrowserInv'
    <2>0. wires.replies \in Seq(Message) /\ client.pending \in Seq(Message) /\ Len(wires.replies) \in Nat /\ n \in Nat
      BY <1>0 DEF Wires, Client
    <2> DEFINE left == SubSeq(wires.replies, n + 1, Len(wires.replies))
               chunk == SubSeq(wires.replies, 1, n)
               all == client.pending \o chunk
               kept == Stored(all)
    <2>1. left \in Seq(Message) /\ \A i \in 1 .. Len(left) : left[i] = wires.replies[n + i] /\ n + i \in 1 .. Len(wires.replies)
      BY <2>0
    <2>2. chunk \in Seq(Message) /\ Len(chunk) = n /\ \A i \in 1 .. n : chunk[i] = wires.replies[i]
      BY <2>0
    <2> HIDE DEF chunk, left
    <2>3. /\ all \in Seq(Message) /\ Len(all) = Len(client.pending) + n
          /\ \A i \in 1 .. Len(all) : all[i] = IF i <= Len(client.pending) THEN client.pending[i] ELSE chunk[i - Len(client.pending)]
      <3>1. PICK u \in Seq(Message) : u = client.pending
        BY <2>0
      <3>2. PICK v \in Seq(Message) : v = chunk
        BY <2>2
      <3>3. u \o v \in Seq(Message) /\ Len(u \o v) = Len(u) + Len(v)
            /\ \A i \in 1 .. Len(u) + Len(v) : (u \o v)[i] = IF i <= Len(u) THEN u[i] ELSE v[i - Len(u)]
        BY ConcatProperties
      <3>4. all = u \o v
        BY <3>1, <3>2
      <3> HIDE DEF all
      <3> QED
        BY <2>2, <3>1, <3>2, <3>3, <3>4
    <2>4. \A i \in 1 .. Len(all) : all[i] \in Message /\ Truthful(all[i])
      <3>1. ASSUME NEW i \in 1 .. Len(all) PROVE all[i] \in Message /\ Truthful(all[i])
        <4>1. CASE i <= Len(client.pending)
          BY <1>0, <2>0, <2>3, <4>1 DEF RepliesTrue
        <4>2. CASE ~(i <= Len(client.pending))
          <5>1. PICK k : k = i - Len(client.pending)
            OBVIOUS
          <5>2. k \in 1 .. n /\ k \in 1 .. Len(wires.replies) /\ all[i] = chunk[k]
            BY <2>0, <2>3, <4>2, <5>1
          <5>3. all[i] = wires.replies[k]
            BY <2>2, <5>2
          <5> QED
            BY <1>0, <2>0, <5>2, <5>3 DEF RepliesTrue
        <4> QED
          BY <4>1, <4>2
      <3> QED
        BY <3>1
    <2> HIDE DEF all
    <2>5. kept \in Seq(Message) /\ \A i \in 1 .. Len(kept) : \E j \in 1 .. Len(all) : kept[i] = all[j]
      <3>1. PICK l \in Nat \ {0} : kept = SubSeq(all, l, Len(all))
        <4>1. Len(all) \in Nat /\ PendingMax \in Nat \ {0}
          BY <2>3, BrowserAssumption
        <4> DEFINE from == IF Len(all) > PendingMax THEN Len(all) + 1 - PendingMax ELSE 1
        <4>2. from \in Nat \ {0}
          BY <4>1
        <4> QED
          BY <4>2 DEF Stored
      <3> HIDE DEF kept
      <3> QED
        BY <2>3, <3>1
    <2> HIDE DEF kept
    <2>6. wires' = [wires EXCEPT !.replies = left] /\ client' = [client EXCEPT !.pending = kept]
      BY <1>5 DEF left, kept, all, chunk
    <2>7. /\ wires' \in Wires /\ wires'.replies = left /\ wires'.requests = wires.requests
          /\ client' \in Client /\ client'.is = client.is /\ client'.pending = kept
      BY <1>0, <2>1, <2>5, <2>6 DEF Wires, Client
    <2>8. \A i \in 1 .. Len(wires'.replies) : wires'.replies[i] \in Message /\ Truthful(wires'.replies[i])
      BY <1>0, <2>0, <2>1, <2>7 DEF RepliesTrue
    <2>9. \A i \in 1 .. Len(client'.pending) : client'.pending[i] \in Message /\ Truthful(client'.pending[i])
      BY <2>4, <2>5, <2>7
    <2>10. RepliesTrue'
      BY <1>0, <1>1, <2>7, <2>8, <2>9, ToldStays
    <2>11. Heard'
      BY <1>0, <2>7, <2>10 DEF Heard, Waiting, Waits, Fitting
    <2> QED
      BY <1>0, <1>1, <1>2, <1>3, <1>5, <2>7, <2>11, OthersMove
  <1> QED
    BY <1>4, <1>5 DEF ReadRound

\* It answers one of the requests.
LEMMA ReplySafe ==
  ASSUME BrowserInv, Reply
  PROVE  BrowserInv'
  <1>0. /\ BrowserTypes /\ Heard /\ RepliesTrue /\ Waiting /\ Fitting /\ Staged /\ leader.is = "runs"
        /\ UNCHANGED <<caller, session, client, listener, leader, straggler, outcome>>
        /\ leader \in Leader /\ straggler \in Straggler /\ client \in Client /\ wires \in Wires /\ requested \in Seq(Asked)
        /\ listener \in {"none", "polls", "ended"} /\ wires.replies \in Seq(Message) /\ wires.requests \in Seq(Nat)
    BY DEF BrowserInv, BrowserTypes, Reply, CallerRests, Heard, Wires
  <1>a. DOMAIN wires.requests = 1 .. Len(wires.requests) /\ Len(wires.requests) \in Nat
    BY <1>0
  <1>1. PICK n \in 1 .. Len(wires.requests) :
          \E says \in IF requested[wires.requests[n]].method = "state" THEN {"complete", "loading", "error"} ELSE {"ok", "error"} :
            /\ wires' = [wires EXCEPT !.requests = RemoveAt(@, n),
                                      !.replies = Append(@, [id |-> wires.requests[n], method |-> requested[wires.requests[n]].method, says |-> says])]
            /\ requested' = [requested EXCEPT ![wires.requests[n]].says = says]
    BY <1>a DEF Reply
  <1>b. PICK id : id = wires.requests[n]
    OBVIOUS
  <1>c. PICK method : method = requested[id].method
    OBVIOUS
  <1>d. PICK less : less = RemoveAt(wires.requests, n)
    OBVIOUS
  <1>2. PICK says \in IF method = "state" THEN {"complete", "loading", "error"} ELSE {"ok", "error"} :
          /\ wires' = [wires EXCEPT !.requests = less, !.replies = Append(wires.replies, [id |-> id, method |-> method, says |-> says])]
          /\ requested' = [requested EXCEPT ![id].says = says]
    BY <1>1, <1>b, <1>c, <1>d
  <1>3. id \in 1 .. Len(requested) /\ requested[id].says = "nothing" /\ requested[id] \in Asked /\ method \in Methods /\ id \in Nat
        /\ Len(requested) \in Nat
    <2>1. id \in 1 .. Len(requested) /\ requested[id].says = "nothing" /\ Len(requested) \in Nat
      BY <1>0, <1>b DEF Waiting, Waits
    <2>2. requested[id] \in Asked
      BY <1>0, <2>1
    <2> QED
      BY <1>c, <2>1, <2>2 DEF Asked
  <1>4. says \in Sayings
    BY <1>2 DEF Sayings
  <1>5. /\ less \in Seq(Nat) /\ Len(less) = Len(wires.requests) - 1 /\ Len(wires.requests) \in Nat
        /\ \A k \in 1 .. Len(wires.requests) - 1 : less[k] = IF k < n THEN wires.requests[k] ELSE wires.requests[k + 1]
    <2>1. PICK s \in Seq(Nat) : s = wires.requests
      BY <1>0
    <2>2. PICK j \in 1 .. Len(s) : j = n
      BY <2>1
    <2>3. /\ RemoveAt(s, j) \in Seq(Nat) /\ Len(RemoveAt(s, j)) = Len(s) - 1
          /\ \A k \in 1 .. Len(s) - 1 : RemoveAt(s, j)[k] = IF k < j THEN s[k] ELSE s[k + 1]
      BY RemoveAtIs
    <2>4. less = RemoveAt(s, j)
      BY <1>d, <2>1, <2>2
    <2> QED
      BY <1>a, <2>1, <2>2, <2>3, <2>4
  <1>e. PICK reply : reply = [id |-> id, method |-> method, says |-> says]
    OBVIOUS
  <1>f. PICK replies : replies = Append(wires.replies, reply)
    OBVIOUS
  <1>6. reply \in Message /\ reply.id = id /\ reply.method = method /\ reply.says = says
    BY <1>3, <1>4, <1>e DEF Message
  <1>7. /\ replies \in Seq(Message) /\ Len(replies) = Len(wires.replies) + 1 /\ Len(wires.replies) \in Nat
        /\ \A k \in 1 .. Len(wires.replies) : replies[k] = wires.replies[k]
        /\ replies[Len(wires.replies) + 1] = reply
    BY <1>0, <1>6, <1>f
  <1>8. wires' = [wires EXCEPT !.requests = less, !.replies = replies]
    BY <1>2, <1>e, <1>f
  <1>9. wires' \in Wires /\ wires'.requests = less /\ wires'.replies = replies
    BY <1>0, <1>5, <1>7, <1>8 DEF Wires
  <1>10. /\ requested' \in Seq(Asked) /\ Len(requested') = Len(requested)
         /\ \A i \in 1 .. Len(requested) : i # id => requested'[i] = requested[i]
         /\ requested'[id].method = method /\ requested'[id].says = says
    <2>1. [requested[id] EXCEPT !.says = says] \in Asked
      BY <1>3, <1>4 DEF Asked
    <2>2. requested' = [requested EXCEPT ![id] = [requested[id] EXCEPT !.says = says]]
      BY <1>2
    <2>3. requested'[id] = [requested[id] EXCEPT !.says = says]
      BY <1>0, <1>3, <2>2
    <2>4. requested'[id].method = method /\ requested'[id].says = says
      BY <1>3, <1>c, <2>3 DEF Asked
    <2>5. requested' \in Seq(Asked) /\ Len(requested') = Len(requested)
      BY <1>0, <1>3, <2>1, <2>2
    <2>6. \A i \in 1 .. Len(requested) : i # id => requested'[i] = requested[i]
      BY <1>0, <1>3, <2>2
    <2> QED
      BY <2>4, <2>5, <2>6
  <1>11. AnswersGrow
    BY <1>3, <1>c, <1>10 DEF AnswersGrow
  <1>12. Truthful(reply)'
    BY <1>3, <1>6, <1>10 DEF Truthful
  <1>13. RepliesTrue'
    <2>1. ASSUME NEW r \in Message, Truthful(r)
          PROVE  r.id \in 1 .. Len(requested') /\ requested'[r.id].method = r.method /\ requested'[r.id].says = r.says
      <3>1. Truthful(r)'
        BY <1>0, <1>10, <1>11, <2>1, TruthfulStays
      <3> QED
        BY <3>1 DEF Truthful
    <2>2. ASSUME NEW k \in 1 .. Len(wires'.replies) PROVE Truthful(wires.replies[k])'
      <3>1. CASE k = Len(wires.replies) + 1
        BY <1>7, <1>9, <1>12, <3>1 DEF Truthful
      <3>2. CASE k # Len(wires.replies) + 1
        <4>1. k \in 1 .. Len(wires.replies) /\ replies[k] = wires.replies[k]
          BY <1>7, <1>9, <3>2
        <4>2. wires.replies[k] \in Message /\ Truthful(wires.replies[k])
          BY <1>0, <4>1 DEF RepliesTrue
        <4> QED
          BY <1>9, <2>1, <4>1, <4>2 DEF Truthful
      <3> QED
        BY <3>1, <3>2
    <2>3. ASSUME NEW k \in 1 .. Len(client'.pending) PROVE Truthful(client.pending[k])'
      <3>1. client.pending[k] \in Message /\ Truthful(client.pending[k])
        BY <1>0 DEF RepliesTrue, Client
      <3> QED
        BY <1>0, <2>1, <3>1 DEF Truthful
    <2> QED
      BY <2>2, <2>3 DEF RepliesTrue
  <1>14. Waiting'
    <2>1. ASSUME NEW k \in 1 .. Len(less)
          PROVE  \E j \in 1 .. Len(wires.requests) : less[k] = wires.requests[j] /\ j # n /\ j = (IF k < n THEN k ELSE k + 1)
      <3>1. k \in 1 .. Len(wires.requests) /\ k + 1 \in 1 .. Len(wires.requests)
        BY <1>5
      <3> QED
        BY <1>5, <3>1
    <2>2. \A k, j \in 1 .. Len(wires.requests) : wires.requests[k] = wires.requests[j] => k = j
      BY <1>0 DEF Waiting
    <2>3. ASSUME NEW k \in 1 .. Len(less)
          PROVE  less[k] \in 1 .. Len(requested') /\ requested'[less[k]].says = "nothing"
      <3>1. PICK j \in 1 .. Len(wires.requests) : less[k] = wires.requests[j] /\ j # n
        BY <2>1
      <3>2. less[k] # id
        BY <1>b, <2>2, <3>1
      <3>3. less[k] \in 1 .. Len(requested) /\ requested[less[k]].says = "nothing"
        BY <1>0, <3>1 DEF Waiting, Waits
      <3> QED
        BY <1>10, <3>2, <3>3
    <2>4. ASSUME NEW k \in 1 .. Len(less), NEW j \in 1 .. Len(less), less[k] = less[j] PROVE k = j
      <3>1. PICK u \in 1 .. Len(wires.requests) : less[k] = wires.requests[u] /\ u = (IF k < n THEN k ELSE k + 1)
        BY <2>1
      <3>2. PICK v \in 1 .. Len(wires.requests) : less[j] = wires.requests[v] /\ v = (IF j < n THEN j ELSE j + 1)
        BY <2>1
      <3>3. u = v
        BY <2>2, <2>4, <3>1, <3>2
      <3> QED
        BY <1>5, <3>1, <3>2, <3>3
    <2> QED
      BY <1>9, <2>3, <2>4 DEF Waiting, Waits
  <1>15. Fitting'
    <2>1. ASSUME NEW i \in 1 .. Len(requested')
          PROVE  requested'[i].says \in {"nothing", "error"} \cup (IF requested'[i].method = "state" THEN {"complete", "loading"} ELSE {"ok"})
      <3>1. CASE i = id
        BY <1>2, <1>10, <3>1
      <3>2. CASE i # id
        BY <1>0, <1>10, <2>1, <3>2 DEF Fitting
      <3> QED
        BY <3>1, <3>2
    <2> QED
      BY <2>1 DEF Fitting
  <1>16. Staged'
    <2>1. ~Gone
      BY <1>0 DEF Gone
    <2>2. caller.at # "client"
      <3>1. n \in 1 .. Len(wires.requests) /\ Len(<<>>) = 0
        OBVIOUS
      <3>2. wires.requests # <<>>
        BY <1>5, <3>1
      <3> QED
        BY <1>0, <3>2 DEF Staged
    <2> QED
      BY <1>0, <2>1, <2>2 DEF Staged
  <1> QED
    BY <1>0, <1>9, <1>10, <1>11, <1>13, <1>14, <1>15, <1>16, OthersMove DEF Heard

\* It starts, leaves a process behind, or ends.
LEMMA LivesSafe ==
  ASSUME BrowserInv, Exec \/ Fork \/ Leave
  PROVE  BrowserInv'
  <1>0. /\ BrowserTypes /\ Heard /\ Staged
        /\ UNCHANGED <<caller, session, client, listener, wires, requested, outcome>>
        /\ leader \in Leader /\ straggler \in Straggler /\ client \in Client /\ wires \in Wires /\ requested \in Seq(Asked)
        /\ listener \in {"none", "polls", "ended"}
    BY DEF BrowserInv, BrowserTypes, Exec, Fork, Leave, CallerRests
  <1>1. requested' \in Seq(Asked) /\ AnswersGrow /\ Len(requested') = Len(requested)
    BY <1>0, SameRequests
  <1>2. Heard'
    BY <1>0, SameHeard
  <1>3. CASE Exec
    <2>1. leader.is = "forked" /\ leader' = [leader EXCEPT !.is = "runs"] /\ UNCHANGED straggler
      BY <1>3 DEF Exec
    <2>2. leader' \in Leader /\ leader'.told = leader.told
      BY <1>0, <2>1 DEF Leader
    <2>3. ~Gone
      BY <2>1 DEF Gone
    <2>4. Staged'
      BY <1>0, <2>1, <2>2, <2>3 DEF Staged
    <2> QED
      BY <1>0, <1>1, <1>2, <2>1, <2>2, <2>4, OthersMove
  <1>4. CASE Fork
    <2>1. leader.is = "runs" /\ ~leader.told /\ UNCHANGED leader
      BY <1>4 DEF Fork
    <2>2. straggler' \in Straggler
      BY <1>4 DEF Fork, Straggler
    <2>3. ~Gone
      BY <2>1 DEF Gone
    <2>4. Staged'
      BY <1>0, <2>1, <2>3 DEF Staged
    <2> QED
      BY <1>0, <1>1, <1>2, <2>1, <2>2, <2>4, OthersMove
  <1>5. CASE Leave
    <2>1. CASE leader.is \in {"forked", "runs"} /\ leader' = [leader EXCEPT !.is = "zombie"] /\ UNCHANGED straggler
      <3>1. leader' \in Leader /\ leader'.told = leader.told
        BY <1>0, <2>1 DEF Leader
      <3>2. ~Gone
        BY <2>1 DEF Gone
      <3>3. Staged'
        BY <1>0, <2>1, <3>1, <3>2 DEF Staged
      <3> QED
        BY <1>0, <1>1, <1>2, <2>1, <3>1, <3>3, OthersMove
    <2>2. CASE straggler.runs /\ straggler' = [straggler EXCEPT !.runs = FALSE] /\ UNCHANGED leader
      <3>1. straggler' \in Straggler /\ ~straggler'.runs
        BY <1>0, <2>2 DEF Straggler
      <3>2. Gone => Gone'
        BY <1>0, <2>2, <3>1 DEF Gone
      <3>3. Staged'
        BY <1>0, <2>2, <3>1, <3>2 DEF Staged
      <3> QED
        BY <1>0, <1>1, <1>2, <2>2, <3>1, <3>3, OthersMove
    <2> QED
      BY <1>5, <2>1, <2>2 DEF Leave
  <1> QED
    BY <1>3, <1>4, <1>5

\* Every step of the browser's machine keeps the invariant.
LEMMA BrowserStep ==
  ASSUME BrowserInv, BrowserNext \/ UNCHANGED browser
  PROVE  BrowserInv'
  <1>1. CASE UNCHANGED browser
    <2>1. UNCHANGED <<caller, session, client, listener, wires, leader, straggler, requested, outcome>>
      BY <1>1 DEF browser
    <2>2. BrowserTypes' /\ Heard' /\ Working' /\ Staged' /\ Reported'
      <3>1. BrowserTypes /\ Heard /\ Working /\ Staged /\ Reported
        BY DEF BrowserInv
      <3>2. BrowserTypes' /\ Staged'
        BY <2>1, <3>1 DEF BrowserTypes, Staged, Gone
      <3>3. Heard'
        BY <2>1, <3>1, SameHeard
      <3>4. Working'
        BY <2>1, <3>1 DEF Working, Behind, Did
      <3>5. Reported'
        BY <2>1, <3>1 DEF Reported, Did
      <3> QED
        BY <3>2, <3>3, <3>4, <3>5
    <2> QED
      BY <2>2 DEF BrowserInv
  <1>2. ASSUME NEW a \in Actions, AskTool(a) PROVE BrowserInv'
    BY <1>2, AskSafeBrowser
  <1>3. CASE BrowserCaller
    BY <1>3, SpawnSafe, ClientSafe, SendSafe, WaitSafe, TermSafe, ReapSafe, KillSafe, AwaitSafe, StopSafe, JoinSafe, RemoveSafe DEF BrowserCaller
  <1>4. CASE ReadRound \/ Exec \/ Reply \/ Fork \/ Leave
    BY <1>4, ReadRoundSafe, ReplySafe, LivesSafe
  <1> QED
    BY <1>1, <1>2, <1>3, <1>4 DEF BrowserNext

-----------------------------------------------------------------------------
(* The request to Codex (openai_request.c)                                  *)

\* What is put together part by part has each part at its place.
IsChain(X, u, w, N) ==
  /\ N \in Nat /\ u \in [0 .. N -> Seq(X)] /\ w \in [1 .. N -> Seq(X)]
  /\ u[0] = <<>> /\ \A n \in 1 .. N : u[n] = u[n - 1] \o w[n]
Begins(s, t) == Len(s) <= Len(t) /\ \A j \in 1 .. Len(s) : t[j] = s[j]
FoundIn(u, w, N, i, j) ==
  /\ Len(u[i - 1]) \in Nat /\ Len(u[i]) \in Nat /\ Len(u[i - 1]) < j /\ j <= Len(u[i])
  /\ j - Len(u[i - 1]) \in 1 .. Len(w[i]) /\ u[N][j] = w[i][j - Len(u[i - 1])]
Placed(u, w, N, i, k) ==
  /\ Len(u[i - 1]) \in Nat /\ Len(u[i - 1]) + k \in 1 .. Len(u[i]) /\ Len(u[i]) \in Nat /\ Len(u[i]) <= Len(u[N])
  /\ u[N][Len(u[i - 1]) + k] = w[i][k]
\* Two sequences one behind the other.
LEMMA CatIs ==
  ASSUME NEW X, NEW s \in Seq(X), NEW t \in Seq(X)
  PROVE  /\ s \o t \in Seq(X) /\ Len(s \o t) = Len(s) + Len(t) /\ Len(s) \in Nat /\ Len(t) \in Nat
         /\ \A j \in 1 .. Len(s) : (s \o t)[j] = s[j]
         /\ \A j \in 1 .. Len(t) : (s \o t)[Len(s) + j] = t[j]
  OBVIOUS
\* Steps of numbers the lengths need.
LEMMA Further == ASSUME NEW a \in Nat, NEW b \in Nat, NEW c \in Nat, a <= b PROVE a <= b + c
  OBVIOUS
LEMMA InBetween == ASSUME NEW j \in Nat, NEW a \in Nat, NEW b \in Nat, NEW c \in Nat, ~(j <= a), j <= b, b = a + c
                  PROVE  a < j /\ j - a \in 1 .. c /\ a + (j - a) = j
  OBVIOUS
LEMMA InRange == ASSUME NEW b \in Nat, NEW j \in 1 .. b PROVE j \in Nat /\ j <= b /\ 1 <= j
  OBVIOUS
\* A later stage begins with an earlier one.
LEMMA ChainGrows ==
  ASSUME NEW X, NEW N, NEW u, NEW w, IsChain(X, u, w, N), NEW a \in 0 .. N
  PROVE  \A n \in a .. N : Begins(u[a], u[n])
  <1>0. N \in Nat /\ u \in [0 .. N -> Seq(X)] /\ w \in [1 .. N -> Seq(X)]
    BY DEF IsChain
  <1> USE <1>0
  <1> DEFINE Good(n) == Len(u[a]) <= Len(u[n]) /\ \A j \in 1 .. Len(u[a]) : u[n][j] = u[a][j]
             Off == {n \in a .. N : ~Good(n)}
  <1>1. SUFFICES ASSUME Off # {} PROVE FALSE
    BY DEF Begins
  <1>2. Off \in SUBSET Nat
    OBVIOUS
  <1>3. PICK m \in Off : \A k \in Off : m <= k
    <2> HIDE DEF Off
    <2> QED
      BY <1>1, <1>2, LeastNat
  <1>4. m # a
    <2>1. u[a] \in Seq(X)
      OBVIOUS
    <2>2. Good(a)
      BY <2>1
    <2> QED
      BY <1>3, <2>2
  <1>5. m - 1 \in a .. N /\ m \in 1 .. N /\ m \in 0 .. N /\ m - 1 \in 0 .. N
    BY <1>3, <1>4
  <1>6. Good(m - 1)
    <2>1. ~(m <= m - 1)
      BY <1>5
    <2>2. m - 1 \notin Off
      BY <1>3, <2>1
    <2> QED
      BY <1>5, <2>2
  <1>7. u[m] = u[m - 1] \o w[m] /\ u[m - 1] \in Seq(X) /\ w[m] \in Seq(X) /\ u[a] \in Seq(X)
    BY <1>5 DEF IsChain
  <1>8. Len(u[m]) = Len(u[m - 1]) + Len(w[m]) /\ \A j \in 1 .. Len(u[m - 1]) : u[m][j] = u[m - 1][j]
    <2> DEFINE s == u[m - 1]
               t == w[m]
    <2>1. s \in Seq(X) /\ t \in Seq(X) /\ u[m] = s \o t
      BY <1>7
    <2> HIDE DEF s, t
    <2>2. Len(u[m]) = Len(s) + Len(t) /\ \A j \in 1 .. Len(s) : u[m][j] = s[j]
      BY <2>1, CatIs
    <2> QED
      BY <2>2 DEF s, t
  <1>9. Len(u[a]) \in Nat /\ Len(u[m - 1]) \in Nat /\ Len(w[m]) \in Nat
    BY <1>7
  <1>10. Good(m)
    <2>a. Len(u[m]) = Len(u[m - 1]) + Len(w[m])
      BY <1>8
    <2>b. Len(u[a]) <= Len(u[m - 1])
      BY <1>6
    <2>0. Len(u[m]) = Len(u[m - 1]) + Len(w[m]) /\ Len(u[a]) <= Len(u[m - 1])
      BY <2>a, <2>b
    <2>1. Len(u[a]) <= Len(u[m])
      BY <2>0, <1>9, Further
    <2>2. ASSUME NEW j \in 1 .. Len(u[a]) PROVE u[m][j] = u[a][j]
      <3>1. j \in 1 .. Len(u[m - 1])
        BY <1>6, <1>9
      <3> QED
        BY <1>6, <1>8, <3>1
    <2> QED
      BY <2>1, <2>2
  <1> QED
    BY <1>3, <1>10
\* Each part stands in the whole, at its place.
LEMMA ChainHas ==
  ASSUME NEW X, NEW N, NEW u, NEW w, IsChain(X, u, w, N),
         NEW i \in 1 .. N, NEW k \in 1 .. Len(w[i])
  PROVE  Placed(u, w, N, i, k)
  <1>0. N \in Nat /\ u \in [0 .. N -> Seq(X)] /\ w \in [1 .. N -> Seq(X)]
    BY DEF IsChain
  <1> USE <1>0
  <1>1. i \in 0 .. N /\ i - 1 \in 0 .. N /\ N \in i .. N
    OBVIOUS
  <1>2. u[i] = u[i - 1] \o w[i] /\ u[i - 1] \in Seq(X) /\ w[i] \in Seq(X) /\ u[i] \in Seq(X)
    BY <1>1 DEF IsChain
  <1>3. Len(u[i]) = Len(u[i - 1]) + Len(w[i]) /\ Len(u[i - 1]) \in Nat /\ Len(w[i]) \in Nat /\ Len(u[i]) \in Nat
    BY <1>2
  <1>4. Len(u[i - 1]) + k \in 1 .. Len(u[i])
    BY <1>3
  <1>5. u[i][Len(u[i - 1]) + k] = w[i][k]
    BY <1>2, CatIs
  <1>6. Len(u[i]) <= Len(u[N]) /\ \A j \in 1 .. Len(u[i]) : u[N][j] = u[i][j]
    <2>1. Begins(u[i], u[N])
      BY <1>1, ChainGrows
    <2> QED
      BY <2>1 DEF Begins
  <1> QED
    BY <1>3, <1>4, <1>5, <1>6 DEF Placed
\* Each place of the whole is of a part.
LEMMA ChainFinds ==
  ASSUME NEW X, NEW N, NEW u, NEW w, IsChain(X, u, w, N),
         NEW j \in 1 .. Len(u[N])
  PROVE  \E i \in 1 .. N : FoundIn(u, w, N, i, j)
  <1>a. N \in Nat /\ u \in [0 .. N -> Seq(X)] /\ w \in [1 .. N -> Seq(X)]
    BY DEF IsChain
  <1> USE <1>a
  <1>0. j \in Nat
    <2>1. N \in 0 .. N
      OBVIOUS
    <2>2. u[N] \in Seq(X)
      BY <2>1
    <2>3. Len(u[N]) \in Nat
      BY <2>2
    <2> QED
      BY <2>3, InRange
  <1>10. ASSUME NEW n \in 1 .. N, NEW k \in 1 .. Len(w[n]) PROVE u[N][Len(u[n - 1]) + k] = w[n][k]
    <2>1. Placed(u, w, N, n, k)
      BY ChainHas
    <2> QED
      BY <2>1 DEF Placed
  <1> DEFINE Past == {n \in 0 .. N : j <= Len(u[n])}
  <1>1. Past \in SUBSET Nat /\ N \in Past
    OBVIOUS
  <1>2. PICK i \in Past : \A k \in Past : i <= k
    <2> HIDE DEF Past
    <2> QED
      BY <1>1, LeastNat
  <1>3. i # 0
    <2>1. u[0] = <<>>
      BY DEF IsChain
    <2> QED
      BY <1>2, <2>1
  <1>4. i \in 1 .. N /\ i - 1 \in 0 .. N /\ i \in 0 .. N /\ ~(i <= i - 1)
    BY <1>2, <1>3
  <1>5. ~(j <= Len(u[i - 1]))
    BY <1>2, <1>4
  <1>6. u[i] = u[i - 1] \o w[i] /\ u[i - 1] \in Seq(X) /\ w[i] \in Seq(X) /\ u[i] \in Seq(X)
    BY <1>4 DEF IsChain
  <1>7. Len(u[i]) = Len(u[i - 1]) + Len(w[i]) /\ Len(u[i - 1]) \in Nat /\ Len(w[i]) \in Nat /\ Len(u[i]) \in Nat
    <2> DEFINE s == u[i - 1]
               t == w[i]
    <2>1. s \in Seq(X) /\ t \in Seq(X) /\ u[i] = s \o t
      BY <1>6
    <2> HIDE DEF s, t
    <2>2. Len(u[i]) = Len(s) + Len(t) /\ Len(s) \in Nat /\ Len(t) \in Nat
      BY <2>1, CatIs
    <2>3. Len(u[i]) \in Nat
      BY <2>2
    <2> QED
      BY <2>2, <2>3 DEF s, t
  <1>8. j <= Len(u[i])
    BY <1>2
  <1>9. Len(u[i - 1]) < j /\ j - Len(u[i - 1]) \in 1 .. Len(w[i]) /\ Len(u[i - 1]) + (j - Len(u[i - 1])) = j
    BY <1>0, <1>5, <1>7, <1>8, InBetween
  <1>12. u[N][j] = w[i][j - Len(u[i - 1])]
    <2> DEFINE k == j - Len(u[i - 1])
    <2>1. k \in 1 .. Len(w[i]) /\ Len(u[i - 1]) + k = j
      BY <1>9
    <2> HIDE DEF k
    <2>2. u[N][Len(u[i - 1]) + k] = w[i][k]
      BY <1>4, <2>1, <1>10
    <2>3. u[N][j] = w[i][k]
      BY <2>1, <2>2
    <2> QED
      BY <2>3 DEF k
  <1> HIDE DEF Past
  <1> QED
    BY <1>4, <1>7, <1>8, <1>9, <1>12 DEF FoundIn

\* The messages of Codex and of compatible streams, and the items made of them.
CallIds == {Id(n) : n \in Nat}
ReqMessage == [role : {"system", "user", "assistant", "tool"}, content : {"none", "", "text"}, calls : Seq(CallIds),
            answers : CallIds \cup {NoId}, state : Seq({"r"})]
Item == [item : {"reasoning", "message", "call", "output"}, of : Nat, id : CallIds \cup {NoId, "r"}]
\* An item by the place in its message: r of reasoning, b up to the first call.
ShapeAt(s, m, i, r, b) ==
  /\ s \in Seq(Item) /\ r \in Nat /\ b \in Nat /\ r <= b /\ Len(s) = b + Len(m.calls)
  /\ \A k \in 1 .. Len(s) :
       /\ s[k].of = i
       /\ k <= r <=> s[k].item = "reasoning"
       /\ s[k].item = "call" <=> k > b
       /\ k > b => s[k].id = m.calls[k - b]
       /\ s[k].item = "output" => m.role = "tool" /\ s[k].id = m.answers
Shaped(s, m, i) == \E r, b \in Nat : ShapeAt(s, m, i, r, b)

\* Steps of numbers the places need.
LEMMA SumNat == ASSUME NEW a \in Nat, NEW b \in Nat, NEW c, c = a + b PROVE c \in Nat
  OBVIOUS
LEMMA Offset == ASSUME NEW k \in Nat, NEW b \in Nat, NEW c \in Nat, k > b, k <= b + c PROVE k - b \in 1 .. c /\ k = b + (k - b) /\ k - b \in Nat
  OBVIOUS
\* A sequence is empty when its length is.
LEMMA EmptyIs == ASSUME NEW T, NEW s \in Seq(T) PROVE Len(s) \in Nat /\ (Len(s) = 0 <=> s = <<>>)
  OBVIOUS
\* The items of a message are its reasoning, its text and its calls, in this order.
LEMMA SpeechShaped ==
  ASSUME NEW m \in ReqMessage, NEW i \in Nat
  PROVE  Shaped(Speech(m, i), m, i)
  <1> DEFINE A == IF m.role = "assistant" THEN [k \in DOMAIN m.state |-> [item |-> "reasoning", of |-> i, id |-> m.state[k]]] ELSE <<>>
             B == IF m.content = "text" \/ (m.content = "" /\ m.calls = <<>>) THEN <<[item |-> "message", of |-> i, id |-> NoId]>> ELSE <<>>
             C == [k \in DOMAIN m.calls |-> [item |-> "call", of |-> i, id |-> m.calls[k]]]
  <1>1. m.calls \in Seq(CallIds) /\ m.state \in Seq({"r"})
    BY DEF ReqMessage
  <1>2. A \in Seq(Item) /\ \A k \in 1 .. Len(A) : A[k].item = "reasoning" /\ A[k].of = i
    <2>1. CASE m.role = "assistant"
      <3>1. DOMAIN m.state = 1 .. Len(m.state) /\ Len(m.state) \in Nat
        BY <1>1
      <3>2. ASSUME NEW k \in 1 .. Len(m.state) PROVE [item |-> "reasoning", of |-> i, id |-> m.state[k]] \in Item
        <4>1. m.state[k] = "r"
          BY <1>1
        <4> QED
          BY <4>1 DEF Item
      <3>3. A = [k \in 1 .. Len(m.state) |-> [item |-> "reasoning", of |-> i, id |-> m.state[k]]]
        BY <2>1, <3>1
      <3>4. A \in [1 .. Len(m.state) -> Item]
        BY <3>2, <3>3
      <3>5. A \in Seq(Item) /\ Len(A) = Len(m.state)
        <4> HIDE DEF A
        <4> QED
          BY <3>1, <3>4
      <3> QED
        BY <3>3, <3>5
    <2>2. CASE m.role # "assistant"
      <3>1. A = <<>>
        BY <2>2
      <3> QED
        BY <3>1
    <2> QED
      BY <2>1, <2>2
  <1>3. B \in Seq(Item) /\ \A k \in 1 .. Len(B) : B[k].item = "message" /\ B[k].of = i
    <2>1. [item |-> "message", of |-> i, id |-> NoId] \in Item
      BY DEF Item
    <2> DEFINE x == [item |-> "message", of |-> i, id |-> NoId]
    <2>2. x \in Item /\ x.item = "message" /\ x.of = i
      BY <2>1
    <2>3. B = <<x>> \/ B = <<>>
      OBVIOUS
    <2> HIDE DEF x, B
    <2>4. CASE B = <<x>>
      <3>1. <<x>> \in Seq(Item) /\ \A k \in 1 .. Len(<<x>>) : <<x>>[k] = x
        BY <2>2
      <3> QED
        BY <2>2, <2>4, <3>1
    <2>5. CASE B = <<>>
      BY <2>5
    <2> QED
      BY <2>3, <2>4, <2>5
  <1>4. C \in Seq(Item) /\ Len(C) = Len(m.calls) /\ \A k \in 1 .. Len(C) : C[k].item = "call" /\ C[k].of = i /\ C[k].id = m.calls[k]
    <2>1. DOMAIN m.calls = 1 .. Len(m.calls) /\ Len(m.calls) \in Nat
      BY <1>1
    <2>2. ASSUME NEW k \in 1 .. Len(m.calls) PROVE [item |-> "call", of |-> i, id |-> m.calls[k]] \in Item
      <3>1. m.calls[k] \in CallIds
        BY <1>1
      <3> QED
        BY <3>1 DEF Item
    <2>3. C = [k \in 1 .. Len(m.calls) |-> [item |-> "call", of |-> i, id |-> m.calls[k]]]
      BY <2>1
    <2>4. C \in [1 .. Len(m.calls) -> Item]
      BY <2>2, <2>3
    <2>5. C \in Seq(Item) /\ Len(C) = Len(m.calls)
      BY <2>1, <2>4
    <2> QED
      BY <2>3, <2>5
  <1>5. Speech(m, i) = (A \o B) \o C
    BY DEF Speech
  <1> HIDE DEF A, B, C
  <1> DEFINE AB == A \o B
             S == AB \o C
             r == Len(A)
             b == Len(AB)
  <1>6. /\ AB \in Seq(Item) /\ b = r + Len(B) /\ r \in Nat /\ Len(B) \in Nat /\ b \in Nat /\ r <= b
        /\ \A k \in 1 .. r : AB[k] = A[k]
        /\ \A k \in 1 .. Len(B) : AB[r + k] = B[k]
    <2>1. AB \in Seq(Item) /\ b = r + Len(B) /\ r \in Nat /\ Len(B) \in Nat
      BY <1>2, <1>3, CatIs
    <2>2. b \in Nat /\ r <= b
      BY <2>1
    <2>3. (\A k \in 1 .. r : AB[k] = A[k]) /\ \A k \in 1 .. Len(B) : AB[r + k] = B[k]
      BY <1>2, <1>3, CatIs
    <2> QED
      BY <2>1, <2>2, <2>3
  <1>7. ASSUME NEW k \in 1 .. b PROVE AB[k].of = i /\ (k <= r <=> AB[k].item = "reasoning") /\ AB[k].item \in {"reasoning", "message"}
    <2>1. CASE k <= r
      <3>1. k \in 1 .. r
        BY <1>6, <2>1
      <3> QED
        BY <1>2, <1>6, <2>1, <3>1
    <2>2. CASE ~(k <= r)
      <3>1. k - r \in 1 .. Len(B) /\ r + (k - r) = k
        BY <1>6, <2>2
      <3> DEFINE l == k - r
      <3>2. l \in 1 .. Len(B) /\ r + l = k
        BY <3>1
      <3> HIDE DEF l
      <3>3. AB[k] = B[l]
        BY <1>6, <3>2
      <3> QED
        BY <1>3, <2>2, <3>2, <3>3
    <2> QED
      BY <2>1, <2>2
  <1>8. /\ S \in Seq(Item) /\ Len(S) = b + Len(C) /\ Len(C) \in Nat
        /\ \A k \in 1 .. b : S[k] = AB[k]
        /\ \A k \in 1 .. Len(C) : S[b + k] = C[k]
    <2> HIDE DEF AB
    <2>0. AB \in Seq(Item) /\ C \in Seq(Item)
      BY <1>4, <1>6
    <2>1. S \in Seq(Item) /\ Len(S) = b + Len(C) /\ Len(C) \in Nat
      BY <2>0, CatIs
    <2>2. \A k \in 1 .. b : S[k] = AB[k]
      BY <2>0, CatIs
    <2>3. \A k \in 1 .. Len(C) : S[b + k] = C[k]
      BY <2>0, CatIs
    <2> QED
      BY <2>1, <2>2, <2>3
  <1> HIDE DEF AB, S, r, b
  <1>9. ASSUME NEW k \in 1 .. Len(S)
        PROVE  /\ S[k].of = i
               /\ k <= r <=> S[k].item = "reasoning"
               /\ S[k].item = "call" <=> k > b
               /\ k > b => S[k].id = m.calls[k - b]
               /\ S[k].item = "output" => m.role = "tool" /\ S[k].id = m.answers
    <2>1. CASE k <= b
      <3>1. k \in 1 .. b
        BY <1>6, <2>1
      <3>2. S[k].of = i /\ (k <= r <=> S[k].item = "reasoning") /\ S[k].item \in {"reasoning", "message"}
        BY <1>7, <1>8, <3>1
      <3>3. S[k].item # "call" /\ S[k].item # "output"
        BY <3>2
      <3>4. ~(k > b)
        BY <1>6, <2>1, <3>1
      <3> QED
        BY <3>2, <3>3, <3>4
    <2>2. CASE ~(k <= b)
      <3> DEFINE l == k - b
      <3>1. l \in 1 .. Len(C) /\ b + l = k /\ k > b /\ ~(k <= r)
        <4>1. k \in Nat /\ b \in Nat /\ r \in Nat /\ r <= b /\ k <= b + Len(C) /\ Len(C) \in Nat
          BY <1>6, <1>8
        <4>2. k > b /\ ~(k <= r)
          BY <2>2, <4>1
        <4> QED
          BY <4>1, <4>2, Offset
      <3>2. k - b = l
        OBVIOUS
      <3> HIDE DEF l
      <3>3. S[k] = C[l]
        BY <1>8, <3>1
      <3>4. S[k].of = i /\ S[k].item = "call" /\ S[k].id = m.calls[l]
        BY <1>4, <3>1, <3>3
      <3>5. S[k].item # "reasoning" /\ S[k].item # "output"
        BY <3>4
      <3> QED
        BY <3>1, <3>2, <3>4, <3>5
    <2> QED
      BY <2>1, <2>2
  <1>10. ShapeAt(S, m, i, r, b)
    BY <1>4, <1>6, <1>8, <1>9 DEF ShapeAt
  <1>11. Speech(m, i) = S
    BY <1>5 DEF S, AB
  <1> QED
    BY <1>6, <1>10, <1>11 DEF Shaped
\* What is left of a message that fits.
LEMMA ItemsShaped ==
  ASSUME NEW h \in Seq(ReqMessage), NEW i \in 1 .. Len(h), FitsAt(h, i)
  PROVE  Shaped(Items(h, i), h[i], i) /\ Items(h, i) \in Seq(Item) /\ (h[i].role # "system" => Len(Items(h, i)) > 0)
  <1>1. h[i] \in ReqMessage /\ i \in Nat
    OBVIOUS
  <1>2. h[i].role \in {"system", "user", "assistant", "tool"} /\ h[i].answers \in CallIds \cup {NoId} /\ h[i].calls \in Seq(CallIds)
        /\ h[i].content \in {"none", "", "text"}
    BY <1>1 DEF ReqMessage
  <1>3. CASE h[i].role = "system"
    <2>1. Items(h, i) = <<>> /\ h[i].calls = <<>>
      BY <1>3 DEF Items, FitsAt
    <2>2. ShapeAt(<<>>, h[i], i, 0, 0)
      BY <2>1 DEF ShapeAt
    <2>3. <<>> \in Seq(Item)
      OBVIOUS
    <2> QED
      BY <1>3, <2>1, <2>2, <2>3 DEF Shaped
  <1>4. CASE h[i].role = "tool"
    <2> DEFINE x == [item |-> "output", of |-> i, id |-> h[i].answers]
    <2>1. Items(h, i) = <<x>> /\ h[i].calls = <<>>
      BY <1>4 DEF Items, FitsAt, OutputFits
    <2>2. x \in Item /\ x.item = "output" /\ x.of = i /\ x.id = h[i].answers
      BY <1>1, <1>2 DEF Item
    <2> HIDE DEF x
    <2>3. <<x>> \in Seq(Item) /\ Len(<<x>>) = 1 /\ \A k \in 1 .. 1 : <<x>>[k] = x
      BY <2>2
    <2>4. ShapeAt(<<x>>, h[i], i, 0, 1)
      <3>1. Len(h[i].calls) = 0
        BY <2>1
      <3>2. ASSUME NEW k \in 1 .. 1 PROVE k = 1 /\ <<x>>[k] = x /\ ~(k <= 0) /\ ~(k > 1)
        BY <2>3
      <3> QED
        BY <1>4, <2>2, <2>3, <3>1, <3>2 DEF ShapeAt
    <2> QED
      BY <1>4, <2>1, <2>3, <2>4 DEF Shaped
  <1>5. CASE h[i].role \notin {"system", "tool"}
    <2>1. Items(h, i) = Speech(h[i], i) /\ SpeechFits(h, i)
      BY <1>5 DEF Items, FitsAt
    <2>2. PICK r \in Nat : \E b \in Nat : ShapeAt(Speech(h[i], i), h[i], i, r, b)
      BY <1>1, SpeechShaped DEF Shaped
    <2>3. PICK b \in Nat : ShapeAt(Speech(h[i], i), h[i], i, r, b)
      BY <2>2
    <2>4. Speech(h[i], i) \in Seq(Item) /\ Len(Speech(h[i], i)) = b + Len(h[i].calls)
      BY <2>3 DEF ShapeAt
    <2>5. Len(Speech(h[i], i)) > 0
      <3>1. CASE h[i].calls # <<>>
        <4>1. Len(h[i].calls) \in Nat /\ Len(h[i].calls) # 0
          BY <1>2, <3>1, EmptyIs
        <4> QED
          BY <2>4, <4>1
      <3>2. CASE h[i].calls = <<>>
        <4>1. h[i].content = "text" \/ (h[i].content = "" /\ h[i].calls = <<>>)
          BY <1>2, <2>1, <3>2 DEF SpeechFits
        <4> DEFINE A == IF h[i].role = "assistant" THEN [k \in DOMAIN h[i].state |-> [item |-> "reasoning", of |-> i, id |-> h[i].state[k]]] ELSE <<>>
                   x == [item |-> "message", of |-> i, id |-> NoId]
                   C == [k \in DOMAIN h[i].calls |-> [item |-> "call", of |-> i, id |-> h[i].calls[k]]]
        <4>2. Speech(h[i], i) = (A \o <<x>>) \o C
          BY <4>1 DEF Speech
        <4>3. C = <<>>
          BY <3>2
        <4>4. \E T : A \in Seq(T) /\ x \in T
          <5>1. h[i].state \in Seq({"r"})
            BY <1>1 DEF ReqMessage
          <5> DEFINE F(k) == [item |-> "reasoning", of |-> i, id |-> h[i].state[k]]
                     T == {F(k) : k \in 1 .. Len(h[i].state)} \cup {x}
          <5>2. CASE h[i].role = "assistant"
            <6>1. Len(h[i].state) \in Nat /\ DOMAIN h[i].state = 1 .. Len(h[i].state)
              BY <5>1
            <6>2. A = [k \in 1 .. Len(h[i].state) |-> F(k)]
              BY <5>2, <6>1
            <6>3. A \in [1 .. Len(h[i].state) -> T]
              BY <6>2
            <6>4. A \in Seq(T) /\ x \in T
              <7> HIDE DEF A, T
              <7>1. A \in Seq(T)
                BY <6>1, <6>3
              <7> QED
                BY <7>1 DEF T
            <6> QED
              BY <6>4
          <5>3. CASE h[i].role # "assistant"
            <6>1. A = <<>>
              BY <5>3
            <6>2. A \in Seq({x})
              BY <6>1
            <6> QED
              BY <6>2
          <5> QED
            BY <5>2, <5>3
        <4> HIDE DEF A, x, C
        <4>5. PICK T : A \in Seq(T) /\ x \in T
          BY <4>4
        <4>6. <<x>> \in Seq(T) /\ C \in Seq(T)
          BY <4>3, <4>5
        <4>7. (A \o <<x>>) \in Seq(T) /\ Len(A \o <<x>>) = Len(A) + 1 /\ Len(A) \in Nat
          BY <4>5, <4>6, CatIs
        <4>8. Len((A \o <<x>>) \o C) = Len(A) + 1
          BY <4>3, <4>7
        <4> QED
          BY <4>2, <4>7, <4>8
      <3> QED
        BY <3>1, <3>2
    <2>6. Shaped(Items(h, i), h[i], i)
      BY <2>1, <2>3 DEF Shaped
    <2> QED
      BY <2>1, <2>4, <2>5, <2>6
  <1> QED
    BY <1>2, <1>3, <1>4, <1>5

AllFit(h) == h \in Seq(ReqMessage) /\ \A i \in 1 .. Len(h) : FitsAt(h, i)
\* add_input_messages puts the items of each message behind those before.
LEMMA InputIs ==
  ASSUME NEW h, AllFit(h)
  PROVE  \E u, w : IsChain(Item, u, w, Len(h)) /\ (\A i \in 1 .. Len(h) : w[i] = Items(h, i)) /\ Input(h) = u[Len(h)]
  <1> DEFINE N == Len(h)
             w == [i \in 1 .. N |-> Items(h, i)]
             Solves(u) == u = [n \in 0 .. N |-> IF n = 0 THEN <<>> ELSE u[n - 1] \o Items(h, n)]
             c == CHOOSE u : Solves(u)
             step == [p \in Seq(Item) \X Nat |-> IF p[2] \in 1 .. N THEN p[1] \o w[p[2]] ELSE p[1]]
  <1>1. h \in Seq(ReqMessage) /\ N \in Nat
    BY DEF AllFit
  <1>2. w \in [1 .. N -> Seq(Item)] /\ \A i \in 1 .. N : w[i] = Items(h, i)
    <2>1. ASSUME NEW i \in 1 .. N PROVE Items(h, i) \in Seq(Item)
      BY <1>1, ItemsShaped DEF AllFit
    <2> QED
      BY <2>1
  <1> HIDE DEF w
  <1>3. step \in [Seq(Item) \X Nat -> Seq(Item)]
    <2>1. ASSUME NEW s \in Seq(Item), NEW n \in Nat PROVE step[<<s, n>>] \in Seq(Item) /\ step[<<s, n>>] = IF n \in 1 .. N THEN s \o w[n] ELSE s
      <3>1. CASE n \in 1 .. N
        <4>1. w[n] \in Seq(Item)
          BY <1>2, <3>1
        <4>2. s \o w[n] \in Seq(Item)
          BY <4>1, CatIs
        <4> QED
          BY <3>1, <4>2
      <3>2. CASE n \notin 1 .. N
        BY <3>2
      <3> QED
        BY <3>1, <3>2
    <2>2. ASSUME NEW p \in Seq(Item) \X Nat PROVE (IF p[2] \in 1 .. N THEN p[1] \o w[p[2]] ELSE p[1]) \in Seq(Item)
      <3>1. p[1] \in Seq(Item) /\ p[2] \in Nat
        OBVIOUS
      <3>2. CASE p[2] \in 1 .. N
        <4>1. w[p[2]] \in Seq(Item)
          BY <1>2, <3>2
        <4> DEFINE s == p[1]
                   t == w[p[2]]
        <4>2. s \in Seq(Item) /\ t \in Seq(Item)
          BY <3>1, <4>1
        <4> HIDE DEF s, t
        <4>3. s \o t \in Seq(Item)
          BY <4>2, CatIs
        <4> QED
          BY <3>2, <4>3 DEF s, t
      <3>3. CASE p[2] \notin 1 .. N
        BY <3>1, <3>3
      <3> QED
        BY <3>2, <3>3
    <2> QED
      BY <2>2
  <1>4. ASSUME NEW s \in Seq(Item), NEW n \in 1 .. N PROVE step[<<s, n>>] = s \o w[n]
    <2>1. <<s, n>> \in Seq(Item) \X Nat
      BY <1>1
    <2> QED
      BY <2>1
  <1> HIDE DEF step
  <1>5. <<>> \in Seq(Item)
    OBVIOUS
  <1>6. PICK f : IsFold(f, Seq(Item), <<>>, step)
    BY <1>3, <1>5, FoldExists
  <1>7. \E u : Solves(u)
    <2> DEFINE u == [n \in 0 .. N |-> f[n]]
    <2>1. ASSUME NEW n \in 0 .. N PROVE u[n] = IF n = 0 THEN <<>> ELSE u[n - 1] \o Items(h, n)
      <3>1. CASE n = 0
        BY <1>6, <3>1 DEF IsFold
      <3>2. CASE n # 0
        <4>1. n \in Nat /\ n \in 1 .. N /\ n - 1 \in 0 .. N /\ n - 1 \in Nat
          BY <1>1, <3>2
        <4>2. f[n] = step[<<f[n - 1], n>>] /\ f[n - 1] \in Seq(Item)
          BY <1>6, <3>2, <4>1 DEF IsFold
        <4>3. f[n] = f[n - 1] \o w[n]
          BY <1>4, <4>1, <4>2
        <4> QED
          BY <1>2, <3>2, <4>1, <4>3
      <3> QED
        BY <3>1, <3>2
    <2>3. u = [n \in 0 .. N |-> u[n]]
      OBVIOUS
    <2> HIDE DEF u
    <2>2. Solves(u)
      BY <2>1, <2>3
    <2> QED
      BY <2>2
  <1>8. Solves(c)
    <2> HIDE DEF Solves
    <2> QED
      BY <1>7
  <1>9. Input(h) = c[N]
    BY DEF Input
  <1> HIDE DEF c
  <1>10. c[0] = <<>> /\ \A n \in 1 .. N : c[n] = c[n - 1] \o w[n]
    <2>1. c[0] = <<>>
      BY <1>1, <1>8
    <2>2. ASSUME NEW n \in 1 .. N PROVE c[n] = c[n - 1] \o w[n]
      <3>1. n \in 0 .. N /\ n # 0
        BY <1>1
      <3>2. c[n] = c[n - 1] \o Items(h, n)
        BY <1>8, <3>1
      <3>3. w[n] = Items(h, n)
        BY <1>2
      <3> QED
        BY <3>2, <3>3
    <2> QED
      BY <2>1, <2>2
  <1>11. c \in [0 .. N -> Seq(Item)]
    <2> DEFINE Off == {n \in 0 .. N : c[n] \notin Seq(Item)}
    <2>1. Off = {}
      <3>1. SUFFICES ASSUME Off # {} PROVE FALSE
        OBVIOUS
      <3>2. Off \in SUBSET Nat
        BY <1>1
      <3>3. PICK n \in Off : \A k \in Off : n <= k
        <4> HIDE DEF Off
        <4> QED
          BY <3>1, <3>2, LeastNat
      <3>4. n # 0
        BY <1>5, <1>10, <3>3
      <3>5. n \in 1 .. N /\ n - 1 \in 0 .. N /\ ~(n <= n - 1)
        BY <1>1, <3>3, <3>4
      <3>6. c[n - 1] \in Seq(Item)
        BY <3>3, <3>5
      <3>7. w[n] \in Seq(Item) /\ c[n] = c[n - 1] \o w[n]
        BY <1>2, <1>10, <3>5
      <3>8. c[n] \in Seq(Item)
        BY <3>6, <3>7, CatIs
      <3> QED
        BY <3>3, <3>8
    <2>2. c = [n \in 0 .. N |-> c[n]]
      BY <1>8
    <2> QED
      BY <2>1, <2>2
  <1>12. IsChain(Item, c, w, N)
    BY <1>1, <1>2, <1>10, <1>11 DEF IsChain
  <1> QED
    BY <1>2, <1>9, <1>12

\* What the request says of a conversation that fits.
Went(h, input) ==
  /\ \A i, j \in DOMAIN input : i < j => input[i].of <= input[j].of
  /\ \A i \in DOMAIN h : h[i].role # "system" => \E j \in DOMAIN input : input[j].of = i
  /\ \A i, j \in DOMAIN input : /\ input[i].item = "call" /\ input[j].item = "call" /\ input[i].id = input[j].id => i = j
                                /\ input[i].item = "reasoning" /\ input[j].of = input[i].of /\ input[j].item # "reasoning" => i < j
  /\ \A j \in DOMAIN input : input[j].item = "output" => \E i \in 1 .. j - 1 : input[i].item = "call" /\ input[i].id = input[j].id
\* The place of an item: message n, of whose items it is the k-th.
StandsAt(h, u, w, N, j, n, k) ==
  /\ n \in 1 .. N /\ k \in 1 .. Len(w[n]) /\ Len(u[n - 1]) \in Nat /\ j = Len(u[n - 1]) + k /\ u[N][j] = w[n][k] /\ w[n][k].of = n
\* Each item of the input is one of a message.
LEMMA StandsSomewhere ==
  ASSUME NEW h, AllFit(h), NEW u, NEW w, IsChain(Item, u, w, Len(h)), \A i \in 1 .. Len(h) : w[i] = Items(h, i),
         NEW j \in 1 .. Len(u[Len(h)])
  PROVE  \E n, k \in Nat : StandsAt(h, u, w, Len(h), j, n, k)
  <1> DEFINE N == Len(h)
  <1>0. PICK n \in 1 .. N : FoundIn(u, w, N, n, j)
    BY ChainFinds
  <1>1. /\ Len(u[n - 1]) \in Nat /\ Len(u[n]) \in Nat /\ Len(u[n - 1]) < j /\ j <= Len(u[n])
        /\ j - Len(u[n - 1]) \in 1 .. Len(w[n]) /\ u[N][j] = w[n][j - Len(u[n - 1])]
    BY <1>0 DEF FoundIn
  <1> DEFINE k == j - Len(u[n - 1])
  <1>2. h \in Seq(ReqMessage) /\ FitsAt(h, n) /\ N \in Nat
    BY DEF AllFit
  <1>3. Shaped(w[n], h[n], n)
    BY <1>2, ItemsShaped
  <1>4. PICK r \in Nat : \E b \in Nat : ShapeAt(w[n], h[n], n, r, b)
    BY <1>3 DEF Shaped
  <1>5. PICK b \in Nat : ShapeAt(w[n], h[n], n, r, b)
    BY <1>4
  <1>6. k \in 1 .. Len(w[n]) /\ u[N][j] = w[n][k] /\ j \in Int
    BY <1>1
  <1>7. j = Len(u[n - 1]) + k
    BY <1>1, <1>6
  <1> HIDE DEF k
  <1>8. w[n][k].of = n
    BY <1>5, <1>6 DEF ShapeAt
  <1>9. n \in Nat /\ k \in Nat
    <2>1. Len(w[n]) \in Nat
      BY <1>5 DEF ShapeAt
    <2> QED
      BY <1>2, <1>6, <2>1
  <1> QED
    BY <1>1, <1>6, <1>7, <1>8, <1>9 DEF StandsAt
Again(h, u, w, n, k) ==
  Len(u[n - 1]) + k \in 1 .. Len(u[Len(h)]) /\ StandsAt(h, u, w, Len(h), Len(u[n - 1]) + k, n, k) /\ Len(u[n - 1]) + k <= Len(u[n])
\* Each item of a message stands in the input.
LEMMA FoundAgain ==
  ASSUME NEW h, AllFit(h), NEW u, NEW w, IsChain(Item, u, w, Len(h)), \A i \in 1 .. Len(h) : w[i] = Items(h, i),
         NEW n \in 1 .. Len(h), NEW k \in 1 .. Len(w[n])
  PROVE  Again(h, u, w, n, k)
  <1>1. Placed(u, w, Len(h), n, k)
    BY ChainHas
  <1>2. h \in Seq(ReqMessage) /\ FitsAt(h, n) /\ Len(h) \in Nat
    BY DEF AllFit
  <1>3. Shaped(w[n], h[n], n)
    BY <1>2, ItemsShaped
  <1>4. PICK r \in Nat : \E b \in Nat : ShapeAt(w[n], h[n], n, r, b)
    BY <1>3 DEF Shaped
  <1>5. PICK b \in Nat : ShapeAt(w[n], h[n], n, r, b)
    BY <1>4
  <1>6. w[n][k].of = n
    BY <1>5 DEF ShapeAt
  <1>7. Len(u[Len(h)]) \in Nat
    <2>1. Len(h) \in 0 .. Len(h) /\ u \in [0 .. Len(h) -> Seq(Item)]
      BY <1>2 DEF IsChain
    <2>2. u[Len(h)] \in Seq(Item)
      BY <2>1
    <2> QED
      BY <2>2
  <1>8. Len(u[n - 1]) + k \in 1 .. Len(u[n]) /\ Len(u[n]) \in Nat /\ Len(u[n]) <= Len(u[Len(h)])
    BY <1>1 DEF Placed
  <1>9. Len(u[n - 1]) + k \in 1 .. Len(u[Len(h)]) /\ Len(u[n - 1]) + k <= Len(u[n])
    BY <1>7, <1>8
  <1> QED
    BY <1>1, <1>6, <1>9 DEF Again, StandsAt, Placed
\* Items of an earlier message stand before those of a later one.
LEMMA EarlierBefore ==
  ASSUME NEW h, AllFit(h), NEW u, NEW w, IsChain(Item, u, w, Len(h)), \A i \in 1 .. Len(h) : w[i] = Items(h, i),
         NEW i, NEW j, NEW m \in Nat, NEW n \in Nat, NEW k \in Nat, NEW l \in Nat,
         StandsAt(h, u, w, Len(h), i, m, k), StandsAt(h, u, w, Len(h), j, n, l), m < n
  PROVE  i < j
  <1>1. m \in 1 .. Len(h) /\ k \in 1 .. Len(w[m]) /\ i = Len(u[m - 1]) + k /\ j = Len(u[n - 1]) + l /\ Len(u[n - 1]) \in Nat /\ l \in 1 .. Len(w[n])
        /\ n \in 1 .. Len(h)
    BY DEF StandsAt
  <1>2. i <= Len(u[m]) /\ Len(u[m - 1]) \in Nat
    <2>1. Again(h, u, w, m, k)
      BY <1>1, FoundAgain
    <2> QED
      BY <1>1, <2>1 DEF Again, StandsAt
  <1>3. Len(h) \in Nat
    BY DEF AllFit
  <1>4. m \in 0 .. Len(h) /\ n - 1 \in m .. Len(h)
    BY <1>1, <1>3
  <1>5. Begins(u[m], u[n - 1])
    BY <1>4, ChainGrows
  <1>6. Len(u[m]) <= Len(u[n - 1])
    BY <1>5 DEF Begins
  <1>7. u[m] \in Seq(Item)
    BY <1>4 DEF IsChain
  <1>8. Len(u[m]) \in Nat
    BY <1>7
  <1> HIDE DEF Item
  <1>9. i \in Nat /\ l >= 1
    BY <1>1, <1>2
  <1> DEFINE a == Len(u[m])
             b == Len(u[n - 1])
  <1>10. i <= a /\ a <= b /\ j = b + l /\ a \in Nat /\ b \in Nat
    BY <1>1, <1>2, <1>6, <1>8
  <1> HIDE DEF a, b
  <1> QED
    BY <1>9, <1>10
\* An item and its message.
LEMMA ItemOf ==
  ASSUME NEW h, AllFit(h), NEW n \in 1 .. Len(h)
  PROVE  \E r, b \in Nat : ShapeAt(Items(h, n), h[n], n, r, b)
  <1>1. h \in Seq(ReqMessage) /\ FitsAt(h, n)
    BY DEF AllFit
  <1> QED
    BY <1>1, ItemsShaped DEF Shaped
\* Only who speaks calls.
LEMMA CallsAreSpoken ==
  ASSUME NEW h, AllFit(h), NEW n \in 1 .. Len(h), h[n].calls # <<>>
  PROVE  h[n].role \notin {"system", "tool"} /\ SpeechFits(h, n)
  BY DEF AllFit, FitsAt, OutputFits
\* Two items of one call are one.
LEMMA CallOnce ==
  ASSUME NEW h, AllFit(h), NEW u, NEW w, IsChain(Item, u, w, Len(h)), \A i \in 1 .. Len(h) : w[i] = Items(h, i),
         NEW i, NEW j, NEW m \in Nat, NEW n \in Nat, NEW k \in Nat, NEW l \in Nat, m <= n,
         StandsAt(h, u, w, Len(h), i, m, k), StandsAt(h, u, w, Len(h), j, n, l),
         w[m][k].item = "call", w[n][l].item = "call", w[m][k].id = w[n][l].id
  PROVE  i = j
  <1>1. m \in 1 .. Len(h) /\ n \in 1 .. Len(h) /\ k \in 1 .. Len(w[m]) /\ l \in 1 .. Len(w[n]) /\ i = Len(u[m - 1]) + k /\ j = Len(u[n - 1]) + l
    BY DEF StandsAt
  <1>a. h \in Seq(ReqMessage) /\ h[m] \in ReqMessage /\ h[n] \in ReqMessage
    BY <1>1 DEF AllFit
  <1>b. h[m].calls \in Seq(CallIds) /\ h[n].calls \in Seq(CallIds)
    BY <1>a DEF ReqMessage
  <1>2. PICK r \in Nat : \E b \in Nat : ShapeAt(w[m], h[m], m, r, b)
    BY <1>1, ItemOf
  <1>3. PICK b \in Nat : ShapeAt(w[m], h[m], m, r, b)
    BY <1>2
  <1>4. PICK s \in Nat : \E c \in Nat : ShapeAt(w[n], h[n], n, s, c)
    BY <1>1, ItemOf
  <1>5. PICK c \in Nat : ShapeAt(w[n], h[n], n, s, c)
    BY <1>4
  <1>6. k > b /\ w[m][k].id = h[m].calls[k - b] /\ Len(w[m]) = b + Len(h[m].calls)
    BY <1>1, <1>3 DEF ShapeAt
  <1>7. l > c /\ w[n][l].id = h[n].calls[l - c] /\ Len(w[n]) = c + Len(h[n].calls)
    BY <1>1, <1>5 DEF ShapeAt
  <1> DEFINE x == k - b
             y == l - c
  <1>8. x \in 1 .. Len(h[m].calls) /\ y \in 1 .. Len(h[n].calls) /\ k = b + x /\ l = c + y /\ x \in Nat /\ y \in Nat
    <2>1. Len(h[m].calls) \in Nat /\ Len(h[n].calls) \in Nat
      BY <1>b
    <2>2. Len(w[m]) \in Nat /\ Len(w[n]) \in Nat
      <3>1. Len(w[m]) = b + Len(h[m].calls)
        BY <1>6
      <3>2. Len(w[n]) = c + Len(h[n].calls)
        BY <1>7
      <3> QED
        BY <2>1, <3>1, <3>2, SumNat
    <2>3. k <= Len(w[m]) /\ l <= Len(w[n])
      BY <1>1, <2>2, InRange
    <2>4. k <= b + Len(h[m].calls) /\ l <= c + Len(h[n].calls)
      BY <1>6, <1>7, <2>3
    <2>5. k - b \in 1 .. Len(h[m].calls) /\ k = b + (k - b) /\ k - b \in Nat
      BY <1>6, <2>1, <2>4, Offset
    <2>6. l - c \in 1 .. Len(h[n].calls) /\ l = c + (l - c) /\ l - c \in Nat
      BY <1>7, <2>1, <2>4, Offset
    <2> QED
      BY <2>5, <2>6
  <1>9. h[m].calls[x] = h[n].calls[y]
    BY <1>6, <1>7
  <1> HIDE DEF x, y
  <1>10. h[n].calls # <<>>
    BY <1>8, <1>b
  <1>11. ~Seen(h, n, y, h[n].calls[y])
    <2>1. SpeechFits(h, n)
      BY <1>1, <1>10, CallsAreSpoken
    <2>2. y \in DOMAIN h[n].calls
      BY <1>8, <1>b
    <2> QED
      BY <2>1, <2>2 DEF SpeechFits
  <1>12. ~(m < n)
    <2>1. SUFFICES ASSUME m < n PROVE FALSE
      OBVIOUS
    <2>2. h[m].calls[x] \in ToSet(h[m].calls)
      BY <1>8, <1>b DEF ToSet
    <2>3. m \in 1 .. n - 1
      BY <1>1, <2>1
    <2> QED
      BY <1>9, <1>11, <2>2, <2>3 DEF Seen, CalledBefore
  <1>13. m = n
    BY <1>12
  <1>14. b = c
    <2>1. Len(h[m].calls) \in Nat
      BY <1>b
    <2> QED
      BY <1>6, <1>7, <1>13, <2>1
  <1>15. ~(x < y)
    <2>1. SUFFICES ASSUME x < y PROVE FALSE
      OBVIOUS
    <2>2. x \in 1 .. y - 1
      BY <1>8, <2>1
    <2> QED
      BY <1>9, <1>11, <1>13, <2>2 DEF Seen
  <1>16. ~(y < x)
    <2>1. SUFFICES ASSUME y < x PROVE FALSE
      OBVIOUS
    <2>2. y \in 1 .. x - 1
      BY <1>8, <2>1
    <2>3. x \in DOMAIN h[n].calls /\ SpeechFits(h, n)
      BY <1>1, <1>8, <1>10, <1>13, <1>b, CallsAreSpoken
    <2>4. ~Seen(h, n, x, h[n].calls[x])
      BY <2>3 DEF SpeechFits
    <2> QED
      BY <1>9, <1>13, <2>2, <2>4 DEF Seen
  <1>17. x = y
    BY <1>8, <1>15, <1>16
  <1>18. k = l
    BY <1>8, <1>14, <1>17
  <1> QED
    BY <1>1, <1>13, <1>18
\* The call of an output stands before it.
LEMMA OutputBehind ==
  ASSUME NEW h, AllFit(h), NEW u, NEW w, IsChain(Item, u, w, Len(h)), \A i \in 1 .. Len(h) : w[i] = Items(h, i),
         NEW j, NEW n \in Nat, NEW l \in Nat, StandsAt(h, u, w, Len(h), j, n, l), w[n][l].item = "output"
  PROVE  \E m, k \in Nat : \E i : StandsAt(h, u, w, Len(h), i, m, k) /\ m < n /\ w[m][k].item = "call" /\ w[m][k].id = w[n][l].id
  <1>1. n \in 1 .. Len(h) /\ l \in 1 .. Len(w[n])
    BY DEF StandsAt
  <1>2. PICK s \in Nat : \E c \in Nat : ShapeAt(w[n], h[n], n, s, c)
    BY <1>1, ItemOf
  <1>3. PICK c \in Nat : ShapeAt(w[n], h[n], n, s, c)
    BY <1>2
  <1>4. h[n].role = "tool" /\ w[n][l].id = h[n].answers
    BY <1>1, <1>3 DEF ShapeAt
  <1>5. OutputFits(h, n)
    BY <1>1, <1>4 DEF AllFit, FitsAt
  <1>6. PICK m \in 1 .. n - 1 : h[n].answers \in ToSet(h[m].calls)
    BY <1>5 DEF OutputFits, CalledBefore
  <1>7. m \in 1 .. Len(h) /\ m \in Nat /\ m < n
    <2>1. Len(h) \in Nat
      BY DEF AllFit
    <2> QED
      BY <1>1, <1>6, <2>1
  <1>8. h[m] \in ReqMessage
    BY <1>7 DEF AllFit
  <1>9. h[m].calls \in Seq(CallIds)
    BY <1>8 DEF ReqMessage
  <1>10. PICK x \in 1 .. Len(h[m].calls) : h[n].answers = h[m].calls[x]
    <2>1. PICK x \in DOMAIN h[m].calls : h[n].answers = h[m].calls[x]
      BY <1>6 DEF ToSet
    <2>2. DOMAIN h[m].calls = 1 .. Len(h[m].calls)
      BY <1>9
    <2> QED
      BY <2>1, <2>2
  <1>11. PICK r \in Nat : \E b \in Nat : ShapeAt(w[m], h[m], m, r, b)
    BY <1>7, ItemOf
  <1>12. PICK b \in Nat : ShapeAt(w[m], h[m], m, r, b)
    BY <1>11
  <1> DEFINE k == b + x
  <1>13. k \in 1 .. Len(w[m]) /\ k > b /\ k - b = x /\ k \in Nat
    <2>1. Len(w[m]) = b + Len(h[m].calls) /\ Len(h[m].calls) \in Nat
      BY <1>9, <1>12 DEF ShapeAt
    <2> QED
      BY <2>1
  <1> HIDE DEF k
  <1>14. w[m][k].item = "call" /\ w[m][k].id = h[m].calls[x]
    BY <1>12, <1>13 DEF ShapeAt
  <1>15. Again(h, u, w, m, k)
    BY <1>7, <1>13, FoundAgain
  <1>16. StandsAt(h, u, w, Len(h), Len(u[m - 1]) + k, m, k)
    BY <1>15 DEF Again
  <1> QED
    BY <1>4, <1>7, <1>10, <1>13, <1>14, <1>16
\* The input of a history that fits answers each call once, behind it.
LEMMA InputWent ==
  ASSUME NEW h, AllFit(h), NEW i0 \in 1 .. Len(h), h[i0].role # "system"
  PROVE  Input(h) # <<>> /\ Went(h, Input(h))
  <1>1. PICK u, w : IsChain(Item, u, w, Len(h)) /\ (\A i \in 1 .. Len(h) : w[i] = Items(h, i)) /\ Input(h) = u[Len(h)]
    BY InputIs
  <1> DEFINE N == Len(h)
             input == u[N]
  <1>2. h \in Seq(ReqMessage) /\ N \in Nat /\ DOMAIN h = 1 .. N
    BY DEF AllFit
  <1>3. input \in Seq(Item)
    <2>1. N \in 0 .. N /\ u \in [0 .. N -> Seq(Item)]
      BY <1>1, <1>2 DEF IsChain
    <2> QED
      BY <2>1
  <1>4. DOMAIN input = 1 .. Len(input) /\ Len(input) \in Nat
    BY <1>3
  <1> HIDE DEF input
  <1>5. ASSUME NEW j \in DOMAIN input PROVE \E n, k \in Nat : StandsAt(h, u, w, N, j, n, k)
    BY <1>1, <1>4, StandsSomewhere DEF input
  <1>6. ASSUME NEW i \in DOMAIN input, NEW j \in DOMAIN input, i < j PROVE input[i].of <= input[j].of
    <2>1. PICK m \in Nat : \E k \in Nat : StandsAt(h, u, w, N, i, m, k)
      BY <1>5
    <2>2. PICK k \in Nat : StandsAt(h, u, w, N, i, m, k)
      BY <2>1
    <2>3. PICK n \in Nat : \E l \in Nat : StandsAt(h, u, w, N, j, n, l)
      BY <1>5
    <2>4. PICK l \in Nat : StandsAt(h, u, w, N, j, n, l)
      BY <2>3
    <2>5. n < m => j < i
      BY <1>1, <2>2, <2>4, EarlierBefore
    <2>6. i \in Nat /\ j \in Nat
      BY <1>4
    <2>7. m <= n
      BY <1>6, <2>5, <2>6
    <2>8. input[i].of = m /\ input[j].of = n
      BY <2>2, <2>4 DEF StandsAt, input
    <2> QED
      BY <2>7, <2>8
  <1>7. ASSUME NEW i \in DOMAIN h, h[i].role # "system" PROVE \E j \in DOMAIN input : input[j].of = i
    <2>1. Items(h, i) \in Seq(Item) /\ Len(Items(h, i)) > 0
      BY <1>2, <1>7, ItemsShaped DEF AllFit
    <2>2. 1 \in 1 .. Len(w[i])
      BY <1>1, <1>2, <2>1
    <2>3. Again(h, u, w, i, 1)
      BY <1>1, <1>2, <2>2, FoundAgain
    <2> QED
      BY <1>4, <2>3 DEF Again, StandsAt, input
  <1>8. input # <<>>
    <2>1. i0 \in DOMAIN h
      BY <1>2
    <2>2. PICK j \in DOMAIN input : input[j].of = i0
      BY <1>7, <2>1
    <2> QED
      BY <1>4, <2>2
  <1>9. ASSUME NEW i \in DOMAIN input, NEW j \in DOMAIN input, input[i].item = "call", input[j].item = "call", input[i].id = input[j].id PROVE i = j
    <2>1. PICK m \in Nat : \E k \in Nat : StandsAt(h, u, w, N, i, m, k)
      BY <1>5
    <2>2. PICK k \in Nat : StandsAt(h, u, w, N, i, m, k)
      BY <2>1
    <2>3. PICK n \in Nat : \E l \in Nat : StandsAt(h, u, w, N, j, n, l)
      BY <1>5
    <2>4. PICK l \in Nat : StandsAt(h, u, w, N, j, n, l)
      BY <2>3
    <2>5. input[i] = w[m][k] /\ input[j] = w[n][l]
      BY <2>2, <2>4 DEF StandsAt, input
    <2>6. w[m][k].item = "call" /\ w[n][l].item = "call" /\ w[m][k].id = w[n][l].id
      BY <1>9, <2>5
    <2>7. CASE m <= n
      BY <1>1, <2>2, <2>4, <2>6, <2>7, CallOnce
    <2>8. CASE ~(m <= n)
      <3>1. n <= m
        BY <2>8
      <3> QED
        BY <1>1, <2>2, <2>4, <2>6, <3>1, CallOnce
    <2> QED
      BY <2>7, <2>8
  <1>10. ASSUME NEW i \in DOMAIN input, NEW j \in DOMAIN input, input[i].item = "reasoning", input[j].of = input[i].of, input[j].item # "reasoning" PROVE i < j
    <2>1. PICK m \in Nat : \E k \in Nat : StandsAt(h, u, w, N, i, m, k)
      BY <1>5
    <2>2. PICK k \in Nat : StandsAt(h, u, w, N, i, m, k)
      BY <2>1
    <2>3. PICK n \in Nat : \E l \in Nat : StandsAt(h, u, w, N, j, n, l)
      BY <1>5
    <2>4. PICK l \in Nat : StandsAt(h, u, w, N, j, n, l)
      BY <2>3
    <2>5. input[i] = w[m][k] /\ input[j] = w[n][l] /\ w[m][k].of = m /\ w[n][l].of = n /\ m \in 1 .. N /\ k \in 1 .. Len(w[m]) /\ l \in 1 .. Len(w[n])
      BY <2>2, <2>4 DEF StandsAt, input
    <2>6. m = n
      BY <1>10, <2>5
    <2>7. PICK r \in Nat : \E b \in Nat : ShapeAt(w[m], h[m], m, r, b)
      BY <1>1, <2>5, ItemOf
    <2>8. PICK b \in Nat : ShapeAt(w[m], h[m], m, r, b)
      BY <2>7
    <2>9. k <= r /\ ~(l <= r)
      BY <1>10, <2>5, <2>6, <2>8 DEF ShapeAt
    <2>10. Len(u[m - 1]) \in Nat /\ i = Len(u[m - 1]) + k /\ j = Len(u[m - 1]) + l
      BY <2>2, <2>4, <2>6 DEF StandsAt
    <2> QED
      BY <2>9, <2>10
  <1>11. ASSUME NEW j \in DOMAIN input, input[j].item = "output" PROVE \E i \in 1 .. j - 1 : input[i].item = "call" /\ input[i].id = input[j].id
    <2>3. PICK n \in Nat : \E l \in Nat : StandsAt(h, u, w, N, j, n, l)
      BY <1>5
    <2>4. PICK l \in Nat : StandsAt(h, u, w, N, j, n, l)
      BY <2>3
    <2>5. input[j] = w[n][l]
      BY <2>4 DEF StandsAt, input
    <2>6. \E m, k \in Nat : \E i : StandsAt(h, u, w, N, i, m, k) /\ m < n /\ w[m][k].item = "call" /\ w[m][k].id = w[n][l].id
      BY <1>1, <1>11, <2>4, <2>5, OutputBehind
    <2>7. PICK m \in Nat : \E k \in Nat : \E i : StandsAt(h, u, w, N, i, m, k) /\ m < n /\ w[m][k].item = "call" /\ w[m][k].id = w[n][l].id
      BY <2>6
    <2>8. PICK k \in Nat : \E i : StandsAt(h, u, w, N, i, m, k) /\ m < n /\ w[m][k].item = "call" /\ w[m][k].id = w[n][l].id
      BY <2>7
    <2>9. PICK i : StandsAt(h, u, w, N, i, m, k) /\ m < n /\ w[m][k].item = "call" /\ w[m][k].id = w[n][l].id
      BY <2>8
    <2>10. i < j
      BY <1>1, <2>4, <2>9, EarlierBefore
    <2>11. m \in 1 .. N /\ k \in 1 .. Len(w[m]) /\ Len(u[m - 1]) \in Nat /\ i = Len(u[m - 1]) + k /\ input[i] = w[m][k]
      BY <2>9 DEF StandsAt, input
    <2>12. i \in 1 .. j - 1
      <3>1. i \in Nat /\ i >= 1 /\ j \in Nat
        BY <1>4, <2>11
      <3> QED
        BY <2>10, <3>1
    <2> QED
      BY <2>5, <2>9, <2>11, <2>12
  <1>12. Went(h, input)
    BY <1>6, <1>7, <1>9, <1>10, <1>11 DEF Went
  <1>13. input = Input(h)
    BY <1>1 DEF input
  <1> QED
    BY <1>8, <1>12, <1>13

\* ---- the conversations of Codex and compatible streams ----
Steady == {"codex", "compat"}
\* The names of calls are used up to the next.
Below(h, f) == \A i \in 1 .. Len(h) : \A k \in 1 .. Len(h[i].calls) : \E n \in Nat : n < f /\ h[i].calls[k] = Id(n)
Spoken(h) == \E i \in 1 .. Len(h) : h[i].role # "system"
\* Every message fits, with what it is before it; the calls that wait for an answer
\* are those of the last message.
Goes(h, w, a, f) ==
  /\ f \in Nat /\ AllFit(h) /\ Below(h, f)
  /\ a = "tools" => Len(h) > 0 /\ h[Len(h)].role = "assistant" /\ w = h[Len(h)].calls
  /\ a = "model" => Spoken(h)
MadeWhole(c) == c.history = <<>> \/ (AllFit(c.history) /\ Spoken(c.history) /\ c.body = Body(c.history, c.tools))
RequestInv == backends \subseteq Steady => Goes(history, waiting, asks, fresh) /\ MadeWhole(converted)

\* Whether a message fits depends on those before it alone.
LEMMA FitsSame ==
  ASSUME NEW h, NEW g, NEW i \in Nat, i >= 1, \A j \in 1 .. i : g[j] = h[j], FitsAt(h, i)
  PROVE  FitsAt(g, i)
  <1>1. g[i] = h[i] /\ \A j \in 1 .. i - 1 : g[j] = h[j]
    <2>1. i \in 1 .. i
      OBVIOUS
    <2>2. ASSUME NEW j \in 1 .. i - 1 PROVE j \in 1 .. i
      OBVIOUS
    <2> QED
      BY <2>1, <2>2
  <1>2. ASSUME NEW id PROVE CalledBefore(g, i, id) <=> CalledBefore(h, i, id)
    BY <1>1 DEF CalledBefore
  <1>3. ASSUME NEW id PROVE Answered(g, i, id) <=> Answered(h, i, id)
    BY <1>1 DEF Answered
  <1>4. ASSUME NEW k, NEW id PROVE Seen(g, i, k, id) <=> Seen(h, i, k, id)
    BY <1>1, <1>2 DEF Seen
  <1>5. CASE h[i].role = "system"
    BY <1>1, <1>5 DEF FitsAt
  <1>6. CASE h[i].role = "tool"
    <2>1. OutputFits(h, i)
      BY <1>6 DEF FitsAt
    <2>2. OutputFits(g, i)
      BY <1>1, <1>2, <1>3, <2>1 DEF OutputFits
    <2> QED
      BY <1>1, <1>6, <2>2 DEF FitsAt
  <1>7. CASE h[i].role \notin {"system", "tool"}
    <2>1. SpeechFits(h, i)
      BY <1>7 DEF FitsAt
    <2>2. SpeechFits(g, i)
      BY <1>1, <1>4, <2>1 DEF SpeechFits
    <2> QED
      BY <1>1, <1>7, <2>2 DEF FitsAt
  <1> QED
    BY <1>5, <1>6, <1>7
\* A conversation that goes on with a message that fits.
LEMMA OneMore ==
  ASSUME NEW h, NEW f, AllFit(h), Below(h, f), NEW m \in ReqMessage, NEW d \in Nat, f \in Nat, f <= d,
         FitsAt(Append(h, m), Len(h) + 1),
         \A k \in 1 .. Len(m.calls) : \E n \in Nat : n < d /\ m.calls[k] = Id(n)
  PROVE  AllFit(Append(h, m)) /\ Below(Append(h, m), d) /\ Len(Append(h, m)) = Len(h) + 1 /\ Append(h, m)[Len(h) + 1] = m
  <1> DEFINE g == Append(h, m)
  <1>1. h \in Seq(ReqMessage) /\ Len(h) \in Nat
    BY DEF AllFit
  <1>2. g \in Seq(ReqMessage) /\ Len(g) = Len(h) + 1 /\ g[Len(h) + 1] = m /\ \A j \in 1 .. Len(h) : g[j] = h[j]
    BY <1>1
  <1> HIDE DEF g
  <1>3. ASSUME NEW i \in 1 .. Len(g), i <= Len(h) PROVE i \in 1 .. Len(h) /\ g[i] = h[i] /\ FitsAt(g, i)
    <2>1. i \in 1 .. Len(h) /\ i \in Nat /\ i >= 1
      BY <1>1, <1>2, <1>3
    <2>2. FitsAt(h, i)
      BY <2>1 DEF AllFit
    <2>3. \A j \in 1 .. i : g[j] = h[j]
      BY <1>1, <1>2, <2>1
    <2> QED
      BY <1>2, <2>1, <2>2, <2>3, FitsSame
  <1>4. ASSUME NEW i \in 1 .. Len(g), ~(i <= Len(h)) PROVE i = Len(h) + 1
    BY <1>1, <1>2, <1>4
  <1>5. AllFit(g)
    <2>1. ASSUME NEW i \in 1 .. Len(g) PROVE FitsAt(g, i)
      BY <1>3, <1>4 DEF g
    <2> QED
      BY <1>2, <2>1 DEF AllFit
  <1>6. Below(g, d)
    <2>1. ASSUME NEW i \in 1 .. Len(g), NEW k \in 1 .. Len(g[i].calls) PROVE \E n \in Nat : n < d /\ g[i].calls[k] = Id(n)
      <3>1. CASE i <= Len(h)
        <4>1. i \in 1 .. Len(h) /\ g[i] = h[i]
          BY <1>3, <3>1
        <4>2. PICK n \in Nat : n < f /\ h[i].calls[k] = Id(n)
          BY <4>1 DEF Below
        <4> QED
          BY <4>1, <4>2
      <3>2. CASE ~(i <= Len(h))
        <4>1. g[i] = m
          BY <1>2, <1>4, <3>2
        <4> QED
          BY <4>1
      <3> QED
        BY <3>1, <3>2
    <2> QED
      BY <2>1 DEF Below
  <1> QED
    BY <1>2, <1>5, <1>6 DEF g
\* No history yet.
LEMMA RequestStart == RequestInit => RequestInv
  <1>1. SUFFICES ASSUME RequestInit PROVE RequestInv
    OBVIOUS
  <1> DEFINE m == Msg("system", "text")
  <1>2. m \in ReqMessage /\ m.role = "system" /\ m.content = "text" /\ m.calls = <<>>
    BY DEF Msg, ReqMessage
  <1> HIDE DEF m
  <1>3. history = <<m>> /\ fresh = 1 /\ asks = "user" /\ converted.history = <<>>
    BY <1>1 DEF RequestInit, m
  <1>4. history \in Seq(ReqMessage) /\ Len(history) = 1 /\ history[1] = m
    BY <1>2, <1>3
  <1>5. FitsAt(history, 1)
    BY <1>2, <1>4 DEF FitsAt
  <1>6. \A i \in 1 .. Len(history) : i = 1
    BY <1>4
  <1>7. AllFit(history)
    BY <1>4, <1>5, <1>6 DEF AllFit
  <1>8. Below(history, fresh)
    <2>1. Len(m.calls) = 0
      BY <1>2
    <2> QED
      BY <1>4, <1>6, <2>1 DEF Below
  <1> QED
    BY <1>3, <1>7, <1>8 DEF RequestInv, Goes, MadeWhole
\* What the user says.
LEMMA UserSafe == ASSUME RequestInv, UserSpeaks PROVE RequestInv'
  <1>1. SUFFICES ASSUME backends' \subseteq Steady PROVE Goes(history', waiting', asks', fresh') /\ MadeWhole(converted')
    BY DEF RequestInv, Goes, MadeWhole, AllFit, Below, Spoken
  <1>2. /\ history' = Append(history, Msg("user", "text")) /\ asks' = "model" /\ fresh' = fresh /\ converted' = converted /\ backends' = backends
    BY DEF UserSpeaks
  <1>3. Goes(history, waiting, asks, fresh) /\ MadeWhole(converted)
    BY <1>1, <1>2 DEF RequestInv
  <1> DEFINE m == Msg("user", "text")
             g == Append(history, m)
  <1>4. m \in ReqMessage /\ m.role = "user" /\ m.content = "text" /\ m.calls = <<>>
    BY DEF Msg, ReqMessage
  <1> HIDE DEF m
  <1>5. fresh \in Nat /\ AllFit(history) /\ Below(history, fresh) /\ history \in Seq(ReqMessage)
    BY <1>3 DEF Goes, AllFit
  <1>6. g[Len(history) + 1] = m /\ Len(g) = Len(history) + 1 /\ Len(history) \in Nat
    BY <1>4, <1>5
  <1> HIDE DEF g
  <1>7. FitsAt(g, Len(history) + 1)
    BY <1>4, <1>6 DEF FitsAt, SpeechFits
  <1>8. AllFit(g) /\ Below(g, fresh)
    <2>1. \A k \in 1 .. Len(m.calls) : \E n \in Nat : n < fresh /\ m.calls[k] = Id(n)
      BY <1>4
    <2> QED
      BY <1>4, <1>5, <1>7, <2>1, OneMore DEF g
  <1>9. Spoken(g)
    BY <1>4, <1>6 DEF Spoken
  <1>10. history' = g
    BY <1>2 DEF g, m
  <1> QED
    BY <1>2, <1>3, <1>5, <1>8, <1>9, <1>10 DEF Goes
\* Functions on one set with the same values are one.
IsMap(S, f) == f = [x \in S |-> f[x]]
AgreeOn(S, f, g) == \A x \in S : f[x] = g[x]
LEMMA Alike ==
  ASSUME NEW S, NEW f, NEW g, IsMap(S, f), IsMap(S, g), AgreeOn(S, f, g)
  PROVE  f = g
  <1>1. [x \in S |-> f[x]] = [x \in S |-> g[x]]
    BY DEF AgreeOn
  <1> QED
    BY <1>1 DEF IsMap
\* A message of the model's, field by field.
LEMMA Spelled ==
  ASSUME NEW x, NEW y, NEW z
  PROVE  [Msg("assistant", x) EXCEPT !.calls = y, !.state = z] = [role |-> "assistant", content |-> x, calls |-> y, answers |-> NoId, state |-> z]
  <1>1. Msg("assistant", x) = [role |-> "assistant", content |-> x, calls |-> <<>>, answers |-> NoId, state |-> <<>>]
    BY DEF Msg
  <1>2. [Msg("assistant", x) EXCEPT !.calls = y] = [role |-> "assistant", content |-> x, calls |-> y, answers |-> NoId, state |-> <<>>]
    BY <1>1
  <1>3. [Msg("assistant", x) EXCEPT !.calls = y, !.state = z] = [[Msg("assistant", x) EXCEPT !.calls = y] EXCEPT !.state = z]
    OBVIOUS
  <1>4. [[role |-> "assistant", content |-> x, calls |-> y, answers |-> NoId, state |-> <<>>] EXCEPT !.state = z]
          = [role |-> "assistant", content |-> x, calls |-> y, answers |-> NoId, state |-> z]
    OBVIOUS
  <1> QED
    BY <1>2, <1>3, <1>4
\* The model's message: its calls have names that are not used yet.
LEMMA AnswerSafe ==
  ASSUME NEW h, NEW f \in Nat, AllFit(h), Below(h, f), NEW n \in Nat, NEW m \in ReqMessage, m.role = "assistant", m.content # "none",
         Len(m.calls) = n, \A k \in 1 .. n : m.calls[k] = Id(f + k - 1)
  PROVE  AllFit(Append(h, m)) /\ Below(Append(h, m), f + n) /\ Len(Append(h, m)) = Len(h) + 1 /\ Append(h, m)[Len(h) + 1] = m
  <1> DEFINE c == m.calls
             g == Append(h, m)
  <1>1. c \in Seq(CallIds) /\ Len(c) = n /\ DOMAIN c = 1 .. n
    <2>1. c \in Seq(CallIds)
      BY DEF ReqMessage
    <2>2. Len(c) = n
      OBVIOUS
    <2> HIDE DEF c
    <2>3. DOMAIN c = 1 .. Len(c)
      BY <2>1
    <2> QED
      BY <2>1, <2>2, <2>3
  <1>2. \A k \in 1 .. n : c[k] = Id(f + k - 1)
    OBVIOUS
  <1>3. m.role = "assistant" /\ m.content # "none" /\ m.calls = c
    OBVIOUS
  <1> HIDE DEF c
  <1>5. h \in Seq(ReqMessage) /\ Len(h) \in Nat
    BY DEF AllFit
  <1>6. g[Len(h) + 1] = m /\ Len(g) = Len(h) + 1 /\ \A i \in 1 .. Len(h) : g[i] = h[i]
    BY <1>5
  <1> HIDE DEF g
  <1>7. ASSUME NEW k \in 1 .. n PROVE c[k] # NoId /\ ~Seen(g, Len(h) + 1, k, c[k])
    <2>1. c[k] = Id(f + k - 1) /\ f + k - 1 \in Nat
      BY <1>2
    <2>2. c[k] # NoId
      BY <2>1 DEF Id, NoId
    <2>3. ~CalledBefore(g, Len(h) + 1, c[k])
      <3>1. SUFFICES ASSUME NEW i \in 1 .. Len(h), c[k] \in ToSet(g[i].calls) PROVE FALSE
        BY <1>5 DEF CalledBefore
      <3>2. h[i] \in ReqMessage /\ g[i] = h[i]
        BY <1>5, <1>6
      <3>3. h[i].calls \in Seq(CallIds)
        BY <3>2 DEF ReqMessage
      <3>4. PICK x \in DOMAIN h[i].calls : c[k] = h[i].calls[x]
        BY <3>1, <3>2 DEF ToSet
      <3>5. x \in 1 .. Len(h[i].calls)
        BY <3>3
      <3>6. PICK p \in Nat : p < f /\ h[i].calls[x] = Id(p)
        BY <3>5 DEF Below
      <3>7. Id(p) = Id(f + k - 1)
        BY <2>1, <3>4, <3>6
      <3>8. p = f + k - 1
        BY <3>7 DEF Id
      <3> QED
        BY <3>6, <3>8
    <2>4. ASSUME NEW l \in 1 .. k - 1, g[Len(h) + 1].calls[l] = c[k] PROVE FALSE
      <3>1. l \in 1 .. n /\ c[l] = c[k]
        BY <1>3, <1>6, <2>4
      <3>2. Id(f + l - 1) = Id(f + k - 1)
        BY <1>2, <2>1, <3>1
      <3>3. f + l - 1 = f + k - 1
        BY <3>2 DEF Id
      <3> QED
        BY <3>3
    <2> QED
      BY <2>2, <2>3, <2>4 DEF Seen
  <1>8. FitsAt(g, Len(h) + 1)
    <2>1. SpeechFits(g, Len(h) + 1)
      BY <1>1, <1>3, <1>6, <1>7 DEF SpeechFits
    <2> QED
      BY <1>3, <1>6, <2>1 DEF FitsAt
  <1>9. ASSUME NEW k \in 1 .. Len(m.calls) PROVE \E p \in Nat : p < f + n /\ m.calls[k] = Id(p)
    <2>1. k \in 1 .. n /\ m.calls[k] = Id(f + k - 1) /\ f + k - 1 \in Nat /\ f + k - 1 < f + n
      BY <1>1, <1>2, <1>3
    <2> QED
      BY <2>1
  <1>10. f + n \in Nat /\ f <= f + n
    OBVIOUS
  <1> QED
    BY <1>8, <1>9, <1>10, OneMore DEF g
\* What the model says through one provider.
Turn(b, tools, n) ==
       LET body == Body(history, tools)
       IN /\ backends' = backends \cup {b}
          /\ converted' = IF b = "codex" THEN [history |-> history, tools |-> tools, body |-> body] ELSE converted
          /\ IF b = "codex" /\ ~body.ok THEN asks' = "user" /\ UNCHANGED <<history, waiting, fresh, counter>>
             ELSE \E content \in Contents(b) :
                    /\ content = "none" => n > 0
                    /\ history' = IF content = "none" THEN history
                                  ELSE Append(history, [Msg("assistant", content) EXCEPT !.calls = Names(b, n), !.state = IF b = "codex" THEN <<"r">> ELSE <<>>])
                    /\ waiting' = Names(b, n) /\ asks' = IF n = 0 THEN "user" ELSE "tools"
                    /\ fresh' = fresh + n /\ counter' = IF b = "ollama buffered" THEN counter + n ELSE counter
LEMMA ModelSafe == ASSUME RequestInv, ModelSpeaks PROVE RequestInv'
  <1>1. SUFFICES ASSUME backends' \subseteq Steady PROVE Goes(history', waiting', asks', fresh') /\ MadeWhole(converted')
    BY DEF RequestInv, Goes, MadeWhole, AllFit, Below, Spoken
  <1>2. PICK b \in Backends, tools \in ToolSets, n \in 0 .. MaxCallsEach : Turn(b, tools, n)
    BY DEF ModelSpeaks, Turn
  <1>3. backends \subseteq Steady /\ b \in Steady /\ asks = "model" /\ n \in Nat
    <2>1. backends' = backends \cup {b}
      BY <1>2 DEF Turn
    <2>2. n \in Nat
      BY RequestAssumption
    <2>3. asks = "model"
      BY DEF ModelSpeaks
    <2> QED
      BY <1>1, <2>1, <2>2, <2>3
  <1>4. Goes(history, waiting, asks, fresh) /\ MadeWhole(converted)
    BY <1>3 DEF RequestInv
  <1>5. fresh \in Nat /\ AllFit(history) /\ Below(history, fresh) /\ Spoken(history) /\ history \in Seq(ReqMessage)
    BY <1>3, <1>4 DEF Goes, AllFit
  <1>6. MadeWhole(converted')
    <2>1. CASE b = "codex"
      <3>1. converted' = [history |-> history, tools |-> tools, body |-> Body(history, tools)]
        BY <1>2, <2>1 DEF Turn
      <3> QED
        BY <1>5, <3>1 DEF MadeWhole
    <2>2. CASE b # "codex"
      BY <1>2, <1>4, <2>2 DEF Turn
    <2> QED
      BY <2>1, <2>2
  <1>7. CASE b = "codex" /\ ~Body(history, tools).ok
    <2>1. asks' = "user" /\ history' = history /\ fresh' = fresh
      BY <1>2, <1>7 DEF Turn
    <2> QED
      BY <1>5, <1>6, <2>1 DEF Goes
  <1>8. CASE ~(b = "codex" /\ ~Body(history, tools).ok)
    <2>1. PICK content \in Contents(b) :
                    /\ content = "none" => n > 0
                    /\ history' = IF content = "none" THEN history
                                  ELSE Append(history, [Msg("assistant", content) EXCEPT !.calls = Names(b, n), !.state = IF b = "codex" THEN <<"r">> ELSE <<>>])
                    /\ waiting' = Names(b, n) /\ asks' = IF n = 0 THEN "user" ELSE "tools"
                    /\ fresh' = fresh + n
      BY <1>2, <1>8 DEF Turn
    <2>2. content \in {"", "text"} /\ content # "none"
      BY <1>3, <2>1 DEF Contents, Steady
    <2> DEFINE st == IF b = "codex" THEN <<"r">> ELSE <<>>
               c == [k \in 1 .. n |-> Id(fresh + k - 1)]
               m == [role |-> "assistant", content |-> content, calls |-> c, answers |-> NoId, state |-> st]
    <2>3. Names(b, n) = c
      <3>1. b # "ollama" /\ b # "ollama buffered"
        BY <1>3 DEF Steady
      <3>2. ASSUME NEW k \in 1 .. n PROVE Names(b, n)[k] = c[k]
        <4>1. Names(b, n)[k] = (CASE b = "ollama" -> NoId [] b = "ollama buffered" -> NumberedId(counter + k - 1) [] OTHER -> Id(fresh + k - 1))
          BY DEF Names
        <4>2. Names(b, n)[k] = Id(fresh + k - 1)
          BY <3>1, <4>1
        <4> QED
          BY <4>2
      <3>3. IsMap(1 .. n, Names(b, n))
        BY DEF Names, IsMap
      <3>4. IsMap(1 .. n, c)
        BY DEF IsMap
      <3> HIDE DEF c
      <3>5. AgreeOn(1 .. n, Names(b, n), c)
        BY <3>2 DEF AgreeOn
      <3> QED
        BY <3>3, <3>4, <3>5, Alike
    <2>4. [Msg("assistant", content) EXCEPT !.calls = Names(b, n), !.state = st] = m
      <3> HIDE DEF c, st
      <3> QED
        BY <2>3, Spelled
    <2>5. st \in Seq({"r"})
      <3>1. <<"r">> \in Seq({"r"}) /\ <<>> \in Seq({"r"})
        OBVIOUS
      <3> QED
        BY <3>1
    <2>6. history' = Append(history, m)
      BY <2>1, <2>2, <2>4
    <2> HIDE DEF st
    <2>8. m.role = "assistant" /\ m.calls = c /\ m.content # "none"
      BY <2>2
    <2>12. c \in Seq(CallIds) /\ Len(c) = n /\ \A k \in 1 .. n : c[k] = Id(fresh + k - 1)
      <3>1. ASSUME NEW k \in 1 .. n PROVE Id(fresh + k - 1) \in CallIds
        <4>1. fresh + k - 1 \in Nat
          BY <1>3, <1>5
        <4> QED
          BY <4>1 DEF CallIds
      <3>2. c \in [1 .. n -> CallIds]
        BY <3>1
      <3>3. \A k \in 1 .. n : c[k] = Id(fresh + k - 1)
        OBVIOUS
      <3> HIDE DEF c
      <3> QED
        BY <1>3, <3>2, <3>3
    <2> HIDE DEF c
    <2>13. m \in ReqMessage
      BY <2>2, <2>5, <2>12 DEF ReqMessage
    <2> HIDE DEF m
    <2>14. Len(m.calls) = n /\ \A k \in 1 .. n : m.calls[k] = Id(fresh + k - 1)
      BY <2>8, <2>12
    <2>7. AllFit(Append(history, m)) /\ Below(Append(history, m), fresh + n) /\ Len(Append(history, m)) = Len(history) + 1
          /\ Append(history, m)[Len(history) + 1] = m
      BY <1>3, <1>5, <2>8, <2>13, <2>14, AnswerSafe
    <2>9. fresh + n \in Nat /\ Len(history) \in Nat /\ asks' # "model"
      BY <1>3, <1>5, <2>1
    <2>10. fresh' \in Nat /\ AllFit(history') /\ Below(history', fresh')
      BY <2>1, <2>6, <2>7, <2>9
    <2>11. Len(history') > 0 /\ history'[Len(history')].role = "assistant" /\ waiting' = history'[Len(history')].calls
      <3>1. Len(history') = Len(history) + 1 /\ history'[Len(history) + 1] = m
        BY <2>6, <2>7
      <3>2. history'[Len(history')] = m /\ Len(history') > 0
        BY <2>9, <3>1
      <3>3. waiting' = c
        BY <2>1, <2>3
      <3> QED
        BY <2>8, <3>2, <3>3
    <2> QED
      BY <1>6, <2>9, <2>10, <2>11 DEF Goes
  <1> QED
    BY <1>7, <1>8
\* A failure, a restart and a rest.
LEMMA StoppedSafe == ASSUME RequestInv, ModelFails \/ Restart \/ UNCHANGED requests PROVE RequestInv'
  <1>1. SUFFICES ASSUME backends' \subseteq Steady PROVE Goes(history', waiting', asks', fresh') /\ MadeWhole(converted')
    BY DEF RequestInv, Goes, MadeWhole, AllFit, Below, Spoken
  <1>2. /\ history' = history /\ waiting' = waiting /\ fresh' = fresh /\ converted' = converted /\ backends' = backends
        /\ asks' = "user" \/ asks' = asks
    BY DEF ModelFails, Restart, requests
  <1>3. Goes(history, waiting, asks, fresh) /\ MadeWhole(converted)
    BY <1>1, <1>2 DEF RequestInv
  <1> QED
    BY <1>2, <1>3 DEF Goes
\* The tools' messages answer the calls of the last response, each once.
LEMMA ToolsSafe == ASSUME RequestInv, ToolsRun PROVE RequestInv'
  <1>1. SUFFICES ASSUME backends' \subseteq Steady PROVE Goes(history', waiting', asks', fresh') /\ MadeWhole(converted')
    BY DEF RequestInv, Goes, MadeWhole, AllFit, Below, Spoken
  <1> DEFINE t == [k \in DOMAIN waiting |-> [Msg("tool", "text") EXCEPT !.answers = waiting[k]]]
             N == Len(history)
             last == history[N]
             g == history \o t
  <1>2. /\ history' = g /\ asks' = "model" /\ asks = "tools" /\ fresh' = fresh /\ converted' = converted /\ backends' = backends
    BY DEF ToolsRun
  <1>3. Goes(history, waiting, asks, fresh) /\ MadeWhole(converted)
    BY <1>1, <1>2 DEF RequestInv
  <1>4. /\ fresh \in Nat /\ AllFit(history) /\ Below(history, fresh) /\ history \in Seq(ReqMessage) /\ N \in Nat
        /\ N > 0 /\ last.role = "assistant" /\ waiting = last.calls
    BY <1>2, <1>3 DEF Goes, AllFit
  <1>5. N \in 1 .. N /\ last \in ReqMessage
    BY <1>4
  <1>6. waiting \in Seq(CallIds) /\ DOMAIN waiting = 1 .. Len(waiting) /\ Len(waiting) \in Nat
    <2>1. last.calls \in Seq(CallIds)
      BY <1>5 DEF ReqMessage
    <2>2. waiting \in Seq(CallIds)
      BY <1>4, <2>1
    <2> QED
      BY <2>2
  <1>7. SpeechFits(history, N)
    BY <1>4, <1>5 DEF AllFit, FitsAt
  <1>8. ASSUME NEW k \in 1 .. Len(waiting)
        PROVE  /\ t[k] \in ReqMessage /\ t[k].role = "tool" /\ t[k].content = "text" /\ t[k].calls = <<>> /\ t[k].answers = waiting[k]
    <2>1. t[k] = [role |-> "tool", content |-> "text", calls |-> <<>>, answers |-> waiting[k], state |-> <<>>]
      BY <1>6 DEF Msg
    <2>2. waiting[k] \in CallIds
      BY <1>6
    <2> HIDE DEF t
    <2> QED
      BY <2>1, <2>2 DEF ReqMessage
  <1>9. t \in Seq(ReqMessage) /\ Len(t) = Len(waiting)
    <2>1. t \in [1 .. Len(waiting) -> ReqMessage]
      <3>1. t = [k \in 1 .. Len(waiting) |-> t[k]]
        BY <1>6
      <3> HIDE DEF t
      <3> QED
        BY <1>8, <3>1
    <2> HIDE DEF t
    <2> QED
      BY <1>6, <2>1
  <1> HIDE DEF t
  <1>10. /\ g \in Seq(ReqMessage) /\ Len(g) = N + Len(t) /\ (\A j \in 1 .. N : g[j] = history[j])
         /\ \A j \in 1 .. Len(t) : g[N + j] = t[j]
    <2>1. history \in Seq(ReqMessage) /\ t \in Seq(ReqMessage)
      BY <1>4, <1>9
    <2>2. g \in Seq(ReqMessage) /\ Len(g) = N + Len(t)
      BY <2>1, CatIs
    <2>3. \A j \in 1 .. N : g[j] = history[j]
      BY <2>1, CatIs
    <2>4. \A j \in 1 .. Len(t) : g[N + j] = t[j]
      BY <2>1, CatIs
    <2> QED
      BY <2>2, <2>3, <2>4
  <1> HIDE DEF g
  <1>11. ASSUME NEW i \in 1 .. Len(g), i <= N PROVE i \in 1 .. N /\ g[i] = history[i] /\ FitsAt(g, i)
    <2>1. i \in 1 .. N /\ i \in Nat /\ i >= 1
      BY <1>4, <1>10, <1>11
    <2>2. FitsAt(history, i)
      BY <1>4, <2>1 DEF AllFit
    <2>3. \A j \in 1 .. i : g[j] = history[j]
      BY <1>4, <1>10, <2>1
    <2> QED
      BY <1>10, <2>1, <2>2, <2>3, FitsSame
  <1>12. ASSUME NEW i \in 1 .. Len(g), ~(i <= N) PROVE i - N \in 1 .. Len(waiting) /\ g[i] = t[i - N]
    <2> DEFINE k == i - N
    <2>1. k \in 1 .. Len(t) /\ N + k = i
      BY <1>4, <1>6, <1>9, <1>10, <1>12
    <2> HIDE DEF k
    <2>2. g[i] = t[k]
      BY <1>10, <2>1
    <2> QED
      BY <1>9, <2>1, <2>2 DEF k
  <1>13. ASSUME NEW i \in 1 .. N - 1, history[i].role = "tool" PROVE CalledBefore(history, i, history[i].answers)
    <2>1. i \in 1 .. N
      BY <1>4
    <2> QED
      BY <1>4, <1>13, <2>1 DEF AllFit, FitsAt, OutputFits
  <1>14. ASSUME NEW k \in 1 .. Len(waiting) PROVE OutputFits(g, N + k)
    <2>1. N + k \in 1 .. Len(g) /\ g[N + k] = t[k]
      BY <1>4, <1>6, <1>9, <1>10
    <2>2. g[N + k].answers = waiting[k] /\ g[N + k].content = "text" /\ g[N + k].calls = <<>>
      BY <1>8, <2>1
    <2>3. waiting[k] # NoId /\ ~Seen(history, N, k, waiting[k])
      BY <1>4, <1>6, <1>7 DEF SpeechFits
    <2>4. CalledBefore(g, N + k, waiting[k])
      <3>1. N \in 1 .. (N + k) - 1 /\ g[N] = last
        BY <1>4, <1>5, <1>10
      <3>2. waiting[k] \in ToSet(g[N].calls)
        BY <1>4, <1>6, <3>1 DEF ToSet
      <3> QED
        BY <3>1, <3>2 DEF CalledBefore
    <2>5. ~Answered(g, N + k, waiting[k])
      <3>1. SUFFICES ASSUME NEW i \in 1 .. (N + k) - 1, g[i].role = "tool", g[i].answers = waiting[k] PROVE FALSE
        BY DEF Answered
      <3>2. i \in 1 .. Len(g)
        BY <1>4, <2>1
      <3>3. CASE i <= N
        <4>1. i \in 1 .. N /\ g[i] = history[i]
          BY <1>11, <3>2, <3>3
        <4>2. i # N
          BY <1>4, <3>1, <4>1
        <4>3. i \in 1 .. N - 1
          BY <1>4, <4>1, <4>2
        <4>4. CalledBefore(history, i, waiting[k])
          BY <1>13, <3>1, <4>1, <4>3
        <4>5. CalledBefore(history, N, waiting[k])
          <5>1. PICK j \in 1 .. i - 1 : waiting[k] \in ToSet(history[j].calls)
            BY <4>4 DEF CalledBefore
          <5>2. j \in 1 .. N - 1
            BY <1>4, <4>3
          <5> QED
            BY <5>1, <5>2 DEF CalledBefore
        <4> QED
          BY <2>3, <4>5 DEF Seen
      <3>4. CASE ~(i <= N)
        <4> DEFINE l == i - N
        <4>1. l \in 1 .. Len(waiting) /\ g[i] = t[l]
          BY <1>12, <3>2, <3>4
        <4>2. l \in 1 .. k - 1
          BY <1>4, <3>4
        <4> HIDE DEF l
        <4>3. waiting[l] = waiting[k]
          BY <1>8, <3>1, <4>1
        <4>4. last.calls[l] = waiting[k]
          BY <1>4, <4>3
        <4> QED
          BY <2>3, <4>2, <4>4 DEF Seen
      <3> QED
        BY <3>3, <3>4
    <2> QED
      BY <2>2, <2>3, <2>4, <2>5 DEF OutputFits
  <1>15. AllFit(g)
    <2>1. ASSUME NEW i \in 1 .. Len(g) PROVE FitsAt(g, i)
      <3>1. CASE i <= N
        BY <1>11, <3>1
      <3>2. CASE ~(i <= N)
        <4> DEFINE k == i - N
        <4>1. k \in 1 .. Len(waiting) /\ g[i] = t[k] /\ N + k = i
          BY <1>4, <1>10, <1>12, <3>2
        <4> HIDE DEF k
        <4>2. OutputFits(g, i)
          BY <1>14, <4>1
        <4>3. g[i].role = "tool"
          BY <1>8, <4>1
        <4> QED
          BY <4>2, <4>3 DEF FitsAt
      <3> QED
        BY <3>1, <3>2
    <2> QED
      BY <1>10, <2>1 DEF AllFit
  <1>16. Below(g, fresh)
    <2>1. ASSUME NEW i \in 1 .. Len(g), NEW k \in 1 .. Len(g[i].calls) PROVE \E n \in Nat : n < fresh /\ g[i].calls[k] = Id(n)
      <3>1. CASE i <= N
        <4>1. i \in 1 .. N /\ g[i] = history[i]
          BY <1>11, <3>1
        <4>2. PICK n \in Nat : n < fresh /\ history[i].calls[k] = Id(n)
          BY <1>4, <4>1 DEF Below
        <4> QED
          BY <4>1, <4>2
      <3>2. CASE ~(i <= N)
        <4> DEFINE l == i - N
        <4>1. l \in 1 .. Len(waiting) /\ g[i] = t[l]
          BY <1>12, <3>2
        <4> HIDE DEF l
        <4>2. g[i].calls = <<>>
          BY <1>8, <4>1
        <4>3. Len(g[i].calls) = 0
          BY <4>2
        <4> QED
          BY <4>3
      <3> QED
        BY <3>1, <3>2
    <2> QED
      BY <2>1 DEF Below
  <1>17. Spoken(g)
    <2>1. g[N] = last /\ N \in 1 .. Len(g)
      BY <1>4, <1>5, <1>6, <1>9, <1>10
    <2> QED
      BY <1>4, <2>1 DEF Spoken
  <1> QED
    BY <1>2, <1>3, <1>4, <1>15, <1>16, <1>17 DEF Goes
\* Each step of the conversation.
LEMMA RequestStep == ASSUME RequestInv, RequestNext \/ UNCHANGED requests PROVE RequestInv'
  BY UserSafe, ModelSafe, StoppedSafe, ToolsSafe DEF RequestNext
\* What the run is to show of the request follows.
LEMMA RequestGives == RequestInv => HistoryGoesOn
  <1> DEFINE h == converted.history
             input == converted.body.input
  <1>1. SUFFICES ASSUME RequestInv, h # <<>>, backends \subseteq Steady, \A k \in DOMAIN converted.tools : converted.tools[k].fits
                 PROVE  converted.body.ok /\ Went(h, input)
    BY DEF HistoryGoesOn, Went, Steady
  <1>2. AllFit(h) /\ Spoken(h) /\ converted.body = Body(h, converted.tools)
    BY <1>1 DEF RequestInv, MadeWhole
  <1>3. PICK i0 \in 1 .. Len(h) : h[i0].role # "system"
    BY <1>2 DEF Spoken
  <1>4. Input(h) # <<>> /\ Went(h, Input(h))
    BY <1>2, <1>3, InputWent
  <1>5. \A i \in DOMAIN h : FitsAt(h, i)
    BY <1>2 DEF AllFit
  <1> HIDE DEF h
  <1>6. Body(h, converted.tools).ok /\ Body(h, converted.tools).input = Input(h)
    BY <1>1, <1>4, <1>5 DEF Body
  <1> QED
    BY <1>2, <1>4, <1>6
-----------------------------------------------------------------------------
(* The sub-agent (tool_delegate.c)                                         *)

SubMessages == [role : {"system", "user", "assistant", "tool"}, calls : Nat]
SubRecord ==
  [msgs : Seq(SubMessages), room : Nat, left : Int, todo : Seq(STRING), result : SubContents, status : {"asking", "tools", "done"},
   turns : Nat, said : SubContents, lost : BOOLEAN, most : Nat]
\* From behind i to e, and no further, stand messages of tools.
Trail(m, i, e) == /\ e \in i .. Len(m) /\ \A k \in i + 1 .. e : m[k].role = "tool"
                  /\ e = Len(m) \/ m[e + 1].role # "tool"
\* They are as many as the calls of i that have been answered.
Paid(m, todo, status, i, e) ==
  IF e # Len(m) THEN e - i = m[i].calls
  ELSE /\ status = "tools" => e - i = m[i].calls - Len(todo)
       /\ status = "asking" => e - i = m[i].calls
       /\ status = "done" => e - i = m[i].calls \/ e = i
IsAnswered(m, todo, status, i) == \E e \in i .. Len(m) : Trail(m, i, e) /\ Paid(m, todo, status, i, e)
InOrder(m, todo, status) ==
  /\ Len(m) >= 2 /\ (Len(m) >= 3 => m[3].role # "tool")
  /\ status = "tools" => Len(m) >= 3
  /\ status # "tools" => todo = <<>>
  /\ \A i \in 1 .. Len(m) : m[i].role = "assistant" => IsAnswered(m, todo, status, i)
Counted(s) == /\ s.result = s.said
              /\ IF s.status = "done" THEN s.turns <= s.most ELSE s.left >= 0 /\ s.turns + s.left = s.most
SubInv == sub \in SubRecord /\ Counted(sub) /\ (~sub.lost => InOrder(sub.msgs, sub.todo, sub.status))

\* The message that calls: what stood before it has been answered.
LEMMA CallAdded ==
  ASSUME NEW m \in Seq(SubMessages), NEW x \in SubMessages, InOrder(m, <<>>, "asking"), x.role = "assistant",
         NEW todo \in Seq(STRING), NEW status \in {"tools", "done"}, status = "tools" => Len(todo) = x.calls, status = "done" => todo = <<>>
  PROVE  InOrder(Append(m, x), todo, status)
  <1> DEFINE g == Append(m, x)
  <1>1. Len(m) \in Nat /\ Len(g) = Len(m) + 1 /\ g[Len(m) + 1] = x
    OBVIOUS
  <1>2. ASSUME NEW k \in 1 .. Len(m) PROVE g[k] = m[k]
    OBVIOUS
  <1>3. Len(m) >= 2 /\ (Len(m) >= 3 => m[3].role # "tool")
    BY DEF InOrder
  <1> HIDE DEF g
  <1>4. Len(g) >= 3 /\ g[3].role # "tool"
    <2>1. CASE Len(m) = 2
      BY <1>1, <2>1
    <2>2. CASE Len(m) >= 3
      BY <1>1, <1>2, <1>3, <2>2
    <2> QED
      BY <1>1, <1>3, <2>1, <2>2
  <1>5. ASSUME NEW i \in 1 .. Len(g), g[i].role = "assistant" PROVE IsAnswered(g, todo, status, i)
    <2>1. CASE i = Len(m) + 1
      <3>1. g[i] = x /\ i \in i .. Len(g) /\ i = Len(g) /\ i \in Nat /\ x.calls \in Nat
        BY <1>1, <2>1 DEF SubMessages
      <3>2. Trail(g, i, i)
        BY <3>1 DEF Trail
      <3>3. Paid(g, todo, status, i, i)
        BY <3>1 DEF Paid
      <3> QED
        BY <3>1, <3>2, <3>3 DEF IsAnswered
    <2>2. CASE i # Len(m) + 1
      <3>1. i \in 1 .. Len(m)
        BY <1>1, <2>2
      <3>2. g[i] = m[i]
        BY <1>2, <3>1
      <3>3. IsAnswered(m, <<>>, "asking", i)
        BY <1>5, <3>1, <3>2 DEF InOrder
      <3>4. PICK e \in i .. Len(m) : Trail(m, i, e) /\ Paid(m, <<>>, "asking", i, e)
        BY <3>3 DEF IsAnswered
      <3>5. e \in i .. Len(g) /\ e # Len(g) /\ e \in 1 .. Len(m) /\ e \in Nat
        BY <1>1, <3>1, <3>4
      <3>6. ASSUME NEW k \in i + 1 .. e PROVE g[k].role = "tool"
        <4>1. k \in 1 .. Len(m) /\ m[k].role = "tool"
          BY <3>1, <3>4, <3>5 DEF Trail
        <4> QED
          BY <1>2, <4>1
      <3>7. g[e + 1].role # "tool"
        <4>1. CASE e = Len(m)
          BY <1>1, <4>1
        <4>2. CASE e # Len(m)
          <5>1. e + 1 \in 1 .. Len(m) /\ m[e + 1].role # "tool"
            BY <3>4, <3>5, <4>2 DEF Trail
          <5> QED
            BY <1>2, <5>1
        <4> QED
          BY <4>1, <4>2
      <3>8. e - i = m[i].calls
        BY <3>4 DEF Paid
      <3>9. Trail(g, i, e)
        BY <3>5, <3>6, <3>7 DEF Trail
      <3>10. Paid(g, todo, status, i, e)
        BY <3>2, <3>5, <3>8 DEF Paid
      <3> QED
        BY <3>5, <3>9, <3>10 DEF IsAnswered
    <2> QED
      BY <2>1, <2>2
  <1>6. InOrder(g, todo, status)
    <2>1. Len(g) >= 2 /\ (status # "tools" => todo = <<>>)
      BY <1>1, <1>4
    <2> QED
      BY <1>4, <1>5, <2>1 DEF InOrder
  <1> QED
    BY <1>6 DEF g

\* One message more and one call fewer to answer.
LEMMA OneLess ==
  ASSUME NEW e \in Nat, NEW i \in Nat, NEW c \in Nat, NEW n \in Nat, NEW l, l = n - 1, e - i = c - n
  PROVE  (e + 1) - i = c - l
  OBVIOUS

\* The message of a tool: one more of the calls is answered.
LEMMA ToolAdded ==
  ASSUME NEW m \in Seq(SubMessages), NEW x \in SubMessages, NEW todo \in Seq(STRING), todo # <<>>, InOrder(m, todo, "tools"), x.role = "tool"
  PROVE  InOrder(Append(m, x), Tail(todo), "tools")
  <1> DEFINE g == Append(m, x)
  <1>1. Len(m) \in Nat /\ Len(g) = Len(m) + 1 /\ g[Len(m) + 1] = x
    OBVIOUS
  <1>2. ASSUME NEW k \in 1 .. Len(m) PROVE g[k] = m[k]
    OBVIOUS
  <1>3. Len(m) >= 3 /\ m[3].role # "tool" /\ Len(todo) \in Nat /\ Len(Tail(todo)) = Len(todo) - 1
    BY DEF InOrder
  <1> HIDE DEF g
  <1>4. Len(g) >= 3 /\ g[3].role # "tool"
    BY <1>1, <1>2, <1>3
  <1>5. ASSUME NEW i \in 1 .. Len(g), g[i].role = "assistant" PROVE IsAnswered(g, Tail(todo), "tools", i)
    <2>1. i \in 1 .. Len(m)
      BY <1>1, <1>5
    <2>2. g[i] = m[i] /\ m[i] \in SubMessages
      BY <1>2, <2>1
    <2>3. IsAnswered(m, todo, "tools", i)
      BY <1>5, <2>1, <2>2 DEF InOrder
    <2>4. PICK e \in i .. Len(m) : Trail(m, i, e) /\ Paid(m, todo, "tools", i, e)
      BY <2>3 DEF IsAnswered
    <2>5. e \in 1 .. Len(m) /\ e \in Nat /\ i \in Nat /\ m[i].calls \in Nat
      BY <1>1, <2>1, <2>2, <2>4 DEF SubMessages
    <2>6. ASSUME NEW k \in i + 1 .. e PROVE g[k].role = "tool"
      <3>1. k \in 1 .. Len(m) /\ m[k].role = "tool"
        BY <2>1, <2>4, <2>5 DEF Trail
      <3> QED
        BY <1>2, <3>1
    <2>7. CASE e = Len(m)
      <3>1. e + 1 \in i .. Len(g) /\ e + 1 = Len(g)
        BY <1>1, <2>4, <2>5, <2>7
      <3>2. ASSUME NEW k \in i + 1 .. e + 1 PROVE g[k].role = "tool"
        <4>1. k = e + 1 \/ k \in i + 1 .. e
          BY <2>5
        <4> QED
          BY <1>1, <2>6, <2>7, <4>1
      <3>3. e - i = m[i].calls - Len(todo)
        BY <2>4, <2>7 DEF Paid
      <3>4. (e + 1) - i = g[i].calls - Len(Tail(todo))
        <4>1. (e + 1) - i = m[i].calls - Len(Tail(todo))
          BY <1>3, <2>5, <3>3, OneLess
        <4> QED
          BY <2>2, <4>1
      <3>5. Trail(g, i, e + 1)
        BY <3>1, <3>2 DEF Trail
      <3>6. Paid(g, Tail(todo), "tools", i, e + 1)
        BY <3>1, <3>4 DEF Paid
      <3> QED
        BY <3>1, <3>5, <3>6 DEF IsAnswered
    <2>8. CASE e # Len(m)
      <3>1. e \in i .. Len(g) /\ e # Len(g) /\ e + 1 \in 1 .. Len(m)
        BY <1>1, <2>4, <2>5, <2>8
      <3>2. g[e + 1].role # "tool"
        BY <1>2, <2>4, <2>8, <3>1 DEF Trail
      <3>3. e - i = g[i].calls
        BY <2>2, <2>4, <2>8 DEF Paid
      <3>4. Trail(g, i, e)
        BY <2>6, <3>1, <3>2 DEF Trail
      <3>5. Paid(g, Tail(todo), "tools", i, e)
        BY <3>1, <3>3 DEF Paid
      <3> QED
        BY <3>1, <3>4, <3>5 DEF IsAnswered
    <2> QED
      BY <2>7, <2>8
  <1>6. InOrder(g, Tail(todo), "tools")
    <2>1. Len(g) >= 2
      BY <1>1, <1>4
    <2> QED
      BY <1>4, <1>5, <2>1 DEF InOrder
  <1> QED
    BY <1>6 DEF g

\* With no call left the model is asked again, and from there the run may end.
LEMMA Settled ==
  ASSUME NEW m \in Seq(SubMessages), NEW todo \in Seq(STRING), NEW status, NEW next,
         InOrder(m, todo, status), todo = <<>>, <<status, next>> \in {<<"tools", "asking">>, <<"asking", "done">>}
  PROVE  InOrder(m, todo, next)
  <1>1. ASSUME NEW i \in 1 .. Len(m), m[i].role = "assistant" PROVE IsAnswered(m, todo, next, i)
    <2>1. IsAnswered(m, todo, status, i)
      BY <1>1 DEF InOrder
    <2>2. PICK e \in i .. Len(m) : Trail(m, i, e) /\ Paid(m, todo, status, i, e)
      BY <2>1 DEF IsAnswered
    <2>3. Len(todo) = 0 /\ status \in {"tools", "asking"} /\ (status = "tools" => m[i].calls - Len(todo) = m[i].calls)
      <3>1. m[i] \in SubMessages
        OBVIOUS
      <3> QED
        BY <3>1 DEF SubMessages
    <2>4. Paid(m, todo, next, i, e)
      <3>1. CASE e # Len(m)
        BY <2>2, <3>1 DEF Paid
      <3>2. CASE e = Len(m)
        <4>1. e - i = m[i].calls
          BY <2>2, <2>3, <3>2 DEF Paid
        <4> QED
          BY <3>2, <4>1 DEF Paid
      <3> QED
        BY <3>1, <3>2
    <2> QED
      BY <2>2, <2>4 DEF IsAnswered
  <1>2. next # "tools"
    OBVIOUS
  <1> QED
    BY <1>1, <1>2 DEF InOrder

\* A place behind the trail.
LEMMA Past ==
  ASSUME NEW i \in Nat, NEW e \in Nat, NEW j \in Nat, NEW n \in Nat, i <= e, i + 1 <= j, j <= n, j > e
  PROVE  e # n /\ e + 1 \in i + 1 .. j
  OBVIOUS

\* An order says how many messages of tools stand behind one that called.
LEMMA StandBehind ==
  ASSUME NEW m \in Seq(SubMessages), NEW i \in 1 .. Len(m), NEW e \in i .. Len(m), Trail(m, i, e)
  PROVE  Cardinality({j \in i + 1 .. Len(m) : \A k \in i + 1 .. j : k \in DOMAIN m /\ m[k].role = "tool"}) = e - i
  <1>1. DOMAIN m = 1 .. Len(m) /\ Len(m) \in Nat /\ i \in Nat /\ e \in Nat
    OBVIOUS
  <1>2. {j \in i + 1 .. Len(m) : \A k \in i + 1 .. j : k \in DOMAIN m /\ m[k].role = "tool"} = i + 1 .. e
    <2>1. ASSUME NEW j \in i + 1 .. Len(m), \A k \in i + 1 .. j : k \in DOMAIN m /\ m[k].role = "tool" PROVE j \in i + 1 .. e
      <3>1. j \in Nat /\ i + 1 <= j /\ j <= Len(m)
        BY <1>1
      <3>2. CASE j > e
        <4>1. e # Len(m) /\ e + 1 \in i + 1 .. j
          <5>1. i <= e
            BY <1>1
          <5> QED
            BY <1>1, <3>1, <3>2, <5>1, Past
        <4> QED
          BY <2>1, <4>1 DEF Trail
      <3>3. CASE ~(j > e)
        BY <1>1, <3>1, <3>3
      <3> QED
        BY <3>2, <3>3
    <2>2. ASSUME NEW j \in i + 1 .. e PROVE j \in i + 1 .. Len(m) /\ \A k \in i + 1 .. j : k \in DOMAIN m /\ m[k].role = "tool"
      <3>1. ASSUME NEW k \in i + 1 .. j PROVE k \in i + 1 .. e /\ k \in 1 .. Len(m)
        BY <1>1
      <3>2. ASSUME NEW k \in i + 1 .. j PROVE k \in DOMAIN m /\ m[k].role = "tool"
        BY <1>1, <3>1 DEF Trail
      <3> QED
        BY <1>1, <3>2
    <2> QED
      BY <2>1, <2>2
  <1>3. i + 1 \in Int /\ e \in Int
    BY <1>1
  <1>4. Cardinality(i + 1 .. e) = IF i + 1 > e THEN 0 ELSE e - (i + 1) + 1
    BY <1>3, FS_Interval
  <1> DEFINE T == {j \in i + 1 .. Len(m) : \A k \in i + 1 .. j : k \in DOMAIN m /\ m[k].role = "tool"}
  <1>5. T = i + 1 .. e
    BY <1>2
  <1> HIDE DEF T
  <1>6. Cardinality(T) = e - i
    <2>1. CASE e = i
      BY <1>1, <1>4, <1>5, <2>1
    <2>2. CASE e > i
      BY <1>1, <1>4, <1>5, <2>2
    <2> QED
      BY <1>1, <2>1, <2>2
  <1> QED
    BY <1>6 DEF T
\* What the run is to show follows.
LEMMA SubGives == SubInv => SubAgentKeepsOrder
  <1> SUFFICES ASSUME SubInv PROVE SubAgentKeepsOrder
    OBVIOUS
  <1> DEFINE m == sub.msgs
             isTool(i) == i \in DOMAIN m /\ m[i].role = "tool"
             behind(i) == Cardinality({j \in i + 1 .. Len(m) : \A k \in i + 1 .. j : isTool(k)})
  <1>1. m \in Seq(SubMessages) /\ sub.todo \in Seq(STRING) /\ sub.turns \in Nat /\ sub.left \in Int /\ sub.most \in Nat
        /\ sub.status \in {"asking", "tools", "done"}
    BY DEF SubInv, SubRecord
  <1>2. sub.result = sub.said /\ sub.turns <= sub.most
    BY <1>1 DEF SubInv, Counted
  <1>3. ASSUME ~sub.lost PROVE ~isTool(3)
    <2>1. InOrder(m, sub.todo, sub.status)
      BY <1>3 DEF SubInv
    <2>2. CASE 3 \in DOMAIN m
      <3>1. Len(m) >= 3
        BY <1>1, <2>2
      <3> QED
        BY <2>1, <3>1 DEF InOrder
    <2> QED
      BY <2>2
  <1>4. ASSUME ~sub.lost, NEW i \in DOMAIN m, m[i].role = "assistant"
        PROVE  behind(i) = IF i + behind(i) = Len(m) THEN m[i].calls - Len(sub.todo) - (IF sub.status = "done" /\ behind(i) = 0 THEN m[i].calls ELSE 0)
                           ELSE m[i].calls
    <2>1. InOrder(m, sub.todo, sub.status) /\ i \in 1 .. Len(m)
      BY <1>1, <1>4 DEF SubInv
    <2>2. IsAnswered(m, sub.todo, sub.status, i)
      BY <1>4, <2>1 DEF InOrder
    <2>3. PICK e \in i .. Len(m) : Trail(m, i, e) /\ Paid(m, sub.todo, sub.status, i, e)
      BY <2>2 DEF IsAnswered
    <2>4. behind(i) = e - i
      BY <1>1, <2>1, <2>3, StandBehind
    <2> HIDE DEF behind
    <2>5. m[i].calls \in Nat /\ Len(m) \in Nat /\ i \in Nat /\ e \in Nat /\ e >= i /\ Len(sub.todo) \in Nat
      <3>1. m[i] \in SubMessages
        BY <1>1, <2>1
      <3> QED
        BY <1>1, <2>1, <3>1 DEF SubMessages
    <2>6. i + behind(i) = e
      BY <2>4, <2>5
    <2>7. sub.status # "tools" => Len(sub.todo) = 0
      BY <1>1, <2>1 DEF InOrder
    <2>8. CASE e # Len(m)
      BY <2>3, <2>4, <2>6, <2>8 DEF Paid
    <2>9. CASE e = Len(m)
      <3>1. CASE sub.status = "tools"
        BY <2>3, <2>4, <2>6, <2>9, <2>5, <3>1 DEF Paid
      <3>2. CASE sub.status = "asking"
        BY <2>3, <2>4, <2>6, <2>7, <2>9, <2>5, <3>2 DEF Paid
      <3>3. CASE sub.status = "done"
        <4>1. e - i = m[i].calls \/ e - i = 0
          BY <2>3, <2>5, <2>9, <3>3 DEF Paid
        <4>2. Len(sub.todo) = 0
          BY <2>7, <3>3
        <4> QED
          <5>1. CASE behind(i) = 0
            <6>1. 0 = m[i].calls - Len(sub.todo) - m[i].calls
              BY <2>5, <4>2
            <6> QED
              BY <2>6, <2>9, <3>3, <5>1, <6>1
          <5>2. CASE behind(i) # 0
            <6>1. m[i].calls = m[i].calls - Len(sub.todo) - 0
              BY <2>5, <4>2
            <6>2. behind(i) = m[i].calls
              BY <2>4, <4>1, <5>2
            <6> QED
              BY <2>6, <2>9, <5>2, <6>1, <6>2
          <5> QED
            BY <5>1, <5>2
      <3> QED
        BY <1>1, <3>1, <3>2, <3>3
    <2> QED
      BY <2>8, <2>9
  <1> HIDE DEF behind, isTool
  <1>5. ~sub.lost => /\ ~isTool(3)
                     /\ \A i \in DOMAIN m : m[i].role = "assistant" =>
                          behind(i) = IF i + behind(i) = Len(m) THEN m[i].calls - Len(sub.todo) - (IF sub.status = "done" /\ behind(i) = 0 THEN m[i].calls ELSE 0)
                                      ELSE m[i].calls
    BY <1>3, <1>4
  <1> USE DEF behind, isTool
  <1> QED
    BY <1>2, <1>5 DEF SubAgentKeepsOrder
\* A sub-agent begins with its system prompt and its task.
LEMMA SubStart == SubInit => SubInv
  <1> SUFFICES ASSUME SubInit PROVE SubInv
    OBVIOUS
  <1>1. PICK n \in Iterations :
          sub = [msgs |-> <<SubMsg("system", 0), SubMsg("user", 0)>>, room |-> FirstRoom, left |-> Clamped(n), todo |-> <<>>,
                 result |-> "none", status |-> "asking", turns |-> 0, said |-> "none", lost |-> FALSE, most |-> Clamped(n)]
    BY DEF SubInit
  <1>2. Clamped(n) \in Nat
    BY SubAssumption DEF Clamped
  <1> DEFINE m == <<SubMsg("system", 0), SubMsg("user", 0)>>
  <1>3. m \in Seq(SubMessages) /\ Len(m) = 2 /\ m[1].role = "system" /\ m[2].role = "user"
    <2>1. SubMsg("system", 0) \in SubMessages /\ SubMsg("user", 0) \in SubMessages
      BY DEF SubMsg, SubMessages
    <2>2. SubMsg("system", 0).role = "system" /\ SubMsg("user", 0).role = "user"
      BY DEF SubMsg
    <2> QED
      BY <2>1, <2>2
  <1>4. <<>> \in Seq(STRING)
    OBVIOUS
  <1> HIDE DEF m
  <1>5. sub \in SubRecord
    <2>1. sub = [msgs |-> m, room |-> FirstRoom, left |-> Clamped(n), todo |-> <<>>,
                 result |-> "none", status |-> "asking", turns |-> 0, said |-> "none", lost |-> FALSE, most |-> Clamped(n)]
      BY <1>1 DEF m
    <2> QED
      BY <1>2, <1>3, <1>4, <2>1, SubAssumption DEF SubRecord, SubContents
  <1>6. Counted(sub)
    BY <1>1, <1>2 DEF Counted
  <1>7. InOrder(sub.msgs, sub.todo, sub.status)
    <2>1. sub.msgs = m /\ sub.todo = <<>> /\ sub.status = "asking"
      BY <1>1 DEF m
    <2>2. ASSUME NEW i \in 1 .. Len(m) PROVE m[i].role # "assistant"
      <3>1. i \in 1 .. 2
        BY <1>3
      <3>2. i = 1 \/ i = 2
        BY <3>1
      <3>3. "system" # "assistant" /\ "user" # "assistant"
        OBVIOUS
      <3>4. CASE i = 1
        BY <1>3, <3>3, <3>4
      <3>5. CASE i = 2
        BY <1>3, <3>3, <3>5
      <3> QED
        BY <3>2, <3>4, <3>5
    <2>3. Len(m) >= 2 /\ ~(Len(m) >= 3)
      BY <1>3
    <2>4. InOrder(m, <<>>, "asking")
      BY <2>2, <2>3 DEF InOrder
    <2> QED
      BY <2>1, <2>4
  <1> QED
    BY <1>5, <1>6, <1>7 DEF SubInv
\* The record a turn or a message leaves, field by field.
LEMMA TurnedIs ==
  ASSUME sub \in SubRecord, NEW content, NEW calls
  PROVE  Turned(sub, content, calls) =
           [msgs |-> sub.msgs, room |-> sub.room, left |-> sub.left - 1, todo |-> IF HasCalls(calls) THEN calls ELSE <<>>,
            result |-> IF content = "none" THEN sub.result ELSE content, status |-> IF HasCalls(calls) THEN "tools" ELSE "done",
            turns |-> sub.turns + 1, said |-> IF content = "none" THEN sub.said ELSE content, lost |-> sub.lost, most |-> sub.most]
  <1> DEFINE r == IF content = "none" THEN sub.result ELSE content
             t == IF content = "none" THEN sub.said ELSE content
             d == IF HasCalls(calls) THEN calls ELSE <<>>
             st == IF HasCalls(calls) THEN "tools" ELSE "done"
  <1>1. Turned(sub, content, calls) = [sub EXCEPT !.result = r, !.said = t, !.left = sub.left - 1, !.turns = sub.turns + 1, !.todo = d, !.status = st]
    BY DEF Turned
  <1> HIDE DEF r, t, d, st
  <1>2. [sub EXCEPT !.result = r, !.said = t, !.left = sub.left - 1, !.turns = sub.turns + 1, !.todo = d, !.status = st]
          = [msgs |-> sub.msgs, room |-> sub.room, left |-> sub.left - 1, todo |-> d, result |-> r, status |-> st,
             turns |-> sub.turns + 1, said |-> t, lost |-> sub.lost, most |-> sub.most]
    <2> DEFINE s1 == [sub EXCEPT !.result = r]
               s2 == [s1 EXCEPT !.said = t]
               s3 == [s2 EXCEPT !.left = sub.left - 1]
               s4 == [s3 EXCEPT !.turns = sub.turns + 1]
               s5 == [s4 EXCEPT !.todo = d]
               s6 == [s5 EXCEPT !.status = st]
    <2>1. s1 = [msgs |-> sub.msgs, room |-> sub.room, left |-> sub.left, todo |-> sub.todo, result |-> r, status |-> sub.status,
             turns |-> sub.turns, said |-> sub.said, lost |-> sub.lost, most |-> sub.most]
      BY DEF SubRecord
    <2> HIDE DEF s1
    <2>2. s2 = [msgs |-> sub.msgs, room |-> sub.room, left |-> sub.left, todo |-> sub.todo, result |-> r, status |-> sub.status,
             turns |-> sub.turns, said |-> t, lost |-> sub.lost, most |-> sub.most]
      BY <2>1
    <2> HIDE DEF s2
    <2>3. s3 = [msgs |-> sub.msgs, room |-> sub.room, left |-> sub.left - 1, todo |-> sub.todo, result |-> r, status |-> sub.status,
             turns |-> sub.turns, said |-> t, lost |-> sub.lost, most |-> sub.most]
      BY <2>2
    <2> HIDE DEF s3
    <2>4. s4 = [msgs |-> sub.msgs, room |-> sub.room, left |-> sub.left - 1, todo |-> sub.todo, result |-> r, status |-> sub.status,
             turns |-> sub.turns + 1, said |-> t, lost |-> sub.lost, most |-> sub.most]
      BY <2>3
    <2> HIDE DEF s4
    <2>5. s5 = [msgs |-> sub.msgs, room |-> sub.room, left |-> sub.left - 1, todo |-> d, result |-> r, status |-> sub.status,
             turns |-> sub.turns + 1, said |-> t, lost |-> sub.lost, most |-> sub.most]
      BY <2>4
    <2> HIDE DEF s5
    <2>6. s6 = [msgs |-> sub.msgs, room |-> sub.room, left |-> sub.left - 1, todo |-> d, result |-> r, status |-> st,
             turns |-> sub.turns + 1, said |-> t, lost |-> sub.lost, most |-> sub.most]
      BY <2>5
    <2> USE DEF s1, s2, s3, s4, s5
    <2> QED
      BY <2>6
  <1> USE DEF r, t, d, st
  <1> QED
    BY <1>1, <1>2
\* The record with a message, or without it.
LEMMA KeptIs ==
  ASSUME NEW s \in SubRecord, NEW m, NEW fate \in {"kept", "lost", "stuck"}
  PROVE  /\ fate = "kept" => Kept(s, m, fate) =
              [msgs |-> Append(s.msgs, m), room |-> Grown, left |-> s.left, todo |-> s.todo, result |-> s.result, status |-> s.status,
               turns |-> s.turns, said |-> s.said, lost |-> s.lost, most |-> s.most]
         /\ fate # "kept" => Kept(s, m, fate) =
              [msgs |-> s.msgs, room |-> s.room, left |-> s.left, todo |-> s.todo, result |-> s.result,
               status |-> IF fate = "lost" THEN s.status ELSE "done",
               turns |-> s.turns, said |-> s.said, lost |-> TRUE, most |-> s.most]
  <1>1. CASE fate = "kept"
    BY <1>1 DEF Kept, SubRecord
  <1>2. CASE fate = "lost"
    BY <1>2 DEF Kept, SubRecord
  <1>3. CASE fate = "stuck"
    BY <1>3 DEF Kept, SubRecord
  <1> QED
    BY <1>1, <1>2, <1>3
\* The room of the list.
LEMMA GrownIsNat == ASSUME sub \in SubRecord PROVE Grown \in Nat
  BY DEF SubRecord, Grown
\* A turn: what it says, and the message that calls, unless it is lost.
LEMMA SubChatSafe == ASSUME SubInv, SubChat PROVE SubInv'
  <1>1. sub \in SubRecord /\ sub.status = "asking" /\ sub.left > 0 /\ sub.left \in Int /\ sub.turns \in Nat /\ sub.most \in Nat
        /\ sub.left >= 0 /\ sub.turns + sub.left = sub.most /\ sub.result = sub.said
    BY DEF SubInv, SubChat, SubRecord, Counted
  <1>2. CASE sub' = [sub EXCEPT !.status = "done", !.turns = @ + 1]
    <2>1. sub' = [msgs |-> sub.msgs, room |-> sub.room, left |-> sub.left, todo |-> sub.todo, result |-> sub.result, status |-> "done",
                  turns |-> sub.turns + 1, said |-> sub.said, lost |-> sub.lost, most |-> sub.most]
      BY <1>1, <1>2 DEF SubRecord
    <2>2. sub' \in SubRecord
      BY <1>1, <2>1 DEF SubRecord
    <2>3. Counted(sub')
      BY <1>1, <2>1 DEF Counted
    <2>4. ASSUME ~sub.lost PROVE InOrder(sub.msgs, sub.todo, "done")
      <3>1. InOrder(sub.msgs, sub.todo, "asking") /\ sub.todo = <<>>
        BY <1>1, <2>4 DEF SubInv, InOrder
      <3>2. sub.msgs \in Seq(SubMessages) /\ sub.todo \in Seq(STRING)
        BY <1>1 DEF SubRecord
      <3> QED
        BY <3>1, <3>2, Settled
    <2>5. ~sub'.lost => InOrder(sub'.msgs, sub'.todo, sub'.status)
      BY <2>1, <2>4
    <2> QED
      BY <2>2, <2>3, <2>5 DEF SubInv
  <1>3. ASSUME NEW content \in SubContents, NEW calls \in CallLists, NEW fate \in Fates,
               LET s == Turned(sub, content, calls)
               IN IF content = "none" /\ ~HasCalls(calls) THEN sub' = s ELSE sub' = Kept(s, SubMsg("assistant", Len(calls)), fate)
        PROVE  SubInv'
    <2> DEFINE s == Turned(sub, content, calls)
               m == SubMsg("assistant", Len(calls))
               todo == IF HasCalls(calls) THEN calls ELSE <<>>
               st == IF HasCalls(calls) THEN "tools" ELSE "done"
    <2>1. s = [msgs |-> sub.msgs, room |-> sub.room, left |-> sub.left - 1, todo |-> todo,
               result |-> IF content = "none" THEN sub.result ELSE content, status |-> st,
               turns |-> sub.turns + 1, said |-> IF content = "none" THEN sub.said ELSE content, lost |-> sub.lost, most |-> sub.most]
      BY <1>1, TurnedIs
    <2>2. calls \in Seq(STRING) /\ <<>> \in Seq(STRING) /\ Len(calls) \in Nat
      BY SubAssumption
    <2>3. todo \in Seq(STRING) /\ st \in {"tools", "done"} /\ (st = "tools" => Len(todo) = Len(calls)) /\ (st = "done" => todo = <<>>)
      BY <2>2
    <2>4. m \in SubMessages /\ m.role = "assistant" /\ m.calls = Len(calls)
      BY <2>2 DEF SubMsg, SubMessages
    <2>5. IF content = "none" /\ ~HasCalls(calls) THEN sub' = s ELSE sub' = Kept(s, m, fate)
      BY <1>3
    <2>6. content = "none" /\ ~HasCalls(calls) => st = "done"
      OBVIOUS
    <2> HIDE DEF s, m, todo, st
    <2>7. s \in SubRecord /\ s.status = st /\ s.todo = todo /\ s.lost = sub.lost /\ s.msgs = sub.msgs
      <3>1. (IF content = "none" THEN sub.result ELSE content) \in SubContents /\ (IF content = "none" THEN sub.said ELSE content) \in SubContents
        BY <1>1 DEF SubRecord
      <3>2. s \in SubRecord
        BY <1>1, <2>1, <2>3, <3>1 DEF SubRecord
      <3> QED
        BY <2>1, <3>2
    <2>8. s.result = s.said /\ s.left >= 0 /\ s.turns + s.left = s.most /\ s.turns <= s.most /\ s.turns \in Nat
      <3>1. s.left = sub.left - 1 /\ s.turns = sub.turns + 1 /\ s.most = sub.most
        BY <2>1
      <3>2. s.result = s.said
        BY <1>1, <2>1
      <3>3. sub.left - 1 >= 0 /\ (sub.turns + 1) + (sub.left - 1) = sub.most /\ sub.turns + 1 <= sub.most /\ sub.turns + 1 \in Nat
        BY <1>1
      <3> QED
        BY <3>1, <3>2, <3>3
    <2>9. Counted(s)
      BY <2>8 DEF Counted
    <2>10. ASSUME ~sub.lost PROVE InOrder(sub.msgs, <<>>, "asking") /\ InOrder(sub.msgs, <<>>, "done")
      <3>1. InOrder(sub.msgs, <<>>, "asking")
        BY <1>1, <2>10 DEF SubInv, InOrder
      <3>2. sub.msgs \in Seq(SubMessages)
        BY <1>1 DEF SubRecord
      <3> QED
        BY <2>2, <3>1, <3>2, Settled
    <2>11. CASE content = "none" /\ ~HasCalls(calls)
      <3>1. sub' = s /\ st = "done"
        BY <2>5, <2>6, <2>11
      <3>2. ~s.lost => InOrder(s.msgs, s.todo, s.status)
        BY <2>3, <2>7, <2>10, <3>1
      <3> QED
        BY <2>7, <2>9, <3>1, <3>2 DEF SubInv
    <2>12. CASE ~(content = "none" /\ ~HasCalls(calls)) /\ fate = "kept"
      <3>1. sub' = [msgs |-> Append(s.msgs, m), room |-> Grown, left |-> s.left, todo |-> s.todo, result |-> s.result, status |-> s.status,
                    turns |-> s.turns, said |-> s.said, lost |-> s.lost, most |-> s.most]
        BY <2>5, <2>7, <2>12, KeptIs
      <3>2. Append(s.msgs, m) \in Seq(SubMessages)
        BY <2>4, <2>7 DEF SubRecord
      <3>3. sub' \in SubRecord
        BY <1>1, <2>7, <3>1, <3>2, GrownIsNat DEF SubRecord
      <3>4. Counted(sub')
        BY <2>9, <3>1 DEF Counted
      <3>5. ASSUME ~sub.lost PROVE InOrder(Append(sub.msgs, m), todo, st)
        <4>1. sub.msgs \in Seq(SubMessages)
          BY <1>1 DEF SubRecord
        <4> QED
          BY <2>3, <2>4, <2>10, <3>5, <4>1, CallAdded
      <3>6. ~sub'.lost => InOrder(sub'.msgs, sub'.todo, sub'.status)
        BY <2>7, <3>1, <3>5
      <3> QED
        BY <3>3, <3>4, <3>6 DEF SubInv
    <2>13. CASE ~(content = "none" /\ ~HasCalls(calls)) /\ fate # "kept"
      <3>1. fate \in {"kept", "lost", "stuck"}
        BY DEF Fates
      <3>2. sub' = [msgs |-> s.msgs, room |-> s.room, left |-> s.left, todo |-> s.todo, result |-> s.result,
                    status |-> IF fate = "lost" THEN s.status ELSE "done",
                    turns |-> s.turns, said |-> s.said, lost |-> TRUE, most |-> s.most]
        BY <2>5, <2>7, <2>13, <3>1, KeptIs
      <3>3. sub' \in SubRecord /\ sub'.lost
        BY <2>7, <3>2 DEF SubRecord
      <3>4. Counted(sub')
        BY <2>8, <3>2 DEF Counted
      <3> QED
        BY <3>3, <3>4 DEF SubInv
    <2> QED
      BY <2>11, <2>12, <2>13
  <1> QED
    BY <1>2, <1>3 DEF SubChat
\* A tool: its message answers the call, unless it is lost.
LEMMA SubToolSafe == ASSUME SubInv, SubTool PROVE SubInv'
  <1>1. sub \in SubRecord /\ sub.status = "tools" /\ sub.todo # <<>> /\ sub.todo \in Seq(STRING) /\ Tail(sub.todo) \in Seq(STRING)
    BY DEF SubInv, SubTool, SubRecord
  <1> DEFINE s == [sub EXCEPT !.todo = Tail(@)]
             m == SubMsg("tool", 0)
  <1>2. PICK fate \in Fates : sub' = Kept(s, m, fate)
    BY DEF SubTool
  <1>3. s = [msgs |-> sub.msgs, room |-> sub.room, left |-> sub.left, todo |-> Tail(sub.todo), result |-> sub.result, status |-> sub.status,
             turns |-> sub.turns, said |-> sub.said, lost |-> sub.lost, most |-> sub.most]
    <2>1. s = [sub EXCEPT !.todo = Tail(sub.todo)]
      OBVIOUS
    <2> HIDE DEF s
    <2> DEFINE r == Tail(sub.todo)
    <2> HIDE DEF r
    <2>2. [sub EXCEPT !.todo = r] = [msgs |-> sub.msgs, room |-> sub.room, left |-> sub.left, todo |-> r, result |-> sub.result, status |-> sub.status,
             turns |-> sub.turns, said |-> sub.said, lost |-> sub.lost, most |-> sub.most]
      BY <1>1 DEF SubRecord
    <2> USE DEF r
    <2> QED
      BY <2>1, <2>2
  <1>4. m \in SubMessages /\ m.role = "tool"
    BY DEF SubMsg, SubMessages
  <1> HIDE DEF s, m
  <1>5. s \in SubRecord /\ s.turns \in Nat /\ s.most \in Nat
    BY <1>1, <1>3 DEF SubRecord
  <1>6. Counted(s) /\ s.turns <= s.most /\ s.result = s.said
    <2>1. Counted(s)
      BY <1>3 DEF SubInv, Counted
    <2>2. s.left \in Int
      BY <1>5 DEF SubRecord
    <2> QED
      BY <1>1, <1>3, <1>5, <2>1, <2>2 DEF Counted
  <1>7. fate \in {"kept", "lost", "stuck"}
    BY DEF Fates
  <1>8. CASE fate = "kept"
    <2>1. sub' = [msgs |-> Append(s.msgs, m), room |-> Grown, left |-> s.left, todo |-> s.todo, result |-> s.result, status |-> s.status,
                  turns |-> s.turns, said |-> s.said, lost |-> s.lost, most |-> s.most]
      BY <1>2, <1>5, <1>8, KeptIs
    <2>2. Append(s.msgs, m) \in Seq(SubMessages)
      BY <1>4, <1>5 DEF SubRecord
    <2>3. sub' \in SubRecord
      BY <1>1, <1>5, <2>1, <2>2, GrownIsNat DEF SubRecord
    <2>4. Counted(sub')
      BY <1>6, <2>1 DEF Counted
    <2>5. ASSUME ~sub.lost PROVE InOrder(Append(sub.msgs, m), Tail(sub.todo), "tools")
      <3>1. sub.msgs \in Seq(SubMessages) /\ InOrder(sub.msgs, sub.todo, "tools")
        BY <1>1, <2>5 DEF SubRecord, SubInv
      <3> QED
        BY <1>1, <1>4, <3>1, ToolAdded
    <2>6. ~sub'.lost => InOrder(sub'.msgs, sub'.todo, sub'.status)
      BY <1>1, <1>3, <2>1, <2>5
    <2> QED
      BY <2>3, <2>4, <2>6 DEF SubInv
  <1>9. CASE fate # "kept"
    <2>1. sub' = [msgs |-> s.msgs, room |-> s.room, left |-> s.left, todo |-> s.todo, result |-> s.result,
                  status |-> IF fate = "lost" THEN s.status ELSE "done",
                  turns |-> s.turns, said |-> s.said, lost |-> TRUE, most |-> s.most]
      BY <1>2, <1>5, <1>7, <1>9, KeptIs
    <2>2. sub' \in SubRecord /\ sub'.lost
      BY <1>5, <2>1 DEF SubRecord
    <2>3. s.status # "done" => s.left >= 0 /\ s.turns + s.left = s.most
      BY <1>6 DEF Counted
    <2>4. Counted(sub')
      BY <1>6, <2>1, <2>3 DEF Counted
    <2> QED
      BY <2>2, <2>4 DEF SubInv
  <1> QED
    BY <1>8, <1>9
\* Another turn, or none left.
LEMMA SubAgainSafe == ASSUME SubInv, SubAgain \/ SubOut PROVE SubInv'
  <1>1. sub \in SubRecord /\ Counted(sub)
    BY DEF SubInv
  <1>2. PICK st \in {"asking", "done"} : /\ sub' = [sub EXCEPT !.status = st] /\ (st = "done" => sub.status = "asking")
                                         /\ (st = "asking" => sub.status = "tools" /\ sub.todo = <<>>)
    BY DEF SubAgain, SubOut
  <1>3. sub' = [msgs |-> sub.msgs, room |-> sub.room, left |-> sub.left, todo |-> sub.todo, result |-> sub.result, status |-> st,
                turns |-> sub.turns, said |-> sub.said, lost |-> sub.lost, most |-> sub.most]
    BY <1>1, <1>2 DEF SubRecord
  <1>4. sub' \in SubRecord
    BY <1>1, <1>3 DEF SubRecord
  <1>5. Counted(sub')
    <2>1. sub.left >= 0 /\ sub.turns + sub.left = sub.most /\ sub.result = sub.said
      BY <1>1, <1>2 DEF Counted
    <2>2. sub.left \in Int /\ sub.turns \in Nat /\ sub.most \in Nat
      BY <1>1 DEF SubRecord
    <2>3. sub.turns <= sub.most
      BY <2>1, <2>2
    <2> QED
      BY <1>3, <2>1, <2>3 DEF Counted
  <1>6. ASSUME ~sub.lost PROVE InOrder(sub.msgs, sub.todo, st)
    <2>1. InOrder(sub.msgs, sub.todo, sub.status)
      BY <1>6 DEF SubInv
    <2>2. sub.todo = <<>> /\ <<sub.status, st>> \in {<<"tools", "asking">>, <<"asking", "done">>}
      BY <1>2, <2>1 DEF InOrder
    <2>3. sub.msgs \in Seq(SubMessages) /\ sub.todo \in Seq(STRING)
      BY <1>1 DEF SubRecord
    <2> QED
      BY <2>1, <2>2, <2>3, Settled
  <1>7. ~sub'.lost => InOrder(sub'.msgs, sub'.todo, sub'.status)
    BY <1>3, <1>6
  <1> QED
    BY <1>4, <1>5, <1>7 DEF SubInv
\* Each step of the sub-agent.
LEMMA SubStep == ASSUME SubInv, SubNext \/ UNCHANGED sub PROVE SubInv'
  <1>1. CASE UNCHANGED sub
    BY <1>1 DEF SubInv, Counted, InOrder, IsAnswered, Trail, Paid
  <1> QED
    BY <1>1, SubChatSafe, SubToolSafe, SubAgainSafe DEF SubNext

-----------------------------------------------------------------------------
(* The run                                                                  *)

\* What is left of the invariants of the machines when all rest.
ToolsInv == ApprovalInv /\ CheckInv /\ CommandInv /\ BrowserInv /\ FilesInv

\* The run begins with each machine at its beginning.
LEMMA ToolsStartSound == Start => ToolsInv
  <1> SUFFICES ASSUME Start PROVE ToolsInv
    OBVIOUS
  <1>1. ApprovalInit /\ ChecksInit /\ CommandInit /\ BrowserInit /\ FilesInit
    BY DEF Start, ToolsStart
  <1> QED
    BY <1>1, ApprovalStart, CheckStart, CommandStart, BrowserStart, FilesStart DEF ToolsInv

\* Each step is one of a machine, and the others rest.
LEMMA ToolsStepSound ==
  ASSUME ToolsInv, MCNext \/ UNCHANGED <<subject, ofTools, ofModel>>
  PROVE  ToolsInv'
  <1>1. /\ ApprovalNext \/ UNCHANGED approvals
        /\ ChecksNext \/ UNCHANGED check
        /\ CommandNext \/ UNCHANGED command
        /\ BrowserNext \/ UNCHANGED browser
        /\ FilesNext \/ UNCHANGED fileTools
    BY DEF MCNext, ToolsStep, ofTools
  <1> QED
    BY <1>1, ApprovalStep, CheckStep, CommandStep, BrowserStep, FilesStep DEF ToolsInv

\* The histories begin in order, and each step keeps them so.
HistoriesInv == RequestInv /\ SubInv
LEMMA HistoriesStart == Start => HistoriesInv
  <1>1. Start => RequestInit /\ SubInit
    BY DEF Start, ModelStart
  <1> QED
    BY <1>1, RequestStart, SubStart DEF HistoriesInv
LEMMA HistoriesStep ==
  ASSUME HistoriesInv, MCNext \/ UNCHANGED <<subject, ofTools, ofModel>>
  PROVE  HistoriesInv'
  <1>1. /\ RequestNext \/ UNCHANGED requests
        /\ SubNext \/ UNCHANGED sub
    BY DEF MCNext, ModelStep, ofModel
  <1> QED
    BY <1>1, RequestStep, SubStep DEF HistoriesInv

\* What an edit writes shows whole and undos wind back; the file machine moves or rests.
LEMMA HonestRun ==
  ASSUME HonestInv, MCNext \/ UNCHANGED <<subject, ofTools, ofModel>>
  PROVE  HonestInv' /\ [EditShowsWhole /\ WindsBack]_fileTools
  <1>1. FilesNext \/ UNCHANGED fileTools
    BY DEF MCNext, ToolsStep, ofTools
  <1> QED
    BY <1>1, HonestStep, HonestIs

\* THE GATES (safety.c, policy.c, net_policy.c): for every list of commands, every
\* number of calls and every answer the user gives, a tool that the list names runs
\* only after a question was answered for it or an "Always" was kept, a command is
\* refused however its pieces are cut, and no address inside the network is fetched.
THEOREM GatesStand == Spec => []GatesHold
  <1>1. Start => ToolsInv
    BY ToolsStartSound
  <1>2. ToolsInv /\ [MCNext]_<<subject, ofTools, ofModel>> => ToolsInv'
    BY ToolsStepSound
  <1>3. ToolsInv => GatesHold
    BY DEF ToolsInv, ApprovalInv, CheckInv, GatesHold
  <1> QED
    BY <1>1, <1>2, <1>3, PTL DEF Spec

\* RUNNING (bash.c, cdp.c, browser.c): for every size of pipe, of window and of room,
\* every number of processes and actions, no process of a command that is over runs,
\* its output is the end of what was written, a browser without a session leaves
\* nothing behind, and what an action reports as done the browser answered so.
THEOREM CommandsSound == Spec => []CommandSound
  <1>1. Start => ToolsInv
    BY ToolsStartSound
  <1>2. ToolsInv /\ [MCNext]_<<subject, ofTools, ofModel>> => ToolsInv'
    BY ToolsStepSound
  <1>3. ToolsInv => CommandSound
    BY CommandInvGives, BrowserInvGives DEF ToolsInv, CommandSound
  <1> QED
    BY <1>1, <1>2, <1>3, PTL DEF Spec

\* THE WORKSPACE (safety.c, write_file.c, edit.c, change_tracker.c): for every file
\* system, policy, path, text and stack size, and with changes of the user and
\* crashes between any two steps, nothing outside the workspace is written, made,
\* replaced or removed in the restricted mode: not by a tool, not through a link
\* or a directory that was missing, and not by an undo or redo.
THEOREM WorkspaceKept == Spec => []OutsideUntouched
  <1>1. Start => ToolsInv
    BY ToolsStartSound
  <1>2. ToolsInv /\ [MCNext]_<<subject, ofTools, ofModel>> => ToolsInv'
    BY ToolsStepSound
  <1>3. ToolsInv => OutsideUntouched
    BY FilesOutside DEF ToolsInv
  <1> QED
    BY <1>1, <1>2, <1>3, PTL DEF Spec

\* THE FILES (edit.c, write_file.c, change_tracker.c): for every file system, policy,
\* path, text and stack size, and with changes of the user, failed writes and crashes
\* between any two steps, an edit shows in a file whole or not at all; and on the
\* server an undo takes the files back to exactly what they were before the newest
\* write, the redos behind the undos bring them forward to exactly what they were.
THEOREM FilesWound == Spec => FilesHonest
  <1>1. Start => HonestInv
    BY HonestStart DEF Start, ToolsStart
  <1>2. HonestInv /\ [MCNext]_<<subject, ofTools, ofModel>> => HonestInv' /\ [EditShowsWhole /\ WindsBack]_fileTools
    BY HonestRun
  <1> QED
    BY <1>1, <1>2, PTL DEF Spec, FilesHonest

\* THE CONVERSATIONS (openai_request.c, tool_delegate.c): for every length of a
\* history, number of calls, set of tools and switch between the providers that
\* name their calls, the request to Codex can be made and answers each call once,
\* behind it; and for every number of turns a sub-agent's results stand behind the
\* calls they answer, and it brings the last thing it said.
THEOREM HistoriesKept == Spec => []HistoriesSound
  <1>1. Start => HistoriesInv
    BY HistoriesStart
  <1>2. HistoriesInv /\ [MCNext]_<<subject, ofTools, ofModel>> => HistoriesInv'
    BY HistoriesStep
  <1>3. HistoriesInv => HistoriesSound
    BY RequestGives, SubGives DEF HistoriesInv, HistoriesSound
  <1> QED
    BY <1>1, <1>2, <1>3, PTL DEF Spec
=============================================================================
