------------------------------ MODULE CommandRun ------------------------------
(***************************************************************************)
(* A command of the bash tool (run_with_timeout in src/tools/bash.c) and a     *)
(* program of the python tool (src/tools/python_execute.c): the tool's loop,    *)
(* the processes it starts, the pipes between them and the deadline.           *)
(*                                                                         *)
(* A byte is "x", or "n" for a line feed.  Left out: calls of the system that   *)
(* fail, but for the file that takes a long output; exit codes and messages.   *)
(***************************************************************************)
EXTENDS Integers, Sequences, SequencesExt, FiniteSets

CONSTANTS PipeSize,   \* bytes a pipe holds
          ReadBytes,  \* bytes of a read
          TailBytes,  \* BASH_TAIL_BYTES
          BufBytes,   \* bytes python_execute keeps of each stream
          Deadline,   \* seconds of the call
          MaxBytes, MaxSeconds  \* bounds: what the processes write, the time
ASSUME CommandAssumption ==
  {PipeSize, ReadBytes, TailBytes, BufBytes, Deadline} \subseteq Nat \ {0} /\ {MaxBytes, MaxSeconds} \subseteq Nat

VARIABLES
  program,   \* "bash" or "python"
  loop,      \* where the tool's loop is
  procs,     \* the child, one more in its process group and one outside it
  pipes,     \* of "out" and "err": what was written and not read
  pipeOpen,  \* the pipe's end here is open
  got,       \* of "out" and "err": what was read
  lastBytes, spill,  \* the window of the last bytes, the file with all of them
  signaled,  \* what is left of the group was told to end
  result,    \* what the tool returns: [kind, text]
  seconds, moved,  \* the time; the loop has done something since
  written    \* all that was written to "out" (not in the code)
command == <<program, loop, procs, pipes, pipeOpen, got, lastBytes, spill, signaled, result, seconds, moved, written>>

NoResult == [kind |-> "none", text |-> <<>>]
NoFile == [is |-> FALSE, text |-> <<>>]
Absent == [runs |-> FALSE, holds |-> FALSE, deaf |-> FALSE]
InGroup == {"child", "member"}
CommandInit ==
  /\ program \in {"bash", "python"} /\ loop = (IF program = "bash" THEN "read" ELSE "wait")
  /\ procs = [p \in {"child", "member", "outside"} |-> IF p = "child" THEN [Absent EXCEPT !.runs = TRUE, !.holds = TRUE] ELSE Absent]
  /\ pipes = [s \in {"out", "err"} |-> <<>>] /\ got = pipes /\ pipeOpen = TRUE
  /\ lastBytes = <<>> /\ spill = NoFile /\ signaled = FALSE /\ result = NoResult
  /\ seconds = 0 /\ moved = FALSE /\ written = <<>>

\* ---- the processes ----
Loop_ == UNCHANGED <<program, loop, pipeOpen, got, lastBytes, spill, signaled, result, moved>>
Write(p, s) ==
  /\ procs[p].runs /\ procs[p].holds /\ Len(pipes[s]) < PipeSize /\ Len(written) < MaxBytes /\ result = NoResult
  /\ (program = "bash" => s = "out")
  /\ \E b \in {"x", "n"} : pipes' = [pipes EXCEPT ![s] = Append(@, b)] /\ written' = Append(written, b)
  /\ UNCHANGED <<procs, seconds>> /\ Loop_
\* Once, with the pipe or without; one that is deaf does not end when told to.
Spawn(p) ==
  /\ procs["child"].runs /\ p # "child" /\ procs[p] = Absent
  /\ \E holds, deaf \in BOOLEAN : procs' = [procs EXCEPT ![p] = [runs |-> TRUE, holds |-> holds, deaf |-> deaf]]
  /\ UNCHANGED <<pipes, seconds, written>> /\ Loop_
Exit(p) ==
  /\ procs[p].runs /\ procs' = [procs EXCEPT ![p].runs = FALSE, ![p].deaf = TRUE]
  /\ UNCHANGED <<pipes, seconds, written>> /\ Loop_
\* A second passes; the tool's thread is not starved for longer.
Second ==
  /\ seconds < MaxSeconds /\ moved /\ result = NoResult /\ seconds' = seconds + 1 /\ moved' = FALSE
  /\ UNCHANGED <<program, loop, procs, pipes, pipeOpen, got, lastBytes, spill, signaled, result, written>>
Kill(victims) == procs' = [p \in DOMAIN procs |-> IF p \in victims THEN [procs[p] EXCEPT !.runs = FALSE] ELSE procs[p]]
Held == \E p \in DOMAIN procs : procs[p].runs /\ procs[p].holds

\* ---- bash ----
Step(next) == loop' = next /\ moved' = TRUE
Returns(kind, text) == result' = [kind |-> kind, text |-> text] /\ loop' = "ended" /\ moved' = TRUE
Capped(text, n) == SubSeq(text, IF Len(text) > n THEN Len(text) + 1 - n ELSE 1, Len(text))
\* Mutant of BashRead: the file begins with the chunk that outgrew the window.
BashReadNew ==
  /\ program = "bash" /\ loop = "read" /\ pipeOpen /\ pipes["out"] # <<>>
  /\ LET n == IF Len(pipes["out"]) < ReadBytes THEN Len(pipes["out"]) ELSE ReadBytes
         chunk == SubSeq(pipes["out"], 1, n)
         all == got["out"] \o chunk
         spills == spill.is \/ Len(all) > TailBytes
     IN /\ pipes' = [pipes EXCEPT !["out"] = SubSeq(@, n + 1, Len(@))] /\ got' = [got EXCEPT !["out"] = all]
        /\ \/ /\ spill' = (IF spills THEN [is |-> TRUE, text |-> spill.text \o chunk] ELSE spill)
              /\ lastBytes' = Capped(lastBytes \o chunk, TailBytes)
              /\ Step("read") /\ UNCHANGED <<procs, result>>
           \/ spills /\ Kill(InGroup) /\ Returns("not captured", <<>>) /\ spill' = NoFile /\ UNCHANGED lastBytes
  /\ UNCHANGED <<program, pipeOpen, signaled, seconds, written>>
\* A chunk; what outgrows the window goes to a file, with all there was before.
BashRead ==
  /\ program = "bash" /\ loop = "read" /\ pipeOpen /\ pipes["out"] # <<>>
  /\ LET n == IF Len(pipes["out"]) < ReadBytes THEN Len(pipes["out"]) ELSE ReadBytes
         chunk == SubSeq(pipes["out"], 1, n)
         all == got["out"] \o chunk
         spills == spill.is \/ Len(all) > TailBytes
     IN /\ pipes' = [pipes EXCEPT !["out"] = SubSeq(@, n + 1, Len(@))] /\ got' = [got EXCEPT !["out"] = all]
        /\ \/ /\ spill' = (IF spills THEN [is |-> TRUE, text |-> (IF spill.is THEN spill.text ELSE lastBytes) \o chunk] ELSE spill)
              /\ lastBytes' = Capped(lastBytes \o chunk, TailBytes)
              /\ Step("read") /\ UNCHANGED <<procs, result>>
           \/ spills /\ Kill(InGroup) /\ Returns("not captured", <<>>) /\ spill' = NoFile /\ UNCHANGED lastBytes
  /\ UNCHANGED <<program, pipeOpen, signaled, seconds, written>>
\* Nothing to read now, or nothing any more.
BashDry ==
  /\ program = "bash" /\ loop = "read" /\ (pipeOpen => pipes["out"] = <<>>)
  /\ pipeOpen' = (pipeOpen /\ Held) /\ Step("check")
  /\ UNCHANGED <<program, procs, pipes, got, lastBytes, spill, signaled, result, seconds, written>>
\* Mutant of BashCheck: the deadline is the child's alone.
BashCheckOnce ==
  LET done == ~procs["child"].runs
      told == done /\ ~signaled
  IN /\ program = "bash" /\ loop = "check" /\ signaled' = (signaled \/ done)
     /\ IF seconds >= Deadline /\ ~done
        THEN Kill(InGroup) /\ Returns("timeout", <<>>) /\ spill' = NoFile
        ELSE /\ Kill(IF told THEN {p \in InGroup : ~procs[p].deaf} ELSE {})
             /\ Step(IF ~done \/ pipeOpen THEN "read" ELSE "grace") /\ UNCHANGED <<spill, result>>
     /\ UNCHANGED <<program, pipes, pipeOpen, got, lastBytes, seconds, written>>
\* Mutant of BashCheck: what the child leaves behind is not told to end.
BashCheckChild ==
  /\ program = "bash" /\ loop = "check"
  /\ IF seconds >= Deadline
     THEN Kill({"child"}) /\ Returns("timeout", <<>>) /\ spill' = NoFile /\ UNCHANGED signaled
     ELSE /\ Step(IF procs["child"].runs \/ pipeOpen THEN "read" ELSE "grace") /\ UNCHANGED <<procs, signaled, spill, result>>
  /\ UNCHANGED <<program, pipes, pipeOpen, got, lastBytes, seconds, written>>
\* The child is asked after, the others of the group are told to end once it is
\* gone, and at the deadline the group is killed.
BashCheck ==
  LET done == ~procs["child"].runs
      told == done /\ ~signaled
  IN /\ program = "bash" /\ loop = "check" /\ signaled' = (signaled \/ done)
     /\ IF seconds >= Deadline
        THEN Kill(InGroup) /\ Returns("timeout", <<>>) /\ spill' = NoFile
        ELSE /\ Kill(IF told THEN {p \in InGroup : ~procs[p].deaf} ELSE {})
             /\ Step(IF ~done \/ pipeOpen THEN "read" ELSE "grace") /\ UNCHANGED <<spill, result>>
     /\ UNCHANGED <<program, pipes, pipeOpen, got, lastBytes, seconds, written>>
\* What is behind the first line feed of the window, if the file has the rest.
FromLine(text) == LET n == SelectInSeq(text, LAMBDA b : b = "n") IN IF n = 0 THEN text ELSE SubSeq(text, n + 1, Len(text))
\* After a moment the group is killed; the file may fail at last.
BashEnd ==
  /\ program = "bash" /\ loop = "grace" /\ Kill(InGroup)
  /\ \/ Returns("done", IF spill.is THEN FromLine(lastBytes) ELSE lastBytes) /\ UNCHANGED spill
     \/ spill.is /\ Returns("not captured", <<>>) /\ spill' = NoFile
  /\ UNCHANGED <<program, pipes, pipeOpen, got, lastBytes, signaled, seconds, written>>

\* ---- python ----
\* A tenth of a second a turn; nothing is read before the child has ended.
PythonWait ==
  /\ program = "python" /\ loop = "wait"
  /\ IF ~procs["child"].runs THEN Step("out") /\ UNCHANGED <<procs, result>>
     ELSE IF seconds >= Deadline THEN Kill({"child"}) /\ Returns("timeout", <<>>)
     ELSE Step("wait") /\ UNCHANGED <<procs, result>>
  /\ UNCHANGED <<program, pipes, pipeOpen, got, lastBytes, spill, signaled, seconds, written>>
\* First all of "out", then all of "err", each to its end or to a full buffer.
PythonRead(s) ==
  /\ program = "python" /\ loop = s
  /\ \/ /\ pipes[s] # <<>> /\ Len(got[s]) < BufBytes
        /\ got' = [got EXCEPT ![s] = Append(@, Head(pipes[s]))] /\ pipes' = [pipes EXCEPT ![s] = Tail(@)]
        /\ Step(s) /\ UNCHANGED result
     \/ /\ Len(got[s]) = BufBytes \/ (pipes[s] = <<>> /\ ~Held)
        /\ UNCHANGED <<got, pipes>>
        /\ IF s = "out" THEN Step("err") /\ UNCHANGED result ELSE Returns("done", got["out"])
  /\ UNCHANGED <<program, procs, pipeOpen, lastBytes, spill, signaled, seconds, written>>

Tool == BashRead \/ BashDry \/ BashCheck \/ BashEnd \/ PythonWait \/ \E s \in {"out", "err"} : PythonRead(s)
CommandNext ==
  \/ Tool \/ Second
  \/ \E p \in DOMAIN procs : Spawn(p) \/ Exit(p) \/ \E s \in {"out", "err"} : Write(p, s)
\* The tool's thread runs and the time passes; the processes owe nothing.
CommandFairness == WF_command(Tool) /\ WF_command(Second)

(***************************************************************************)
(* Properties and claims.                                                   *)
(***************************************************************************)
\* When bash is done with a command no process of its group runs, whether the
\* child ended, left another one behind or ran out of time.
NothingLeftRunning == program = "bash" /\ result # NoResult => \A p \in InGroup : ~procs[p].runs
\* What bash shows is the end of what the command wrote, all of it if it is
\* short; the file that it names has every byte, in order.
OutputRight ==
  program = "bash" /\ result.kind = "done" =>
    /\ IsSuffix(result.text, written)
    /\ IF spill.is THEN spill.text = written /\ Len(written) > TailBytes ELSE result.text = written
\* A bash command whose output ends is over by its deadline or soon after.
BashComesBack == program = "bash" ~> result # NoResult
\* Claim (bash.c:345, "so the LLM cannot escalate beyond the safety limit"): a
\* command is not read from beyond its deadline.  One that writes without a pause
\* is: the time is looked at only when the pipe is empty.
DeadlineKept == program = "bash" => seconds <= Deadline + 1 \/ result # NoResult
\* Claim (python_execute.c:97, "Python execution timed out"): a Python program
\* comes back by its deadline.  One that leaves a process with its output open does not.
PythonComesBack == program = "python" ~> result # NoResult
=============================================================================
