------------------------------- MODULE SubAgent -------------------------------
(***************************************************************************)
(* The run of the delegate tool (delegate_execute of                              *)
(* src/tools/tool_delegate.c): a conversation of its own with the model, whose    *)
(* tools are called without asking, until the model calls none or has had all     *)
(* its turns.                                                                *)
(*                                                                         *)
(* A message is [role, calls], calls the number asked for.  Memory may run out    *)
(* where a message is built or the list grows (Losses).  Left out: what tools do   *)
(* and say, memory that runs out before the first turn.                         *)
(***************************************************************************)
EXTENDS Integers, Sequences, FiniteSets

CONSTANTS Iterations,  \* what a caller may ask for
          MaxTurnsSub, \* 50
          FirstRoom,   \* 4, the first size of the list
          CallLists,   \* sequences of names of tools, "" for none
          Losses       \* whether memory may run out
ASSUME SubAssumption == Iterations \subseteq Int /\ MaxTurnsSub \in Nat \ {0} /\ FirstRoom \in Nat /\ CallLists \subseteq Seq(STRING)

VARIABLE sub   \* [msgs, room, left, todo, result, status] and, not in the code, [turns, said, lost, most]
SubContents == {"none", "c1", "c2"}

\* Between one and MaxTurnsSub turns.
Clamped(n) == IF n < 1 THEN 1 ELSE IF n > MaxTurnsSub THEN MaxTurnsSub ELSE n
SubMsg(role, calls) == [role |-> role, calls |-> calls]
SubInit ==
  sub \in {[msgs |-> <<SubMsg("system", 0), SubMsg("user", 0)>>, room |-> FirstRoom, left |-> Clamped(n), todo |-> <<>>,
            result |-> "none", status |-> "asking", turns |-> 0, said |-> "none", lost |-> FALSE, most |-> Clamped(n)] : n \in Iterations}
\* sub_tool_calls_remaining
HasCalls(calls) == \E k \in DOMAIN calls : calls[k] # ""
\* A message is kept, lost before it is in the list, or the list cannot grow.
Fates == IF Losses THEN {"kept", "lost", "stuck"} ELSE {"kept"}
Full == Len(sub.msgs) >= sub.room
Grown == IF Full THEN 2 * sub.room ELSE sub.room
Kept(s, m, fate) ==
  CASE fate = "kept" -> [s EXCEPT !.msgs = Append(@, m), !.room = Grown]
    [] fate = "lost" -> [s EXCEPT !.lost = TRUE]
    [] OTHER -> [s EXCEPT !.lost = TRUE, !.status = "done"]
\* Mutant of Turned: a response without content takes the result away.
TurnedBare(s, content, calls) ==
  [s EXCEPT !.result = content, !.said = IF content = "none" THEN @ ELSE content, !.left = @ - 1, !.turns = @ + 1,
            !.todo = IF HasCalls(calls) THEN calls ELSE <<>>, !.status = IF HasCalls(calls) THEN "tools" ELSE "done"]
Turned(s, content, calls) ==
  [s EXCEPT !.result = IF content = "none" THEN @ ELSE content, !.said = IF content = "none" THEN @ ELSE content,
            !.left = @ - 1, !.turns = @ + 1,
            !.todo = IF HasCalls(calls) THEN calls ELSE <<>>, !.status = IF HasCalls(calls) THEN "tools" ELSE "done"]
SubChat ==
  /\ sub.status = "asking" /\ sub.left > 0
  /\ \/ sub' = [sub EXCEPT !.status = "done", !.turns = @ + 1]
     \/ \E content \in SubContents, calls \in CallLists, fate \in Fates :
          /\ fate = "stuck" => Full
          /\ LET s == Turned(sub, content, calls)
             IN IF content = "none" /\ ~HasCalls(calls) THEN sub' = s
                ELSE sub' = Kept(s, SubMsg("assistant", Len(calls)), fate)
\* A tool that is unknown, fails or answers: a message each way.
SubTool ==
  /\ sub.status = "tools" /\ sub.todo # <<>>
  /\ \E fate \in Fates : /\ fate = "stuck" => Full
                         /\ sub' = Kept([sub EXCEPT !.todo = Tail(@)], SubMsg("tool", 0), fate)
SubAgain == sub.status = "tools" /\ sub.todo = <<>> /\ sub' = [sub EXCEPT !.status = "asking"]
SubOut == sub.status = "asking" /\ sub.left = 0 /\ sub' = [sub EXCEPT !.status = "done"]
SubNext == SubChat \/ SubTool \/ SubAgain \/ SubOut

\* The tool brings the last thing the sub-agent said, after no more turns than
\* asked for, and unless memory runs out every message of a tool stands behind
\* the one that called it, one for each call before the model is asked again.
SubAgentKeepsOrder ==
  LET m == sub.msgs
      isTool(i) == i \in DOMAIN m /\ m[i].role = "tool"
      behind(i) == Cardinality({j \in i + 1 .. Len(m) : \A k \in i + 1 .. j : isTool(k)})
  IN /\ sub.result = sub.said /\ sub.turns <= sub.most
     /\ ~sub.lost => /\ ~isTool(3)
                     /\ \A i \in DOMAIN m : m[i].role = "assistant" =>
                          behind(i) = IF i + behind(i) = Len(m) THEN m[i].calls - Len(sub.todo) - (IF sub.status = "done" /\ behind(i) = 0 THEN m[i].calls ELSE 0)
                                      ELSE m[i].calls
\* Claim (tool_delegate.c:312, "an OOM-dropped tool message used to vanish with no
\* trace"): the conversation stays whole even then.
SubAgentWhole ==
  \A i \in DOMAIN sub.msgs : sub.msgs[i].role = "tool" => \E j \in 1 .. i - 1 : sub.msgs[j].role = "assistant" /\ \A k \in j + 1 .. i : sub.msgs[k].role = "tool"
=============================================================================
