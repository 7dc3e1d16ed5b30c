-------------------------------- MODULE Browser --------------------------------
(***************************************************************************)
(* The browser tool (src/tools/tool_browser.c), its session                    *)
(* (src/browser/browser.c) and its transport (src/browser/cdp.c): the agent's   *)
(* thread with one action at a time, the reader thread, the browser with a      *)
(* process it leaves behind, and the pipes between them.                       *)
(*                                                                         *)
(* A request and a reply are one piece each.  The browser answers in any order,  *)
(* late or never, and may end at any time.  Left out: its events, which the      *)
(* reader drops; arguments that are refused before anything is done, the bytes   *)
(* of pages and pictures, time other than "a deadline has passed", and memory     *)
(* that runs out but in the reader.                                           *)
(***************************************************************************)
EXTENDS Integers, Sequences, SequencesExt

CONSTANTS Actions,      \* what the model asks the tool for
          PendingMax,   \* CDP_MAX_PENDING
          RequestRoom,  \* requests the pipe to the browser holds
          MaxSleeps,    \* sleeps of 200 ms in a timeout of navigate
          RemoveTries,  \* attempts at the profile
          MaxActions    \* bound: calls of the tool
ASSUME BrowserAssumption ==
  /\ Actions \subseteq {"open", "navigate", "evaluate", "screenshot", "click", "status", "close"}
  /\ {PendingMax, RequestRoom, MaxSleeps, RemoveTries} \subseteq Nat \ {0} /\ MaxActions \in Nat

VARIABLES
  caller,     \* where the agent's thread is: [at, action, todo, id, slept, done, first]
  session,    \* [is, page]: is when the tool holds it, page when it has a tab
  client,     \* CdpClient: [is, dead, shutdown, pending]
  listener,   \* "none", "polls" or "ended"
  wires,      \* [ours, requests, replies]: ours when our ends are open
  leader,     \* the browser: [is, told]
  straggler,  \* a process of its group: [runs, holds, told]
  requested,  \* by id, what was asked and what the browser answered (not in the code)
  outcome,    \* of the last action: [action, kind, first]
  uses        \* calls of the tool so far
browser == <<caller, session, client, listener, wires, leader, straggler, requested, outcome, uses>>

NoSession == [is |-> FALSE, page |-> FALSE]
NoClient == [is |-> FALSE, dead |-> FALSE, shutdown |-> FALSE, pending |-> <<>>]
NoWires == [ours |-> FALSE, requests |-> <<>>, replies |-> <<>>]
NoStraggler == [runs |-> FALSE, holds |-> FALSE, told |-> FALSE]
Idle == [at |-> "idle", action |-> "none", todo |-> <<>>, id |-> 0, slept |-> 0, done |-> FALSE, first |-> 1]
BrowserInit ==
  /\ caller = Idle /\ session = NoSession /\ client = NoClient /\ listener = "none" /\ wires = NoWires
  /\ leader = [is |-> "none", told |-> FALSE] /\ straggler = NoStraggler
  /\ requested = <<>> /\ outcome = [action |-> "none", kind |-> "none", first |-> 1] /\ uses = 0

\* The browser's ends of the pipes are closed.
HungUp == leader.is \notin {"forked", "runs"} /\ ~(straggler.runs /\ straggler.holds)

\* ---- the actions of the tool ----
\* What an action sends: the page's state is asked for until it is complete, a
\* click is two events; the tab is made before the first that needs it.
NavigateSends == <<"navigate", "state", "extract">>
EvaluateSends == <<"evaluate">>
ScreenshotSends == <<"capture">>
ClickSends == <<"press", "release">>
EnsurePage == IF session.page THEN <<>> ELSE <<"create", "attach">>
Requests(a) ==
  EnsurePage \o (CASE a = "navigate" -> NavigateSends
                   [] a = "evaluate" -> EvaluateSends
                   [] a = "screenshot" -> ScreenshotSends
                   [] a = "click" -> ClickSends)
Concludes(kind) == outcome' = [action |-> caller.action, kind |-> kind, first |-> caller.first] /\ caller' = Idle
AskTool(a) ==
  /\ caller.at = "idle" /\ uses < MaxActions /\ uses' = uses + 1
  /\ LET At(at, todo) == caller' = [Idle EXCEPT !.at = at, !.action = a, !.todo = todo, !.first = Len(requested) + 1]
                         /\ outcome' = [outcome EXCEPT !.kind = "none"]
         Says(kind) == outcome' = [action |-> a, kind |-> kind, first |-> Len(requested) + 1] /\ UNCHANGED caller
     IN \/ a = "status" /\ Says(IF session.is /\ ~client.dead THEN "running" ELSE "not running")
        \/ a = "close" /\ IF session.is THEN At("term", <<>>) ELSE Says("not running")
        \/ a = "open" /\ session.is /\ Says("already open")
        \/ a \notin {"status", "close"} /\ ~session.is /\ At("spawn", <<>>)
        \/ a \notin {"status", "close", "open"} /\ session.is /\ At("write", Requests(a))
  /\ UNCHANGED <<session, client, listener, wires, leader, straggler, requested>>
\* No browser is found or no profile made; the child is not started; or it is.
SpawnBrowser ==
  /\ caller.at = "spawn"
  /\ \/ Concludes("error") /\ UNCHANGED <<leader, straggler, wires>>
     \/ caller' = [caller EXCEPT !.at = "remove"] /\ UNCHANGED <<leader, straggler, wires, outcome>>
     \/ /\ caller' = [caller EXCEPT !.at = "client"] /\ leader' = [is |-> "forked", told |-> FALSE] /\ straggler' = NoStraggler
        /\ wires' = [NoWires EXCEPT !.ours = TRUE] /\ UNCHANGED outcome
  /\ UNCHANGED <<session, client, listener, requested, uses>>
\* The reader starts, or the child is buried.
StartClient ==
  /\ caller.at = "client" /\ requested' = <<>>
  /\ \/ /\ client' = [NoClient EXCEPT !.is = TRUE] /\ listener' = "polls"
        /\ caller' = [caller EXCEPT !.at = "write", !.todo = <<"version">>, !.first = 1]
     \/ caller' = [caller EXCEPT !.at = "term"] /\ UNCHANGED <<client, listener>>
  /\ UNCHANGED <<session, wires, leader, straggler, outcome, uses>>

\* ---- one call of the transport ----
\* What a call that failed leads to: the handshake's to the end of the session, a
\* question for the state to a pause, any other to the end of the action.
Failed(dead) ==
  LET again == caller.slept + 1 < MaxSleeps
  IN CASE Head(caller.todo) = "version" ->
            /\ caller' = [caller EXCEPT !.at = "term"] /\ UNCHANGED <<outcome, session>>
            /\ leader' = (IF dead /\ leader.is = "zombie" THEN [leader EXCEPT !.is = "reaped"] ELSE leader)
       [] Head(caller.todo) = "state" ->
            /\ caller' = [caller EXCEPT !.at = "write", !.slept = @ + 1, !.todo = IF again THEN @ ELSE Tail(@)]
            /\ UNCHANGED <<outcome, session, leader>>
       [] OTHER -> Concludes("error") /\ UNCHANGED <<session, leader>>
\* And one that was answered; the picture's file may fail.
WasAnswered(reply) ==
  LET rest == Tail(caller.todo)
      loading == reply.method = "state" /\ reply.says = "loading"
  IN IF reply.says = "error" \/ loading THEN Failed(client.dead)
     ELSE /\ session' = [session EXCEPT !.page = @ \/ reply.method = "attach", !.is = @ \/ reply.method = "version"]
          /\ IF rest # <<>> THEN caller' = [caller EXCEPT !.at = "write", !.todo = rest, !.done = @ \/ reply.method = "state"]
                                 /\ UNCHANGED outcome
             ELSE \/ Concludes(IF reply.method = "version" THEN "opened"
                            ELSE IF caller.action = "navigate" /\ ~caller.done THEN "still loading" ELSE "done")
                  \/ reply.method = "capture" /\ Concludes("error")
          /\ UNCHANGED leader
\* The request is written, once there is room; to a browser that is gone it fails.
SendRequest ==
  /\ caller.at = "write"
  /\ IF client.dead THEN Failed(TRUE) /\ UNCHANGED <<client, wires, requested>>
     ELSE /\ requested' = Append(requested, [method |-> Head(caller.todo), says |-> "nothing"])
          /\ IF HungUp THEN client' = [client EXCEPT !.dead = TRUE] /\ Failed(TRUE) /\ UNCHANGED wires
             ELSE /\ Len(wires.requests) < RequestRoom /\ wires' = [wires EXCEPT !.requests = Append(@, Len(requested) + 1)]
                  /\ caller' = [caller EXCEPT !.at = "wait", !.id = Len(requested) + 1]
                  /\ UNCHANGED <<session, client, leader, outcome>>
  /\ UNCHANGED <<listener, straggler, uses>>
\* Mutant of Mine: the oldest reply there is.
Oldest(reply) == TRUE
\* The reply that has the request's id.
Mine(reply) == reply.id = caller.id
TakeReply ==
  /\ caller.at = "wait" /\ ~client.dead
  /\ LET n == SelectInSeq(client.pending, Mine)
     IN n # 0 /\ client' = [client EXCEPT !.pending = RemoveAt(@, n)] /\ WasAnswered(client.pending[n])
  /\ UNCHANGED <<listener, wires, straggler, requested, uses>>
\* The transport is dead or the deadline has passed, whatever has come.
NoReply ==
  /\ caller.at = "wait" /\ UNCHANGED client /\ Failed(client.dead)
  /\ UNCHANGED <<listener, wires, straggler, requested, uses>>

\* ---- closing ----
InBrowserGroup == leader.is \in {"runs", "zombie"} \/ straggler.runs
\* Mutant of Term: the leader alone is told.
TermLeader ==
  /\ caller.at = "term" /\ caller' = [caller EXCEPT !.at = "reap"]
  /\ leader' = (IF leader.is = "forked" THEN [is |-> "zombie", told |-> TRUE] ELSE [leader EXCEPT !.told = TRUE])
  /\ UNCHANGED <<session, client, listener, wires, straggler, requested, outcome, uses>>
\* SIGTERM for the group, or for the leader while it has none.
Term ==
  /\ caller.at = "term" /\ caller' = [caller EXCEPT !.at = "reap"]
  /\ leader' = (IF leader.is = "forked" THEN [is |-> "zombie", told |-> TRUE] ELSE [leader EXCEPT !.told = TRUE])
  /\ straggler' = [straggler EXCEPT !.told = @ \/ straggler.runs]
  /\ UNCHANGED <<session, client, listener, wires, requested, outcome, uses>>
\* Three seconds of asking for the child; one that was reaped already is an error.
Reap ==
  /\ caller.at = "reap"
  /\ IF leader.is = "zombie" THEN leader' = [leader EXCEPT !.is = "reaped"] /\ caller' = [caller EXCEPT !.at = "stop"]
     ELSE caller' = [caller EXCEPT !.at = "kill"] /\ UNCHANGED leader
  /\ UNCHANGED <<session, client, listener, wires, straggler, requested, outcome, uses>>
\* SIGKILL, for the group or the leader.
KillGroup ==
  /\ caller.at = "kill" /\ caller' = [caller EXCEPT !.at = "await"]
  /\ leader' = (IF leader.is \in {"runs", "forked"} THEN [leader EXCEPT !.is = "zombie"] ELSE leader)
  /\ straggler' = (IF InBrowserGroup THEN [straggler EXCEPT !.runs = FALSE] ELSE straggler)
  /\ UNCHANGED <<session, client, listener, wires, requested, outcome, uses>>
Await ==
  /\ caller.at = "await" /\ leader.is \in {"zombie", "reaped"} /\ leader' = [leader EXCEPT !.is = "reaped"]
  /\ caller' = [caller EXCEPT !.at = "stop"]
  /\ UNCHANGED <<session, client, listener, wires, straggler, requested, outcome, uses>>
\* The reader is told to end and joined; then our ends of the pipes are closed.
StopReader ==
  /\ caller.at = "stop"
  /\ IF client.is THEN /\ client' = [client EXCEPT !.shutdown = TRUE, !.dead = TRUE]
                       /\ caller' = [caller EXCEPT !.at = "join"] /\ UNCHANGED wires
     ELSE caller' = [caller EXCEPT !.at = "remove"] /\ wires' = NoWires /\ UNCHANGED client
  /\ UNCHANGED <<session, listener, leader, straggler, requested, outcome, uses>>
JoinReader ==
  /\ caller.at = "join" /\ listener = "ended" /\ listener' = "none" /\ client' = NoClient /\ wires' = NoWires
  /\ caller' = [caller EXCEPT !.at = "remove", !.slept = 0]
  /\ UNCHANGED <<session, leader, straggler, requested, outcome, uses>>
\* rm of the profile, if it is ours, succeeds, or fails for a while if a process
\* still writes there.
RemoveProfile ==
  /\ caller.at = "remove"
  /\ \/ /\ straggler.runs /\ caller.slept + 1 < RemoveTries
        /\ caller' = [caller EXCEPT !.slept = @ + 1] /\ UNCHANGED <<session, outcome>>
     \/ Concludes(IF caller.action = "close" THEN "done" ELSE "error") /\ session' = NoSession
  /\ UNCHANGED <<client, listener, wires, leader, straggler, requested, uses>>

\* ---- the reader thread ----
\* The oldest entries make room.
Stored(replies) == SubSeq(replies, IF Len(replies) > PendingMax THEN Len(replies) + 1 - PendingMax ELSE 1, Len(replies))
ReaderEnds == listener' = "ended" /\ client' = [client EXCEPT !.dead = TRUE] /\ UNCHANGED wires
\* A round: the flags, the hang-up, then a chunk of messages.
ReadRound ==
  /\ listener = "polls"
  /\ IF client.shutdown \/ client.dead \/ HungUp THEN ReaderEnds
     ELSE \E n \in 1 .. Len(wires.replies) :
            \/ ReaderEnds
            \/ /\ wires' = [wires EXCEPT !.replies = SubSeq(@, n + 1, Len(@))] /\ UNCHANGED listener
               /\ client' = [client EXCEPT !.pending = Stored(@ \o SubSeq(wires.replies, 1, n))]
  /\ UNCHANGED <<caller, session, leader, straggler, requested, outcome, uses>>

\* ---- the browser ----
CallerRests == UNCHANGED <<caller, session, client, listener, outcome, uses>>
Exec == leader.is = "forked" /\ leader' = [leader EXCEPT !.is = "runs"] /\ UNCHANGED <<wires, straggler, requested>> /\ CallerRests
\* It answers one of the requests.
Reply ==
  /\ leader.is = "runs" /\ wires.ours
  /\ \E n \in DOMAIN wires.requests :
       LET id == wires.requests[n]
           method == requested[id].method
       IN \E says \in IF method = "state" THEN {"complete", "loading", "error"} ELSE {"ok", "error"} :
            /\ wires' = [wires EXCEPT !.requests = RemoveAt(@, n), !.replies = Append(@, [id |-> id, method |-> method, says |-> says])]
            /\ requested' = [requested EXCEPT ![id].says = says]
  /\ UNCHANGED <<leader, straggler>> /\ CallerRests
\* One process more, which may keep the pipes; a browser told to end starts none.
Fork ==
  /\ leader = [is |-> "runs", told |-> FALSE] /\ straggler = NoStraggler
  /\ \E holds \in BOOLEAN : straggler' = [runs |-> TRUE, holds |-> holds, told |-> FALSE]
  /\ UNCHANGED <<wires, leader, requested>> /\ CallerRests
\* Of itself, closed by the user, or because it was told to.
Leave ==
  /\ \/ leader.is \in {"forked", "runs"} /\ leader' = [leader EXCEPT !.is = "zombie"] /\ UNCHANGED straggler
     \/ straggler.runs /\ straggler' = [straggler EXCEPT !.runs = FALSE] /\ UNCHANGED leader
  /\ UNCHANGED <<wires, requested>> /\ CallerRests

BrowserCaller ==
  \/ SpawnBrowser \/ StartClient \/ SendRequest \/ TakeReply \/ NoReply
  \/ Term \/ Reap \/ KillGroup \/ Await \/ StopReader \/ JoinReader \/ RemoveProfile
BrowserNext == (\E a \in Actions : AskTool(a)) \/ BrowserCaller \/ ReadRound \/ Exec \/ Reply \/ Fork \/ Leave
BrowserFairness == WF_browser(BrowserCaller) /\ WF_browser(ReadRound)
BrowserSpec == BrowserInit /\ [][BrowserNext]_browser /\ BrowserFairness

(***************************************************************************)
(* Properties and claims.                                                   *)
(***************************************************************************)
Since(first, method) == {requested[i].says : i \in {j \in first .. Len(requested) : requested[j].method = method}}
\* What an action reports as done the browser has answered so for a request of
\* this very action, however late it answered earlier ones.
DoneIsDone ==
  LET Did(method, says) == says \in Since(outcome.first, method)
  IN /\ outcome.kind = "opened" => Did("version", "ok")
     /\ outcome.kind = "done" =>
          CASE outcome.action = "navigate" -> Did("navigate", "ok") /\ Did("state", "complete") /\ Did("extract", "ok")
            [] outcome.action = "evaluate" -> Did("evaluate", "ok")
            [] outcome.action = "screenshot" -> Did("capture", "ok")
            [] outcome.action = "click" -> Did("press", "ok") /\ Did("release", "ok")
            [] OTHER -> TRUE
\* Without a session and between actions nothing of one is left: the browser is
\* reaped, its reader has ended, the pipes are closed, and what is left of its
\* group was told to end.
NothingLeftOpen ==
  caller.at = "idle" /\ ~session.is =>
    /\ leader.is \in {"none", "reaped"} /\ listener = "none" /\ ~client.is /\ ~wires.ours
    /\ straggler.runs => straggler.told
\* An action ends, whatever the browser does, unless it writes to one that does
\* not read.
Writing == caller.at = "write" /\ Len(wires.requests) >= RequestRoom
BrowserReturns == []<>(caller.at = "idle" \/ Writing)

\* Claim (cdp.h:74, "how long to wait for the matching response"): a call ends by
\* its timeout.  The write before the wait has none.
CallTimesOut == []<>(caller.at = "idle")
\* Claim (tool_browser.c:52, "All actions that touch a page auto-open the browser
\* first"): they then act.  The first returns when the window is open.
FirstActs == outcome.kind = "opened" => outcome.action = "open"
\* Claim (browser.h:58-59, "a successful return means the session is usable"): after an
\* open the browser is there.  A dead session counts as open until it is closed.
OpenIsUsable == outcome.kind = "already open" => ~client.dead
\* Claim (cdp.c:211, "Drain whatever the browser left in the pipe before exiting"):
\* the last replies of a browser that ends are read.  A hang-up is seen first.
LastWordsHeard == listener = "ended" /\ ~client.shutdown => wires.replies = <<>>
\* Claim (browser.h:60, "is reaped by browser_close()"): the child is signalled before
\* it is reaped.  After a failed handshake it is the other way round.
OnlyOwnSignalled == caller.at \in {"term", "kill"} => leader.is # "reaped"
\* Claim (browser.h:97, "reusing the existing tab on subsequent calls"): one tab is made.
\* If its attaching fails the next action makes another.
OneTab == \A i, j \in DOMAIN requested : requested[i] = [method |-> "create", says |-> "ok"] /\ requested[j] = requested[i] => i = j
\* Claim (browser.c:1103, "mousePressed then mouseReleased"): no button stays pressed.
\* It does when the second request fails.
ButtonReleased ==
  caller.at = "idle" =>
    \A i \in DOMAIN requested : requested[i] = [method |-> "press", says |-> "ok"] =>
      \E j \in i + 1 .. Len(requested) : requested[j] = [method |-> "release", says |-> "ok"]
=============================================================================
