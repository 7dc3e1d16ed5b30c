----------------------------- MODULE MCAgentWork -----------------------------
(***************************************************************************)
(* What an agent works with, in one run: its tools and the checks before them   *)
(* (the edit's text work, the files, the approvals, the checks of commands and  *)
(* addresses, reading in pieces, running a command, the browser) and its model   *)
(* (the messages and the breaker around a call, the streams of the providers,    *)
(* the request to Codex, the terminal's reading of a stream, the sub-agent).     *)
(* They share no variable, so each behaviour is of one of them, its subject.     *)
(***************************************************************************)
EXTENDS FileTools, Approvals, SafetyChecks, ReadWindow, CommandRun, Browser,
        AgentCall, OpenAIStream, CompatStream, OllamaStream, CodexRequest, StreamClassifier, SubAgent, TLC
VARIABLE subject

\* ---- values: the tools ----
MCSeqs(S, n) == UNION {[1 .. k -> S] : k \in 0 .. n}
MCTextFiles == MCSeqs({"a", "r", "n"}, 3) \cup {<<"m">> \o s : s \in MCSeqs({"a", "n", "z"}, 2)}
               \cup {<<"a", "r", "n", "b", "r", "n", "a">>, <<"a", "n", "n", "n", "b", "n">>, <<"a", "n", "n", "n", "b", "a">>,
                     <<"a", "n", "b", "n">>, <<"b", "a", "n", "a">>}
MCOldStrings == {<<>>, <<"a">>, <<"b">>, <<"n">>, <<"a", "n">>, <<"r", "n">>, <<"n", "b">>, <<"b", "a">>}
MCNewStrings == {<<>>, <<"b">>, <<"b", "n">>, <<"n", "r", "n">>}
MCRoot == <<"ws">>
MCf == <<"ws", "f">>
\* A link to a file of the workspace, and a directory that leads out of it.
MCTree == [dirs |-> {<<>>, <<"ws">>, <<"ws", "d">>, <<"o">>},
           links |-> (<<"ws", "l">> :> MCf) @@ (<<"ws", "x">> :> <<"o">>),
           files |-> (MCf :> <<"a">>) @@ (<<"ws", "d", "g">> :> <<"b", "n">>)]
MCTrees == {MCTree}
MCPath(ns) == [abs |-> FALSE, dots |-> FALSE, names |-> ns]
MCPaths == {MCPath(<<"f">>), MCPath(<<"l">>), MCPath(<<"d", "g">>), MCPath(<<"x", "m", "g">>)}
MCLists == {[allowed |-> {}, blocked |-> {"k"}, parts |-> {<<"d", "k">>}]}
MCWrites == {<<>>, <<"b", "z">>}
MCFileEdits == {<<[old |-> <<"a">>, new |-> <<"b", "b">>]>>}
MCTools == {"bash", "edit", "read"}
MCDefaultTools == <<"bash", "edit">>
MCConfLists == {<<>>, <<"edit", "bash", "bash">>}
MCCommands == UNION {[1 .. n -> {"x", "sp", ";", "|", "&", "lf"}] : n \in 0 .. 3} \cup [1 .. 4 -> {"x", "sp", ";", "lf"}]
              \cup {<<"y", "lf", "x", "sp", "x">>, <<"y", "&", "&", "x", "sp", "x">>}
MCPatterns == {<<"x", "sp", "x">>, <<"x", "x">>}
MCName(labels, local) == [kind |-> "name", labels |-> labels, fcfd |-> local]
MCV4 == {V4(a, b) : a \in {0, 10, 127, 169, 172, 192, 198, 224}, b \in {0, 15, 16, 31, 32, 168, 254}}
MCV6 == {V6(c) : c \in {"loopback", "link-local", "unique-local", "other"}} \cup {V6("mapped") @@ [a |-> 10, b |-> 0]}
MCHosts == {V4(10, 0), V4(172, 31), V4(192, 168), V4(8, 8), V6("loopback"), MCName(<<"com", "a">>, FALSE),
            MCName(<<"com", "a", "w">>, FALSE), MCName(<<"com", "fc">>, TRUE), MCName(<<"localhost", "w">>, FALSE)}
MCUrls == [scheme : {"http", "file"}, user : BOOLEAN, host : MCHosts]
MCDomains == {{}, {<<"com", "a">>}}
MCAddresses == MCV4 \cup MCV6
MCTextsToRead == UNION {[1 .. n -> {"x", "n", "nul"}] : n \in 0 .. 4}

\* ---- values: the model ----
MCReasoning(id, s) == [kind |-> "reasoning", id |-> id, summary |-> s]
MCText(text, ph) == [id |-> "m", kind |-> "message", text |-> text, phase |-> ph]
MCCall(id, c, n, a) == [kind |-> "call", id |-> id, call |-> c, name |-> n, args |-> a]
MCOutputs ==
  {<<MCReasoning("r1", <<<<"s1", "m", "s2">>, <<"s3">>>>), MCText(<<"t1", "t2">>, "final")>>,
   <<MCReasoning("r1", <<<<"s1">>>>), MCCall("i1", "c1", "bash", <<"a1", "a2">>), MCCall("i2", "c2", "bash", <<"b1">>)>>,
   <<MCText(<<"t1">>, ""), MCReasoning("r1", <<<<"s1">>>>), MCReasoning("r2", <<<<"s2">>, <<"m">>>>), MCCall("i1", "c1", "edit", <<>>)>>,
   <<MCReasoning("r1", <<>>), MCText(<<"t1">>, "final")>>}
MCHabits ==
  {{}, {"summary.delta"}, {"summary.delta", "summary.done"}, {"args.delta", "args.done"}, {"item.added"}, {"output", "args.done"},
   {"item.added", "args.delta", "args.done"}, {"index"}, {"item"}, {"index", "item.added"}, {"index", "item", "args.delta"}}
MCAnswer(th, t, c) == [thought |-> th, text |-> t, calls |-> c]
MCToolCall(id, n, a) == [id |-> id, name |-> n, args |-> a]
MCAnswers ==
  {MCAnswer(<<"h1", "h2">>, <<"t1", "t2">>, <<>>),
   MCAnswer(<<"h1">>, <<>>, <<MCToolCall("c1", "bash", <<"a1", "a2">>), MCToolCall("c2", "edit", <<>>)>>),
   MCAnswer(<<>>, <<"t1">>, <<MCToolCall("c1", "bash", <<"a1", "a2">>), MCToolCall("c2", "edit", <<"b1">>)>>),
   MCAnswer(<<>>, <<>>, <<>>), MCAnswer(<<"h1">>, <<>>, <<>>)}
MCNamed(n, a) == [name |-> n, args |-> a]
MCTalks ==
  {<<MCAnswer("h1", "", <<>>), MCAnswer("h2", "", <<>>), MCAnswer("", "t1", <<>>), MCAnswer("", "", <<MCNamed("bash", "a")>>), MCAnswer("", "", <<>>)>>,
   <<MCAnswer("h1", "t1", <<MCNamed("bash", "a"), MCNamed("", "x")>>), MCAnswer("h2", "", <<>>),
     MCAnswer("", "", <<MCNamed("edit", "b"), MCNamed("bash", "c")>>)>>,
   <<MCAnswer("", "", <<>>)>>}
MCBackends == {"codex", "compat", "compat buffered", "ollama", "ollama buffered"}
MCToolSets == {<<>>, <<[name |-> "bash", fits |-> TRUE], [name |-> "edit", fits |-> TRUE]>>, <<[name |-> "x", fits |-> FALSE]>>}
MCBlocks == {<<"a">>, <<"lf">>, <<"<">>, <<"<", "t">>, OpenMark, CloseMark}
MCStreams ==
  {FlattenSeq(s) : s \in UNION {[1 .. n -> MCBlocks] : n \in 0 .. 3}}
  \cup {OpenMark \o <<"a">> \o CloseMark \o <<"lf", "b">> \o OpenMark \o <<"c">> \o CloseMark \o <<"d", "lf">>,
        <<"a">> \o OpenMark \o <<"b">> \o CloseMark \o <<"c">> \o OpenMark \o <<"d">> \o CloseMark \o <<"e">>}
MCCallLists == {<<>>, <<"bash">>, <<"", "nope", "bash">>, <<"">>}

\* ---- the run ----
ToolsStart ==
  /\ EditInit /\ ChecksInit
  /\ FilesInit /\ (subject # "files" => front = "tui" /\ policy = "restricted")
  /\ ApprovalInit /\ (subject # "approvals" => conf = <<>> /\ approvalMode = "restricted")
  /\ ReadInit /\ (subject # "read" => reading.file = <<>>)
  /\ CommandInit /\ (subject # "command" => program = "bash")
  /\ BrowserInit
ModelStart ==
  /\ CallInit /\ (subject # "call" => ~streaming)
  /\ OpenAIStreamInit /\ (subject # "codex" => codex.output = <<MCReasoning("r1", <<>>), MCText(<<"t1">>, "final")>> /\ codex.habit = {})
  /\ CompatInit /\ (subject # "compat" => served.answer = MCAnswer(<<>>, <<>>, <<>>))
  /\ OllamaInit /\ (subject # "ollama" => talk.lines = <<MCAnswer("", "", <<>>)>> /\ ~talk.ended)
  /\ RequestInit
  /\ FeedInit /\ (subject # "terminal" => feed.text = <<>>)
  /\ SubInit /\ (subject # "sub" => sub.left = 1)
Start ==
  /\ subject \in {"edit", "files", "approvals", "checks", "read", "command", "browser", "call", "codex", "compat", "ollama", "request", "terminal", "sub"}
  /\ ToolsStart /\ ModelStart
ofTools == <<request, fileTools, approvals, check, reading, command, browser>>
ofModel == <<call, stream, compat, ollama, requests, feed, sub>>
ToolsStep ==
  \/ subject = "edit" /\ AskEdit /\ UNCHANGED <<fileTools, approvals, check, reading, command, browser>>
  \/ subject = "files" /\ FilesNext /\ UNCHANGED <<request, approvals, check, reading, command, browser>>
  \/ subject = "approvals" /\ ApprovalNext /\ UNCHANGED <<request, fileTools, check, reading, command, browser>>
  \/ subject = "checks" /\ ChecksNext /\ UNCHANGED <<request, fileTools, approvals, reading, command, browser>>
  \/ subject = "read" /\ ReadNext /\ UNCHANGED <<request, fileTools, approvals, check, command, browser>>
  \/ subject = "command" /\ CommandNext /\ UNCHANGED <<request, fileTools, approvals, check, reading, browser>>
  \/ subject = "browser" /\ BrowserNext /\ UNCHANGED <<request, fileTools, approvals, check, reading, command>>
ModelStep ==
  \/ subject = "call" /\ CallNext /\ UNCHANGED <<stream, compat, ollama, requests, feed, sub>>
  \/ subject = "codex" /\ OpenAIStreamNext /\ UNCHANGED <<call, compat, ollama, requests, feed, sub>>
  \/ subject = "compat" /\ CompatNext /\ UNCHANGED <<call, stream, ollama, requests, feed, sub>>
  \/ subject = "ollama" /\ OllamaNext /\ UNCHANGED <<call, stream, compat, requests, feed, sub>>
  \/ subject = "request" /\ RequestNext /\ UNCHANGED <<call, stream, compat, ollama, feed, sub>>
  \/ subject = "terminal" /\ FeedNext /\ UNCHANGED <<call, stream, compat, ollama, requests, sub>>
  \/ subject = "sub" /\ SubNext /\ UNCHANGED <<call, stream, compat, ollama, requests, feed>>
MCNext ==
  \/ ToolsStep /\ UNCHANGED <<ofModel, subject>>
  \/ ModelStep /\ UNCHANGED <<ofTools, subject>>
\* The fairness of CommandRun and Browser, where they move.
Spec == Start /\ [][MCNext]_<<subject, ofTools, ofModel>>
        /\ WF_command(subject = "command" /\ Tool) /\ WF_command(subject = "command" /\ Second)
        /\ WF_browser(subject = "browser" /\ BrowserCaller) /\ WF_browser(subject = "browser" /\ ReadRound)

\* ---- the properties, of the machine that moves ----
\* What an edit writes is what its replacements mean, its diff shows that and
\* nothing else (edit.c), and the offsets that read_file.c names read all of a file.
TextsSound == (subject = "edit" => EditsMeanIt /\ DiffHonest) /\ OffsetsReadAll
\* A tool that the list names runs after a question or an "Always" (safety.c), a
\* command is refused however its pieces are cut, and no address inside the
\* network is fetched.
GatesHold == AskedOrAllowed /\ (subject = "checks" => CutsChangeNothing /\ FetchesInBounds)
\* When a command of bash is over (bash.c) no process of its group runs, and what
\* it shows is the end of what was written; a browser without a session leaves
\* nothing behind, and what it did was done (browser.c, cdp.c).
CommandSound == NothingLeftRunning /\ OutputRight /\ NothingLeftOpen /\ DoneIsDone
\* An edit shows in a file whole or not at all (edit.c), and on the server undos
\* and redos go back and forth to the files there were (change_tracker.c).
FilesHonest == [][EditShowsWhole /\ WindsBack]_fileTools
\* A command of bash comes back (bash.c), and so does an action of the browser
\* but for a write to one that does not read (cdp.c).
CommandsEnd ==
  /\ (subject = "command" /\ program = "bash") ~> (result # NoResult)
  /\ subject = "browser" => BrowserReturns
\* A call gets the messages it should (context.c), after an open breaker has
\* cooled down (circuit_breaker.c), and a response shows the calls of its turn.
TurnsSound == WindowSound /\ BreakerHolds /\ ShownOfThisTurn
\* What a stream leaves of each provider (openai_stream.c, openai_compatible.c,
\* ollama.c), and of each reply in the terminal (tui_stream.c), is what was sent.
StreamsSound ==
  CASE subject = "codex" -> ReplyIsAnswer
    [] subject = "compat" -> StreamedAsBuffered
    [] subject = "ollama" -> EveryLineOnce
    [] subject = "terminal" -> CutsDoNotShow
    [] OTHER -> TRUE
\* A conversation with Codex or compatible streams goes on (openai_request.c), and a sub-agent's
\* keeps each result behind its call (tool_delegate.c).
HistoriesSound == HistoryGoesOn /\ SubAgentKeepsOrder
=============================================================================
