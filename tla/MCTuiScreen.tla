---------------------------- MODULE MCTuiScreen ----------------------------
(***************************************************************************)
(* What the terminal shows and hears, in one run: the dialogs, the chat pane,  *)
(* the prompt, the keys, what is remembered between starts, the list of a      *)
(* picker, the planes and the wrapping of texts.  These machines share no       *)
(* variable, so each behaviour is of one of them, its subject.               *)
(***************************************************************************)
EXTENDS TuiDialogs, TuiTranscript, TuiPrompt, TuiKeys, TuiRecents, TuiPicker, TuiLayout
VARIABLE subject

(* Strokes, names and lists, each for a case of its module.                  *)
MCKeys == {<<"ctrl", "x">>, <<"q">>, <<"Q">>, <<"l">>, <<"tab">>, <<"enter">>, <<"ctrl", "m">>}
MCLeaders == {<<>>, <<K("esc")>>, <<K("leader")>>}
MCOverrides == {
  B("app.quit_prompt", <<K(Unbound)>>), B("session.list", <<K("q"), L("q")>>), B("run.cancel", <<C("x")>>),
  B("app.quit_prompt", <<K("nokey")>>), B("theme.list", <<L("Q"), L("1"), L("2"), L("3"), K("z")>>)}
MCSlashNames == <<<<"l", "q", "l">>, <<"q", "l">>, <<"q">>, <<"l", "q", "Q">>>>
Header == [head |-> TRUE, has |-> {}]
Row(has) == [head |-> FALSE, has |-> has]
a1 == <<"a">>
b1 == <<"b">>
ab == <<"a", "b">>
MCFilters == {<<>>, a1, b1, ab}
MCLists == {
  <<>>, <<Row({a1}), Row({b1}), Row({a1, b1, ab})>>,
  <<Header, Row({a1}), Row({b1}), Header, Row({a1, b1, ab})>>,
  <<Header, Row({a1}), Header, Row({b1}), Header, Row({a1})>>}
MCTexts == UNION {[1 .. n -> {"n", "w", "c", "s", "l"}] : n \in 0 .. 4}

OneSample == sample = <<<<"n">>, 2>>
Start ==
  /\ subject \in {"dialogs", "transcript", "prompt", "keys", "recall", "picker", "layout", "wrap"}
  /\ DialogsInit /\ (subject # "dialogs" => agent = [provider |-> "p", model |-> "p"])
  /\ TranscriptInit /\ PromptInit /\ RecallInit
  /\ KeysInit /\ (subject # "keys" => override = NoOverride /\ leader = LeaderOf(<<>>))
  /\ PickerInit /\ (subject # "picker" => entries = <<>>)
  /\ LayoutInit /\ (subject # "layout" => height = 7) /\ (subject # "wrap" => OneSample)
Step ==
  \/ subject = "dialogs" /\ DialogsNext /\ UNCHANGED <<transcript, prompt, keys_, recall, picker, layout>>
  \/ subject = "transcript" /\ TranscriptNext /\ UNCHANGED <<dialogs, prompt, keys_, recall, picker, layout>>
  \/ subject = "prompt" /\ PromptNext /\ UNCHANGED <<dialogs, transcript, keys_, recall, picker, layout>>
  \/ subject = "keys" /\ KeysNext /\ UNCHANGED <<dialogs, transcript, prompt, recall, picker, layout>>
  \/ subject = "recall" /\ RecallNext /\ UNCHANGED <<dialogs, transcript, prompt, keys_, picker, layout>>
  \/ subject = "picker" /\ PickerNext /\ UNCHANGED <<dialogs, transcript, prompt, keys_, recall, layout>>
  \/ subject = "layout" /\ LayoutNext /\ UNCHANGED <<dialogs, transcript, prompt, keys_, recall, picker>>
Spec == Start /\ [][Step /\ UNCHANGED subject]_<<subject, dialogs, transcript, prompt, keys_, recall, picker, layout>>

(* A dialog does what its title says (tui_picker.c), and the worker's question *)
(* can be seen (tui.c:489).                                                 *)
DialogsTruthful == subject = "dialogs" => DialogsTypeOK /\ ActsAsShown /\ QuestionShown
(* What is typed is kept (tui_prompt_store.c) and means what its keys say        *)
(* (tui_keys.c); what is remembered is what was used (tui_model_store.c).       *)
InputKept ==
  CASE subject = "prompt" -> DraftsSafe
    [] subject = "keys" -> KeysTypeOK /\ KeysMeanIt
    [] subject = "recall" -> RecallsRight
    [] OTHER -> TRUE
(* What is drawn is what is there, where it belongs (tui_dialogs.c, tui_chat.c, *)
(* tui_render.c).                                                           *)
ScreenRight ==
  CASE subject = "picker" -> PickerShows
    [] subject = "transcript" -> NothingMisplaced
    [] subject = "layout" -> RowsInOrder /\ EndInSight
    [] subject = "wrap" -> WrapRight
    [] OTHER -> TRUE
(* Claim (tui_dialogs.c:297, "never rest on a header row"): the cursor of a    *)
(* list is on a row that Enter takes, and a frame of it ends.                *)
NeverOnHeader == subject = "picker" => CursorOnRow
=============================================================================
