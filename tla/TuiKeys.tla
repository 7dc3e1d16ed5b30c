------------------------------ MODULE TuiKeys ------------------------------
(***************************************************************************)
(* From a key to a command: key specs, bindings and the leader chord          *)
(* (src/tui/tui_keys.c), the defaults and the user's overrides (tui.c), the    *)
(* commands and their slash names (tui_command.c, commands_init in tui_cmd.c)  *)
(* and the completion of those names (tui_autocomplete.c).                   *)
(*                                                                         *)
(* A spec is a sequence of alternatives, an alternative one of runs (between   *)
(* spaces), a run one of tokens (between plusses).  Left out: the length of a   *)
(* text, the case of a key's name and the handlers of commands, but for        *)
(* those of the line that is typed.                                         *)
(***************************************************************************)
EXTENDS Integers, Sequences, SequencesExt, FiniteSets

CONSTANTS Keys,        \* strokes the user presses, as runs
          Letters,     \* those of them that type
          Overrides,   \* one [name, spec] of the configuration each
          Leaders,     \* values of tui.leader, <<>> for none
          SlashNames,  \* names and aliases of commands, in the registry's order
          Timeout,     \* ticks a leader lives
          MaxLine, MaxNow  \* bounds: letters of the line, ticks

Modifiers == {"ctrl", "shift", "alt", "meta", "super"}
Named == {"enter", "esc", "tab", "backspace", "del", "home", "end", "pgup", "pgdown", "up", "down",
          "left", "right", "scrollup", "scrolldown", "f2"}
Upper == [Q |-> "q"]
Single == {"a", "b", "c", "d", "e", "f", "g", "l", "m", "n", "o", "p", "q", "r", "t", "u", "w", "x", "z",
           "1", "2", "3", "4", "5", "6", "7", "8", "9"} \cup DOMAIN Upper
MaxAlts == 4
MaxStrokes == 4
Bad == <<>>
Unbound == "none"

\* tui_key_stroke_normalize: a capital is its letter with shift, unless ctrl is held.
Stroke(id, mods) ==
  IF id \in DOMAIN Upper THEN [id |-> Upper[id], mods |-> mods \cup (IF "ctrl" \in mods THEN {} ELSE {"shift"})]
  ELSE [id |-> id, mods |-> mods]
\* parse_stroke_run: modifiers wait for their key; those behind the last are dropped.
ParseRun(run) ==
  LET Take(s, token) ==
        IF s.bad THEN s
        ELSE IF token \in Modifiers THEN [s EXCEPT !.mods = @ \cup {token}]
        ELSE IF token \notin Single \cup Named \cup {"leader"} THEN [s EXCEPT !.bad = TRUE]
        ELSE [s EXCEPT !.strokes = Append(@, Stroke(token, s.mods)), !.mods = {}]
      end == FoldLeft(Take, [strokes |-> <<>>, mods |-> {}, bad |-> FALSE], run)
  IN IF end.bad \/ Len(end.strokes) > MaxStrokes THEN Bad ELSE end.strokes
ParseAlt(alt) ==
  LET parsed == [i \in DOMAIN alt |-> ParseRun(alt[i])]
      all == FlattenSeq(parsed)
  IN IF (\E i \in DOMAIN alt : parsed[i] = Bad) \/ Len(all) > MaxStrokes THEN Bad ELSE all
\* tui_key_parse: the alternatives after the fourth are not looked at.
Parse(spec) ==
  LET alts == [i \in 1 .. (IF Len(spec) > MaxAlts THEN MaxAlts ELSE Len(spec)) |-> ParseAlt(spec[i])]
  IN IF alts = <<>> \/ \E i \in DOMAIN alts : alts[i] = Bad THEN Bad ELSE alts

K(key) == <<<<key>>>>
C(key) == <<<<"ctrl", key>>>>
S(key) == <<<<"shift", key>>>>
L(key) == <<<<"leader", key>>>>
B(name, spec) == [name |-> name, spec |-> spec]
Defaults == <<
  B("app.quit_prompt", <<C("c"), C("d"), L("q")>>), B("command.palette.show", <<C("p")>>),
  B("menu.open", <<C("m")>>), B("run.cancel", <<K("esc")>>), B("chat.clear", <<C("l")>>),
  B("chat.scroll_up", <<K("pgup"), K("scrollup")>>), B("chat.scroll_down", <<K("pgdown"), K("scrolldown")>>),
  B("session.list", <<L("l")>>), B("session.new", <<L("n")>>), B("session.undo", <<L("u")>>),
  B("session.redo", <<L("r")>>), B("session.timeline", <<L("g")>>), B("session.fork", <<L("f")>>),
  B("session.pin", <<L("p")>>), B("session.sidebar.toggle", <<L("b")>>), B("prompt.editor", <<L("e")>>),
  B("session.quick_switch.1", <<L("1")>>), B("session.quick_switch.2", <<L("2")>>),
  B("session.quick_switch.3", <<L("3")>>), B("session.quick_switch.4", <<L("4")>>),
  B("session.quick_switch.5", <<L("5")>>), B("session.quick_switch.6", <<L("6")>>),
  B("session.quick_switch.7", <<L("7")>>), B("session.quick_switch.8", <<L("8")>>),
  B("session.quick_switch.9", <<L("9")>>), B("model.list", <<L("m")>>), B("model.cycle_recent", <<K("f2")>>),
  B("model.cycle_recent_reverse", <<S("f2")>>), B("theme.list", <<L("t")>>), B("input.submit", <<K("enter")>>),
  B("input.newline", <<S("enter")>>), B("prompt.complete", <<K("tab")>>), B("input.backspace", <<K("backspace")>>),
  B("input.delete", <<K("del")>>), B("input.delete_word", <<C("w")>>), B("input.move.left", <<K("left")>>),
  B("input.move.right", <<K("right")>>), B("input.home", <<K("home")>>), B("input.end", <<K("end")>>),
  B("input.history_back", <<K("up")>>), B("input.history_forward", <<K("down")>>)>>
Registered == {
  "app.exit", "app.quit_prompt", "command.palette.show", "app.menu", "app.help", "app.keybinds", "app.status",
  "app.debug", "run.cancel", "session.new", "session.clear", "session.list", "session.undo", "session.redo",
  "session.save", "session.load", "session.delete", "session.rename", "session.export", "session.edit",
  "session.timeline", "session.fork", "session.regen", "session.branch", "session.compact", "session.copy",
  "session.stash", "session.stash_pop", "session.stash_list", "session.pin", "session.sidebar.toggle",
  "prompt.editor", "prompt.complete", "session.quick_switch.1", "session.quick_switch.2",
  "session.quick_switch.3", "session.quick_switch.4", "session.quick_switch.5", "session.quick_switch.6",
  "session.quick_switch.7", "session.quick_switch.8", "session.quick_switch.9", "model.list", "model.set",
  "provider.set", "model.effort", "model.cycle_recent", "model.cycle_recent_reverse", "theme.list", "theme.set",
  "security.change_password", "security.lock", "security.unlock", "auth.openai_login", "auth.openai_logout",
  "input.submit", "input.newline", "input.backspace", "input.delete", "input.delete_word", "input.move.left",
  "input.move.right", "input.home", "input.end", "input.history_back", "input.history_forward",
  "chat.scroll_up", "chat.scroll_down"}
ASSUME KeysAssumption ==
  /\ Timeout \in Nat \ {0} /\ MaxLine \in Nat /\ MaxNow \in Nat
  /\ Letters \subseteq Single /\ \A k \in Keys : Len(ParseRun(k)) = 1
  /\ \A o \in Overrides : \E i \in DOMAIN Defaults : Defaults[i].name = o.name

VARIABLES
  override,          \* which of the overrides the configuration has, NoOverride for none
  leader,            \* the leader's stroke
  armed, deadline,   \* whether a chord began, when it ends
  now,               \* the clock
  covered,           \* a dialog is open and takes the keys
  line,              \* the text typed: its letters after the slash
  spaced,            \* a space follows them: the name was completed
  heard,             \* the last key the keymap heard: stroke, time, outcome (not in the code)
  previous             \* the one before it: time and kind of outcome (not in the code)
keys_ == <<override, leader, armed, deadline, now, covered, line, spaced, heard, previous>>

\* tui_keymap_bind, tui_keymap_register: what does not parse changes nothing.
Bound(map, name, spec) ==
  [i \in DOMAIN map |->
    IF map[i].name # name THEN map[i]
    ELSE IF spec = <<K(Unbound)>> THEN [map[i] EXCEPT !.on = FALSE]
    ELSE IF Parse(spec) = Bad THEN map[i]
    ELSE [map[i] EXCEPT !.alts = Parse(spec), !.on = TRUE]]
Fresh == [i \in DOMAIN Defaults |-> [name |-> Defaults[i].name, alts |-> Parse(Defaults[i].spec), on |-> TRUE]]
NoOverride == [name |-> Unbound, spec |-> <<>>]
Keymaps == {[of |-> o, map |-> Bound(Fresh, o.name, o.spec)] : o \in Overrides \cup {NoOverride}}
keymap == (CHOOSE k \in Keymaps : k.of = override).map
LeaderOf(spec) ==
  LET p == Parse(spec)
  IN IF Len(p) = 1 /\ Len(p[1]) = 1 /\ p[1][1].id # "leader" THEN p[1][1] ELSE Stroke("x", {"ctrl"})

\* The first binding, in the table's order, one of whose alternatives fits.
FirstOf(map, Fits(_)) ==
  LET hits == {i \in DOMAIN map : map[i].on /\ \E a \in DOMAIN map[i].alts : Fits(map[i].alts[a])}
  IN IF hits = {} THEN Unbound ELSE map[CHOOSE i \in hits : \A j \in hits : i <= j].name
ChordOf(map, s) == FirstOf(map, LAMBDA alt : Len(alt) = 2 /\ alt[1].id = "leader" /\ alt[2] = s)
SingleOf(map, s) == FirstOf(map, LAMBDA alt : alt = <<s>>)
\* tui_keymap_dispatch: what a key means, and whether the leader is armed after it.
Outcome(kind, name) == [kind |-> kind, name |-> name]
\* Mutant of Dispatch: the leader stays armed when no chord fits.
DispatchArmed(s, live, chord, single) ==
  IF live /\ chord # Unbound THEN [out |-> Outcome("command", chord), arms |-> FALSE]
  ELSE IF s = leader THEN [out |-> Outcome("leader", Unbound), arms |-> TRUE]
  ELSE IF single # Unbound THEN [out |-> Outcome("command", single), arms |-> live]
  ELSE [out |-> Outcome("text", Unbound), arms |-> live]
Dispatch(s, live, chord, single) ==
  IF live /\ chord # Unbound THEN [out |-> Outcome("command", chord), arms |-> FALSE]
  ELSE IF s = leader THEN [out |-> Outcome("leader", Unbound), arms |-> TRUE]
  ELSE IF single # Unbound THEN [out |-> Outcome("command", single), arms |-> FALSE]
  ELSE [out |-> Outcome("text", Unbound), arms |-> FALSE]

\* tui_autocomplete_slash: one name, or what the names have in common.
Begins(name, text) == Len(name) >= Len(text) /\ SubSeq(name, 1, Len(text)) = text
Matches(text) == SelectSeq(SlashNames, LAMBDA n : Begins(n, text))
\* Mutant of Common: the last letter they share is kept out.
CommonLess(names) ==
  LET common == FoldLeft(LAMBDA p, n : LongestCommonPrefix({p, n}), names[1], names)
  IN SubSeq(common, 1, Len(common) - 1)
Common(names) == FoldLeft(LAMBDA p, n : LongestCommonPrefix({p, n}), names[1], names)
Completed(text) ==
  LET m == Matches(text)
  IN IF text = <<>> \/ m = <<>> THEN [line |-> text, spaced |-> FALSE]
     ELSE IF Len(m) = 1 THEN [line |-> m[1], spaced |-> TRUE]
     ELSE [line |-> IF Len(Common(m)) > Len(text) THEN Common(m) ELSE text, spaced |-> FALSE]

Nothing == [stroke |-> Stroke("esc", {}), at |-> 0, out |-> Outcome("text", Unbound)]
KeysInit ==
  /\ override \in Overrides \cup {NoOverride}
  /\ leader \in {LeaderOf(spec) : spec \in Leaders}
  /\ armed = FALSE /\ deadline = 0 /\ now = 0 /\ covered = FALSE
  /\ line = <<>> /\ spaced = FALSE /\ heard = Nothing /\ previous = [at |-> 0, kind |-> "text"]

\* A key typed while no dialog is open, its stroke and the keymap: what is no command
\* types.
Press(run, s, map) ==
  \E r \in {Dispatch(s, armed /\ now < deadline, ChordOf(map, s), SingleOf(map, s))} :
  LET name == r.out.name
  IN /\ ~covered /\ armed' = r.arms
     /\ deadline' = IF r.out.kind = "leader" THEN now + Timeout ELSE deadline
     /\ heard' = [stroke |-> s, at |-> now, out |-> r.out]
     /\ previous' = [at |-> heard.at, kind |-> heard.out.kind]
     /\ covered' \in IF name \in {"app.quit_prompt", "command.palette.show", "session.list"} THEN {TRUE} ELSE {FALSE}
     /\ IF r.out.kind = "text" /\ run[1] \in Letters
        THEN /\ Len(line) < MaxLine /\ ~spaced /\ line' = Append(line, run[1]) /\ UNCHANGED spaced
        ELSE IF name = "prompt.complete" /\ ~spaced
        THEN \E c \in {Completed(line)} : line' = c.line /\ spaced' = c.spaced
        ELSE IF name = "input.submit" THEN line' = <<>> /\ spaced' = FALSE
        ELSE UNCHANGED <<line, spaced>>
     /\ UNCHANGED <<override, leader, now>>
\* A dialog takes the key; the keymap does not hear of it.
PressCovered ==
  /\ covered /\ covered' \in BOOLEAN
  /\ UNCHANGED <<override, leader, armed, deadline, now, line, spaced, heard, previous>>
\* A question of the worker covers the screen.
Covered == ~covered /\ covered' = TRUE /\ UNCHANGED <<override, leader, armed, deadline, now, line, spaced, heard, previous>>
Tick == now < MaxNow /\ now' = now + 1 /\ UNCHANGED <<override, leader, armed, deadline, covered, line, spaced, heard, previous>>
\* tui_keymap_leader_expired, each round of the main loop.
Expire == armed /\ now >= deadline /\ armed' = FALSE
          /\ UNCHANGED <<override, leader, deadline, now, covered, line, spaced, heard, previous>>
KeysNext == (\E run \in Keys, map \in {keymap} : Press(run, ParseRun(run)[1], map)) \/ PressCovered \/ Covered \/ Tick \/ Expire

(***************************************************************************)
(* Properties and claims.                                                   *)
(***************************************************************************)
\* A key means a chord exactly when the key heard before it was a fresh leader,
\* younger than the timeout, and an enabled binding has the two; else the leader,
\* an enabled binding of this key alone, or text.  A key that ends no chord is
\* not lost: it means what it means alone.
ChordsHonest ==
  \A map \in {keymap} :
  LET last == heard
      live == previous.kind = "leader" /\ last.at < previous.at + Timeout
      chords == {i \in DOMAIN map : map[i].on /\ <<Stroke("leader", {}), last.stroke>> \in ToSet(map[i].alts)}
      single == {i \in DOMAIN map : map[i].on /\ <<last.stroke>> \in ToSet(map[i].alts)}
      Name(hits) == last.out.kind = "command" /\ \E i \in hits : last.out.name = map[i].name
  IN last # Nothing =>
       IF live /\ chords # {} THEN Name(chords)
       ELSE IF last.stroke = leader THEN last.out.kind = "leader"
       ELSE IF single # {} THEN Name(single) ELSE last.out.kind = "text"
\* What Tab makes of a name in part: it adds letters only, those every command
\* that could be meant has, and all of them.
CompletesRight ==
  \A text \in {SubSeq(line, 1, n) : n \in 1 .. Len(line)} :
    LET names == {n \in ToSet(SlashNames) : Begins(n, text)}
        c == Completed(text).line
    IN /\ Begins(c, text) /\ \A n \in names : Begins(n, c)
       /\ names # {} => \A n \in names : n = c \/ \E m \in names : ~Begins(m, SubSeq(n, 1, Len(c) + 1))
KeysMeanIt == ChordsHonest /\ CompletesRight
KeysTypeOK ==
  /\ armed \in BOOLEAN /\ covered \in BOOLEAN /\ spaced \in BOOLEAN
  /\ now \in 0 .. MaxNow /\ deadline \in 0 .. MaxNow + Timeout
  /\ armed => heard.out.kind = "leader"
\* Claim (tui.c:609, "the full default command set"): it fails, "menu.open" and
\* "chat.clear" name no registered command, so Ctrl-M and Ctrl-L do nothing.
KeysHaveCommands == heard.out.kind = "command" => heard.out.name \in Registered
\* Claim (tui_keys.h:69, "fails to parse rather than truncating"): it fails, the
\* alternatives after the fourth are dropped.
SpecsNotCut == \A o \in Overrides : Len(o.spec) > MaxAlts => Parse(o.spec) = Bad
\* Claim (tui_keys.h:184, "Call when the leader should be cancelled"): a dialog
\* ends a chord.  It fails: nothing calls tui_keymap_leader_clear, and the first
\* key after the dialog may end a chord begun before it.
CoverDisarms == covered => ~armed
=============================================================================
