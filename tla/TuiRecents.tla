---------------------------- MODULE TuiRecents ----------------------------
(***************************************************************************)
(* What the terminal UI remembers between starts: the sessions pinned and     *)
(* the quick-switch slots they fill first (src/tui/tui_session_store.c), and    *)
(* the models used last with the key that cycles through them                *)
(* (src/tui/tui_model_store.c, tui_cmd.c).                                  *)
(*                                                                         *)
(* The worker takes a job in a step; the list of sessions is newest first.     *)
(* Left out: files that cannot be read or written (nothing changes then), the  *)
(* favorites (the function that would change them has no caller), a second     *)
(* terminal on the same files.                                              *)
(***************************************************************************)
EXTENDS Integers, Sequences, SequencesExt, FiniteSets

CONSTANTS Sessions, Models,
          RecentCap,  \* models the store keeps
          MaxDone     \* bound: what the user does
ASSUME RecentsAssumption == RecentCap \in Nat \ {0} /\ MaxDone \in Nat

VARIABLES
  pins,     \* the file of pins: the latest first
  alive,     \* the sessions of the store, by recency
  active,   \* app->session_id
  slotJob,  \* the job that waits: a session to load, or a model to use
  model,    \* app->model, and the agent's
  recents,  \* the file of models, the latest first
  toTell,   \* models of the worker's events the UI has not handled
  usedModels,     \* the models the UI was told of, in order (not in the code)
  begun,    \* the recents when the run of cycle keys began, and those it met (not in the code)
  done
recall == <<pins, alive, active, slotJob, model, recents, toTell, usedModels, begun, done>>

NoJob == [job |-> "none", arg |-> "none"]
Without(seq, x) == SelectSeq(seq, LAMBDA y : y # x)
\* tui_session_store_toggle_pin.
Toggled(file, id) == IF id \in ToSet(file) THEN Without(file, id) ELSE <<id>> \o file
\* Mutant of Slots: a session pinned has a second slot.
SlotsTwice(file, list) == SelectSeq(file, LAMBDA x : x \in ToSet(list)) \o list
\* tui_session_store_resolve_slot: the pins that still exist, then the rest.
Slots(file, list) ==
  SelectSeq(file, LAMBDA x : x \in ToSet(list)) \o SelectSeq(list, LAMBDA x : x \notin ToSet(file))
\* Mutant of Recorded: the place the model had stays.
RecordedTwice(file, m) == SubSeq(<<m>> \o file, 1, IF Len(file) < RecentCap THEN Len(file) + 1 ELSE RecentCap)
\* tui_model_store_record_recent.
Recorded(file, m) ==
  LET all == <<m>> \o Without(file, m) IN SubSeq(all, 1, IF Len(all) < RecentCap THEN Len(all) ELSE RecentCap)
\* cycle_recent_model: the one behind the current model in the file, or before it.
Cycled(file, m, forward) ==
  LET n == Len(file)
      at == SelectInSeq(file, LAMBDA x : x = m)
  IN IF at = 0 THEN file[IF forward THEN 1 ELSE n]
     ELSE file[((at - 1 + (IF forward THEN 1 ELSE n - 1)) % n) + 1]

RecallInit ==
  /\ pins = <<>> /\ alive = <<>> /\ active = "none" /\ slotJob = NoJob
  /\ model = "none" /\ recents = <<>> /\ toTell = <<>> /\ usedModels = <<>> /\ done = 0
  /\ begun = [from |-> <<>>, met |-> {}]

Do == done < MaxDone /\ done' = done + 1
NoJobWaits == slotJob = NoJob
Pinned == UNCHANGED <<pins, alive, active>>
ModelsKept == UNCHANGED <<model, recents, toTell, usedModels, begun>>
TogglePin ==
  /\ Do /\ active # "none" /\ pins' = Toggled(pins, active) /\ UNCHANGED <<alive, active, slotJob>> /\ ModelsKept
\* The slot is looked up at the key, the session loaded when the worker comes to it.
QuickSwitch ==
  \E n \in DOMAIN Slots(pins, alive) :
    Do /\ NoJobWaits /\ slotJob' = [job |-> "load", arg |-> Slots(pins, alive)[n]] /\ Pinned /\ ModelsKept
LoadJob ==
  /\ slotJob.job = "load" /\ slotJob' = NoJob
  /\ active' = IF slotJob.arg \in ToSet(alive) THEN slotJob.arg ELSE active
  /\ UNCHANGED <<pins, alive>> /\ ModelsKept /\ UNCHANGED done
\* A session is stored: it is the newest now.
Saved(id) == Do /\ alive' = <<id>> \o Without(alive, id) /\ active' = id /\ UNCHANGED <<pins, slotJob>> /\ ModelsKept
Deleted(id) ==
  /\ Do /\ id \in ToSet(alive) /\ alive' = Without(alive, id) /\ UNCHANGED <<pins, slotJob>> /\ ModelsKept
  /\ active' = IF active = id THEN "none" ELSE active
\* A model the user names; the walk of the cycle key ends.
PickModel(m) ==
  /\ Do /\ NoJobWaits /\ slotJob' = [job |-> "model", arg |-> m] /\ begun' = [from |-> <<>>, met |-> {}]
  /\ Pinned /\ UNCHANGED <<model, recents, toTell, usedModels>>
\* F2, once the UI has heard of the last one.
Cycle(forward) ==
  /\ Do /\ NoJobWaits /\ toTell = <<>> /\ recents # <<>> /\ model # "none"
  /\ slotJob' = [job |-> "model", arg |-> Cycled(recents, model, forward)]
  /\ begun' = [from |-> IF begun.met = {} THEN recents ELSE begun.from, met |-> begun.met \cup {model, slotJob'.arg}]
  /\ Pinned /\ UNCHANGED <<model, recents, toTell, usedModels>>
ModelJob ==
  /\ slotJob.job = "model" /\ slotJob' = NoJob /\ toTell' = Append(toTell, slotJob.arg)
  /\ UNCHANGED <<model, recents, usedModels, begun, done>> /\ Pinned
\* TUI_EV_MODEL.
ModelTold ==
  /\ toTell # <<>> /\ toTell' = Tail(toTell) /\ model' = Head(toTell)
  /\ recents' = Recorded(recents, model') /\ usedModels' = Append(usedModels, model')
  /\ Pinned /\ UNCHANGED <<slotJob, begun, done>>
RecallNext ==
  \/ TogglePin \/ QuickSwitch \/ LoadJob \/ ModelJob \/ ModelTold
  \/ \E id \in Sessions : Saved(id) \/ Deleted(id)
  \/ \E m \in Models : PickModel(m)
  \/ \E forward \in BOOLEAN : Cycle(forward)

(***************************************************************************)
(* Properties and claims.                                                   *)
(***************************************************************************)
\* The slots are the sessions there are, each once, a pinned one before any
\* other and the latest pin first, whatever was pinned, stored or deleted; and
\* the models remembered are the last ones used, each once, the latest first.
RecallsRight ==
  LET s == Slots(pins, alive)
  IN /\ ToSet(s) = ToSet(alive) /\ Len(s) = Cardinality(ToSet(alive))
     /\ \A i, j \in DOMAIN s : i < j => (s[j] \in ToSet(pins) => s[i] \in ToSet(pins))
     /\ \A i, j \in DOMAIN recents : i < j =>
          \E u \in DOMAIN usedModels : usedModels[u] = recents[i] /\ \A v \in u .. Len(usedModels) : usedModels[v] # recents[j]
     /\ Len(recents) = IF Cardinality(ToSet(usedModels)) < RecentCap THEN Cardinality(ToSet(usedModels)) ELSE RecentCap
\* Claim (tui_cmd.c:1045, "cycle through the recently used models"): as many
\* presses of F2 as there are models meet each.  It fails from three on: the
\* model taken goes to the front, so the next press takes the one it left.
CycleMeetsAll == [][begun.met # {} /\ begun'.met = begun.met /\ begun'.from = begun.from /\ slotJob' # slotJob /\ NoJobWaits
                    => begun.met = ToSet(begun.from)]_recall
=============================================================================
