----------------------------- MODULE Prompting -----------------------------
(***************************************************************************)
(* What the terminal UI promises about a question of a run to the user     *)
(* (src/tui/tui_events.h, src/tui/tui_dialogs.c): there is one question at *)
(* a time; it gets one answer, which stays; "yes" comes from the user, who *)
(* was shown the question; and the run goes on only with its answer.       *)
(***************************************************************************)
VARIABLES phase,    \* where the question is
          verdict   \* its answer

vars == <<phase, verdict>>

TypeOK ==
  /\ phase \in {"none", "asked", "shown", "answered"}
  /\ verdict \in {"none", "no", "yes"}

Init == phase = "none" /\ verdict = "none"

Ask == phase = "none" /\ phase' = "asked" /\ UNCHANGED verdict

Show == phase = "asked" /\ phase' = "shown" /\ UNCHANGED verdict

\* The user decides.
Decide(v) == phase = "shown" /\ phase' = "answered" /\ verdict' = v

\* The program declines for the user: another dialog is open, or it quits.
Decline == phase \in {"asked", "shown"} /\ phase' = "answered" /\ verdict' = "no"

GoOn == phase = "answered" /\ phase' = "none" /\ verdict' = "none"

Next == Ask \/ Show \/ (\E v \in {"no", "yes"} : Decide(v)) \/ Decline \/ GoOn

Spec == Init /\ [][Next]_vars
=============================================================================
