--------------------------- MODULE PasswordChange ---------------------------
(***************************************************************************)
(* What the vault promises about a change of its password                  *)
(* (src/session/migration.h): the data are under one password; a change    *)
(* takes effect in one step, before it is answered with "ok" or            *)
(* "incomplete" and never when it is answered with "failed"; the vault     *)
(* opens with the password the data are under; and the program may stop    *)
(* at any time.                                                            *)
(***************************************************************************)
CONSTANTS Passwords, None

VARIABLES pw,      \* the password the data are encrypted under
          opened,  \* the password the running program opened the vault with
          asked,   \* the new password of the running change
          took,    \* the running change has taken effect
          answer   \* what the last change returned

vars == <<pw, opened, asked, took, answer>>

TypeOK ==
  /\ pw \in Passwords
  /\ opened \in Passwords \cup {None}
  /\ asked \in Passwords \cup {None}
  /\ took \in BOOLEAN
  /\ answer \in {"none", "ok", "failed", "incomplete"}

Init ==
  /\ pw \in Passwords /\ opened = None /\ asked = None
  /\ took = FALSE /\ answer = "none"

Open ==
  /\ opened = None /\ opened' = pw
  /\ UNCHANGED <<pw, asked, took, answer>>

Ask(q) ==
  /\ opened # None /\ asked = None
  /\ asked' = q /\ answer' = "none"
  /\ UNCHANGED <<pw, opened, took>>

TakeEffect ==
  /\ asked # None /\ ~took
  /\ pw' = asked /\ opened' = asked /\ took' = TRUE
  /\ UNCHANGED <<asked, answer>>

\* Before it took effect a change is refused without an answer of its own
\* (wrong current password) or fails; after that it is done.
Return ==
  /\ asked # None
  /\ answer' \in IF took THEN {"ok", "incomplete"} ELSE {"none", "failed"}
  /\ asked' = None /\ took' = FALSE
  /\ UNCHANGED <<pw, opened>>

Stop ==
  /\ opened' = None /\ asked' = None /\ took' = FALSE /\ answer' = "none"
  /\ UNCHANGED pw

Next == Open \/ (\E q \in Passwords : Ask(q)) \/ TakeEffect \/ Return \/ Stop

Spec == Init /\ [][Next]_vars

\* The program never works with another password than that of the data.
OpenedMatches == opened \in {None, pw}
=============================================================================
