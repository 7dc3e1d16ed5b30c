------------------------------ MODULE Keyring ------------------------------
(***************************************************************************)
(* What the OAuth manager promises about the ChatGPT credentials, with no  *)
(* thread, lock or login in sight: the manager holds a token only of the   *)
(* session it is attached to, every token it holds is also the one stored  *)
(* in that session's vault (a restart finds it again), and signing out     *)
(* removes both or neither.  OpenAIOAuth implements this module.           *)
(***************************************************************************)
EXTENDS Naturals

CONSTANTS Sessions, NoSession

VARIABLES
    session,    \* the attached session
    token,      \* the token held in memory, 0 when signed out
    stored      \* the token in each session's vault, 0 for none

keyringVars == <<session, token, stored>>

KeyringInit ==
    /\ stored \in [Sessions -> Nat]
    /\ session \in Sessions \cup {NoSession}
    /\ token \in {0} \cup {stored[s] : s \in Sessions \cap {session}}

(* A session is detached: nothing of it stays in memory.                   *)
Close == session' = NoSession /\ token' = 0 /\ UNCHANGED stored

(* A session is attached: its stored token is read, or could not be.       *)
Open(s) ==
    /\ session = NoSession
    /\ session' = s
    /\ token' \in {0, stored[s]}
    /\ UNCHANGED stored

(* A login or a refresh brings a new token, saved before it is used.       *)
SignIn ==
    /\ session # NoSession
    /\ token' > 0
    /\ stored' = [stored EXCEPT ![session] = token']
    /\ UNCHANGED session

(* Logout, or a refresh token the issuer no longer accepts.                *)
SignOut ==
    /\ session # NoSession
    /\ token' = 0
    /\ stored' = [stored EXCEPT ![session] = 0]
    /\ UNCHANGED session

KeyringNext == Close \/ (\E s \in Sessions : Open(s)) \/ SignIn \/ SignOut

KeyringSpec == KeyringInit /\ [][KeyringNext]_keyringVars
=============================================================================
