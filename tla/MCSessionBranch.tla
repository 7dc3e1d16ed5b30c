-------------------------- MODULE MCSessionBranch --------------------------
(***************************************************************************)
(* The stored sessions in one run: two tabs that branch one session            *)
(* (SessionBranch), and everyone who reads and writes sessions of a vault       *)
(* (SessionStore).  They share no variable, so each behaviour is of one of      *)
(* them, its subject.                                                        *)
(***************************************************************************)
EXTENDS SessionBranch, SessionStore
CONSTANTS t1, t2, s1, s2
TwoTabs == {t1, t2}
TabSymmetry == Permutations(TwoTabs)
TwoIds == {s1, s2}
OneStored == s1 :> <<1>>
VARIABLE subject

Start ==
  /\ subject \in {"branch", "store"} /\ Init /\ StoreInit
  /\ (subject = "branch" => front = "library" /\ \A id \in Existing : Readable(id))
Step ==
  \/ subject = "branch" /\ Next /\ UNCHANGED sessions
  \/ subject = "store" /\ StoreNext /\ UNCHANGED vars
MCSpec == Start /\ [][Step /\ UNCHANGED subject]_<<subject, vars, sessions>>

\* Every chain that was ever written is live or recorded whole (session_branch.c:
\* 405-520, agent.c:208), a click away from the pills of the live one, the pills
\* count it at its place by birth (session_branch_info.c:59), and a tab that is up
\* to date asks the model about the stored chain (routes_ws_chat.c:447).
BranchesKept == TypeOK /\ NothingLost /\ ForksReachable /\ ActiveIsRank /\ ContextIsStored /\ StoreTypeOK
=============================================================================
