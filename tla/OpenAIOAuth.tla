---------------------------- MODULE OpenAIOAuth ----------------------------
(***************************************************************************)
(* The OAuth manager of the ChatGPT provider (src/src/llm/openai_oauth.c,  *)
(* oauth_callback.c, oauth_device.c, oauth_http.c, oauth_vault.c): one     *)
(* struct behind one mutex and one condition variable, shared by any       *)
(* number of calling threads, a background thread per browser login, and   *)
(* network exchanges during which the mutex is not held.                   *)
(*                                                                         *)
(* A step is one critical section of the mutex, or the end of a network    *)
(* exchange or of a pthread_join.  What a call keeps in its local          *)
(* variables while the mutex is released is in at, asked and note; every   *)
(* decision it takes after that rests on what it finds when it locks again.*)
(*                                                                         *)
(* A token stands for the access and the refresh token, which the code     *)
(* sets and clears together.  The error text, the sockets and the clock    *)
(* are left out: whether a token is due, a poll is due, or a login has     *)
(* expired is a choice of the step that asks.                              *)
(***************************************************************************)
EXTENDS Integers, FiniteSets

CONSTANTS
    Callers,     \* threads that call the public functions
    Sessions,    \* session managers that can be attached
    NoSession,   \* the null SessionManager
    MaxCalls     \* bound on the calls of a behaviour

ASSUME CallersAssumption == IsFiniteSet(Callers)
ASSUME NoSessionAssumption == NoSession \notin Sessions
ASSUME MaxCallsAssumption == MaxCalls \in Nat

VARIABLES
    auth,        \* struct OpenAIOAuth
    vault,       \* the token stored in each session, 0 for none
    issued,      \* how many tokens the issuer's endpoint has given out
    threads,     \* where each live callback thread is, by its generation
    at,          \* where each caller is
    asked,       \* the call it makes, and the session it passes
    note,        \* the thread it joins, or the generation or the token
                 \* version it captured
    returned,    \* what the last token or poll call answers
    asleep,      \* callers blocked in pthread_cond_wait
    superseded,  \* history: calls and threads that were at work when the
                 \* last login, logout, attach, cancel or destroy began
    calls        \* how many calls were made

vars == <<auth, vault, issued, threads, at, asked, note, returned, asleep,
          superseded, calls>>

Ops == {"attach", "logout", "cancel", "destroy", "start", "device", "poll",
        "get", "force"}

ThreadStates == {"binding", "serving", "trading", "keeping", "ending"}

Results == {"none", "ok", "signed_out", "transient", "permanent", "cancelled",
            "complete", "pending", "terminal"}

(* The stages of a device login's call and of a poll in which              *)
(* active_operations counts it.                                            *)
Counted == {"posting", "refused", "posted", "polling", "trading", "keeping",
            "closing", "leaving", "releasing"}

(* The stages between taking refresh_in_progress and giving it back.       *)
Refreshing == {"refreshing", "granted", "failed", "rejected", "dropped"}

Lifecycle == {"join", "drain", "load"}

(* The stages no counter of the manager knows of.                          *)
Uncounted == {"reap", "ready", "unready", "wait", "expired"}

Places == {"idle", "freed"} \cup Counted \cup Refreshing \cup Lifecycle
          \cup Uncounted

Attachable == Sessions \cup {NoSession}

Auth == [session : Attachable, generation : Nat, token : Nat,
         token_version : Nat, stop_requested : BOOLEAN, destroying : BOOLEAN,
         lifecycle_busy : BOOLEAN, refresh_in_progress : BOOLEAN,
         active_operations : Nat, last_refresh_result : Results,
         callback_active : BOOLEAN, callback_ready : BOOLEAN,
         callback_ok : BOOLEAN, callback_thread : Nat,
         thread_joinable : BOOLEAN, login_id : Nat, state : Nat, device : Nat,
         device_poll_in_progress : BOOLEAN]

NoAnswer == [result |-> "none", token |-> 0]

(***************************************************************************)
(* The helpers on the locked struct.                                       *)
(***************************************************************************)

(* clear_pending_sensitive_locked.                                         *)
ClearPending(a) ==
    [a EXCEPT !.state = 0, !.device = 0, !.device_poll_in_progress = FALSE]

(* Mutant: what is cancelled is taken for finished.                        *)
CancelForgetting(a) ==
    [ClearPending(a) EXCEPT !.generation = @ + 1, !.stop_requested = TRUE,
                            !.callback_active = FALSE,
                            !.active_operations = 0]

(* cancel_callback_locked.                                                 *)
CancelCallback(a) ==
    [ClearPending(a) EXCEPT !.generation = @ + 1, !.stop_requested = TRUE,
                            !.callback_active = FALSE]

(* take_callback_thread_locked: the thread the caller has to join, 0 for   *)
(* none.                                                                   *)
TakeThread(a) == [a EXCEPT !.thread_joinable = FALSE]
(* Mutant: no thread is -1, as for the sockets.                            *)
TakenOrMinus == IF auth.thread_joinable THEN auth.callback_thread ELSE -1
Taken == IF auth.thread_joinable THEN auth.callback_thread ELSE 0

(* commit_credentials_locked.                                              *)
Commit(a, t) == [a EXCEPT !.token = t, !.token_version = @ + 1]

(* Mutant: the generation is not compared.                                 *)
StillRunning(g) == ~auth.stop_requested /\ ~auth.destroying

(* callback_still_active, and the test curl's progress callback and the    *)
(* end of each exchange repeat.                                            *)
StillActive(g) ==
    auth.generation = g /\ ~auth.stop_requested /\ ~auth.destroying

(* What start and device_start do alike to begin a login.                  *)
NewLogin(a) ==
    [ClearPending(a) EXCEPT !.generation = @ + 1,
                            !.login_id = a.generation + 1,
                            !.stop_requested = FALSE,
                            !.callback_active = TRUE]

(* The calls that hold a generation they captured, and all threads.        *)
Working == Counted \cup Refreshing \cup {"expired"}
AtWork == [calls |-> {c \in Callers : at[c] \in Working},
           threads |-> DOMAIN threads]

Spawned(g) == [h \in DOMAIN threads \cup {g} |->
                  IF h = g THEN "binding" ELSE threads[h]]

Exited(g) == [h \in DOMAIN threads \ {g} |-> threads[h]]

(***************************************************************************)
(* After openai_oauth_create and a first attach that read the vault, as    *)
(* main.c and the unlock route do.                                         *)
(***************************************************************************)
Init ==
    /\ vault \in [Sessions -> {0, 1}]
    /\ \E s \in Attachable :
         auth = [session |-> s, generation |-> 0,
                 token |-> IF s = NoSession THEN 0 ELSE vault[s],
                 token_version |-> 0, stop_requested |-> FALSE,
                 destroying |-> FALSE, lifecycle_busy |-> FALSE,
                 refresh_in_progress |-> FALSE, active_operations |-> 0,
                 last_refresh_result |-> "signed_out",
                 callback_active |-> FALSE, callback_ready |-> FALSE,
                 callback_ok |-> FALSE, callback_thread |-> 0,
                 thread_joinable |-> FALSE, login_id |-> 0, state |-> 0,
                 device |-> 0, device_poll_in_progress |-> FALSE]
    /\ issued = 1
    /\ threads = [g \in {} |-> "ending"]
    /\ at = [c \in Callers |-> "idle"]
    /\ asked = [c \in Callers |-> [op |-> "get", with |-> NoSession]]
    /\ note = [c \in Callers |-> 0]
    /\ returned = [c \in Callers |-> NoAnswer]
    /\ asleep = {}
    /\ superseded = [calls |-> {}, threads |-> {}]
    /\ calls = 0

(***************************************************************************)
(* Calls.  A call that finds a reason to refuse leaves the struct as it    *)
(* was and is no step.  MaxCalls bounds them; the struct is not used again *)
(* once destroy was called.                                                *)
(***************************************************************************)
Calls(c, o, s) ==
    /\ at[c] = "idle"
    /\ calls < MaxCalls
    /\ ~auth.destroying
    /\ calls' = calls + 1
    /\ asked' = [asked EXCEPT ![c] = [op |-> o, with |-> s]]

Goes(c, place) == at' = [at EXCEPT ![c] = place]

Notes(c, n) == note' = [note EXCEPT ![c] = n]

Answers(c, r, t) ==
    returned' = [returned EXCEPT ![c] = [result |-> r, token |-> t]]

Broadcast == asleep' = {}

Joined(c) == note[c] \notin DOMAIN threads

(* attach_session, logout and cancel_login up to the join.  cancel_login   *)
(* also wants the login its id names to be the active one.                 *)
BeginLifecycle(c, o, s) ==
    /\ Calls(c, o, s)
    /\ ~auth.lifecycle_busy
    /\ o = "cancel" => auth.callback_active /\ auth.login_id # 0
    /\ auth' = [TakeThread(CancelCallback(auth)) EXCEPT !.lifecycle_busy = TRUE]
    /\ Notes(c, Taken)
    /\ Goes(c, "join")
    /\ superseded' = AtWork
    /\ UNCHANGED <<vault, issued, threads, returned, asleep>>

(* destroy does not look at lifecycle_busy before it cancels.  Its caller  *)
(* sees to it that no other call is in a stage nothing counts.             *)
BeginDestroy(c) ==
    /\ Calls(c, "destroy", NoSession)
    /\ \A d \in Callers : at[d] \notin Uncounted
    /\ auth' = [TakeThread(CancelCallback(auth)) EXCEPT !.destroying = TRUE]
    /\ Notes(c, Taken)
    /\ Goes(c, "join")
    /\ superseded' = AtWork
    /\ UNCHANGED <<vault, issued, threads, returned, asleep>>

Join(c) ==
    /\ at[c] = "join"
    /\ Joined(c)
    /\ Goes(c, "drain")
    /\ UNCHANGED <<auth, vault, issued, threads, asked, note, returned, asleep,
                   superseded, calls>>

(* The condition of the wait: attach, logout and cancel hold               *)
(* lifecycle_busy themselves, destroy waits for whoever does.              *)
QuietOfRefresh(c) ==    \* mutant: does not wait for polls
    /\ ~auth.refresh_in_progress
    /\ asked[c].op = "destroy" => ~auth.lifecycle_busy

Quiet(c) ==
    /\ ~auth.refresh_in_progress
    /\ auth.active_operations = 0
    /\ asked[c].op = "destroy" => ~auth.lifecycle_busy

DrainSleeps(c) ==
    /\ at[c] = "drain" /\ c \notin asleep
    /\ ~Quiet(c)
    /\ asleep' = asleep \cup {c}
    /\ UNCHANGED <<auth, vault, issued, threads, at, asked, note, returned,
                   superseded, calls>>

Drained(c, o) == at[c] = "drain" /\ c \notin asleep /\ Quiet(c) /\ asked[c].op = o

(* attach lets go of the old session before it reads the new one.          *)
AttachCloses(c) ==
    /\ Drained(c, "attach")
    /\ auth' = [auth EXCEPT !.session = NoSession, !.token = 0, !.login_id = 0]
    /\ Goes(c, "load")
    /\ UNCHANGED <<vault, issued, threads, asked, note, returned, asleep,
                   superseded, calls>>

(* The vault is read with the mutex released; what was read (nothing, if   *)
(* it could not be read or parsed) is committed unless destroy came.       *)
AttachLoads(c) ==
    /\ at[c] = "load"
    /\ \E t \in {0} \cup {vault[s] : s \in Sessions \cap {asked[c].with}} :
         LET opened == [auth EXCEPT !.session = asked[c].with,
                                    !.stop_requested = FALSE]
             loaded == IF t = 0 THEN opened ELSE Commit(opened, t)
         IN  auth' = [IF auth.destroying THEN auth ELSE loaded
                        EXCEPT !.lifecycle_busy = FALSE]
    /\ Goes(c, "idle")
    /\ Broadcast
    /\ UNCHANGED <<vault, issued, threads, asked, note, returned, superseded,
                   calls>>

CancelEnds(c) ==
    /\ Drained(c, "cancel")
    /\ auth' = [auth EXCEPT !.login_id = 0, !.stop_requested = FALSE,
                            !.lifecycle_busy = FALSE]
    /\ Goes(c, "idle")
    /\ Broadcast
    /\ UNCHANGED <<vault, issued, threads, asked, note, returned, superseded,
                   calls>>

(* logout keeps the token in memory when the vault would not delete it.    *)
LogoutEnds(c) ==
    /\ Drained(c, "logout")
    /\ \E deleted \in BOOLEAN :
         LET gone == deleted /\ auth.session # NoSession IN
         /\ auth' = [ClearPending(auth) EXCEPT
                        !.token = IF gone THEN 0 ELSE @, !.login_id = 0,
                        !.stop_requested = FALSE,
                        !.last_refresh_result = "signed_out",
                        !.lifecycle_busy = FALSE]
         /\ vault' = [s \in Sessions |->
                        IF gone /\ s = auth.session THEN 0 ELSE vault[s]]
    /\ Goes(c, "idle")
    /\ Broadcast
    /\ UNCHANGED <<issued, threads, asked, note, returned, superseded, calls>>

DestroyEnds(c) ==
    /\ Drained(c, "destroy")
    /\ auth' = [ClearPending(auth) EXCEPT !.login_id = 0, !.token = 0,
                                          !.session = NoSession]
    /\ Goes(c, "freed")
    /\ UNCHANGED <<vault, issued, threads, asked, note, returned, asleep,
                   superseded, calls>>

(***************************************************************************)
(* Logins.                                                                 *)
(***************************************************************************)

(* reap_previous_callback, the first half of start and of device_start.    *)
Reap(c, o) ==
    /\ Calls(c, o, NoSession)
    /\ ~auth.callback_active /\ ~auth.lifecycle_busy
    /\ auth' = TakeThread(auth)
    /\ Notes(c, Taken)
    /\ Goes(c, "reap")
    /\ UNCHANGED <<vault, issued, threads, returned, asleep, superseded>>

Reaped(c, o) == at[c] = "reap" /\ Joined(c) /\ asked[c].op = o

CanLogin == auth.session # NoSession /\ ~auth.callback_active /\ ~auth.destroying

LoginRefused(c) ==
    /\ at[c] = "reap" /\ Joined(c)
    /\ ~CanLogin
    /\ Goes(c, "idle")
    /\ UNCHANGED <<auth, vault, issued, threads, asked, note, returned, asleep,
                   superseded, calls>>

(* start creates the callback thread and waits for it to listen.           *)
StartSpawns(c) ==
    /\ Reaped(c, "start")
    /\ CanLogin
    /\ LET g == auth.generation + 1 IN
       /\ auth' = [NewLogin(auth) EXCEPT
                     !.state = g, !.callback_ready = FALSE,
                     !.callback_ok = FALSE, !.callback_thread = g,
                     !.thread_joinable = TRUE]
       /\ threads' = Spawned(g)
       /\ Notes(c, g)
    /\ Goes(c, "ready")
    /\ asleep' = asleep \cup {c}
    /\ superseded' = AtWork
    /\ UNCHANGED <<vault, issued, asked, returned, calls>>

(* pthread_create failed.                                                  *)
StartUnspawned(c) ==
    /\ Reaped(c, "start")
    /\ CanLogin
    /\ auth' = [ClearPending(NewLogin(auth)) EXCEPT
                  !.callback_ready = FALSE, !.callback_ok = FALSE,
                  !.callback_active = FALSE, !.login_id = 0]
    /\ Goes(c, "idle")
    /\ superseded' = AtWork
    /\ UNCHANGED <<vault, issued, threads, asked, note, returned, asleep, calls>>

StartSleeps(c) ==
    /\ at[c] = "ready" /\ c \notin asleep
    /\ ~auth.callback_ready
    /\ asleep' = asleep \cup {c}
    /\ UNCHANGED <<auth, vault, issued, threads, at, asked, note, returned,
                   superseded, calls>>

(* The login is open, or the thread now known as callback_thread is to be  *)
(* joined and its leavings cleared.                                        *)
StartReady(c) ==
    /\ at[c] = "ready" /\ c \notin asleep
    /\ auth.callback_ready
    /\ IF auth.callback_ok
       THEN Goes(c, "idle") /\ UNCHANGED <<auth, note>>
       ELSE /\ auth' = [TakeThread(auth) EXCEPT !.stop_requested = TRUE]
            /\ Notes(c, auth.callback_thread)
            /\ Goes(c, "unready")
    /\ UNCHANGED <<vault, issued, threads, asked, returned, asleep, superseded,
                   calls>>

StartFails(c) ==
    /\ at[c] = "unready" /\ Joined(c)
    /\ auth' = [ClearPending(auth) EXCEPT !.login_id = 0,
                                          !.stop_requested = FALSE]
    /\ Goes(c, "idle")
    /\ UNCHANGED <<vault, issued, threads, asked, note, returned, asleep,
                   superseded, calls>>

(* device_start counts itself and asks the issuer for a user code.         *)
DeviceAsks(c) ==
    /\ Reaped(c, "device")
    /\ CanLogin
    /\ auth' = [NewLogin(auth) EXCEPT !.active_operations = @ + 1]
    /\ Notes(c, auth.generation + 1)
    /\ Goes(c, "posting")
    /\ superseded' = AtWork
    /\ UNCHANGED <<vault, issued, threads, asked, returned, asleep, calls>>

(* The code came and the login is still the one that asked: the poll has   *)
(* what it needs.  Any other outcome undoes the login.                     *)
DeviceAnswered(c) ==
    /\ at[c] = "posting"
    /\ \/ /\ auth.generation = note[c] /\ ~auth.stop_requested
          /\ auth' = [auth EXCEPT !.device = note[c]]
          /\ Goes(c, "posted")
       \/ Goes(c, "refused") /\ UNCHANGED auth
    /\ UNCHANGED <<vault, issued, threads, asked, note, returned, asleep,
                   superseded, calls>>

(* device_start_failed.                                                    *)
DeviceRefused(c) ==
    /\ at[c] = "refused"
    /\ IF auth.generation = note[c]
       THEN /\ auth' = [ClearPending(auth) EXCEPT !.login_id = 0,
                                                  !.callback_active = FALSE]
            /\ Broadcast
       ELSE UNCHANGED <<auth, asleep>>
    /\ Goes(c, "posted")
    /\ UNCHANGED <<vault, issued, threads, asked, note, returned, superseded,
                   calls>>

(* active_operation_finish, the last step of device_start and of a poll.   *)
OperationFinishes(c) ==
    /\ at[c] \in {"posted", "leaving"}
    /\ auth' = [auth EXCEPT !.active_operations = IF @ > 0 THEN @ - 1 ELSE @]
    /\ Goes(c, "idle")
    /\ Broadcast
    /\ UNCHANGED <<vault, issued, threads, asked, note, returned, superseded,
                   calls>>

(***************************************************************************)
(* device_poll: at most one due poll at a time.                            *)
(***************************************************************************)
PollNames(c) ==
    /\ Calls(c, "poll", NoSession)
    /\ auth.callback_active /\ auth.device # 0 /\ auth.login_id # 0
    /\ Notes(c, auth.generation)
    /\ UNCHANGED <<vault, issued, threads, asleep>>

PollBegins(c) ==
    /\ PollNames(c)
    /\ ~auth.device_poll_in_progress
    /\ auth' = [auth EXCEPT !.device_poll_in_progress = TRUE,
                            !.active_operations = @ + 1]
    /\ Goes(c, "polling")
    /\ Answers(c, "none", 0)
    /\ superseded' = [superseded EXCEPT !.calls = @ \ {c}]

(* The login has expired: it is finished in a second critical section.     *)
PollExpired(c) ==
    /\ PollNames(c)
    /\ Goes(c, "expired")
    /\ Answers(c, "terminal", 0)
    /\ superseded' = [superseded EXCEPT !.calls = @ \ {c}]
    /\ UNCHANGED auth

(* The issuer's answer, and where each leads.  The transfer is cancelled   *)
(* when the login is no longer active, and only then.                      *)
PollAnswered(c) ==
    /\ at[c] = "polling"
    /\ \/ /\ ~StillActive(note[c])
          /\ Goes(c, "releasing") /\ Answers(c, "cancelled", 0)
       \/ /\ StillActive(note[c])
          /\ \/ Goes(c, "releasing") /\ Answers(c, "transient", 0)
             \/ Goes(c, "releasing") /\ Answers(c, "pending", 0)
             \/ Goes(c, "closing") /\ Answers(c, "transient", 0)
             \/ Goes(c, "closing") /\ Answers(c, "terminal", 0)
             \/ Goes(c, "trading") /\ UNCHANGED returned
    /\ UNCHANGED <<auth, vault, issued, threads, asked, note, asleep,
                   superseded, calls>>

(* The authorization code is exchanged for tokens.                         *)
PollTrades(c) ==
    /\ at[c] = "trading"
    /\ \/ ~StillActive(note[c]) /\ Goes(c, "leaving") /\ Answers(c, "cancelled", 0)
       \/ StillActive(note[c]) /\ Goes(c, "closing") /\ Answers(c, "transient", 0)
       \/ StillActive(note[c]) /\ Goes(c, "keeping") /\ UNCHANGED returned
    /\ UNCHANGED <<auth, vault, issued, threads, asked, note, asleep,
                   superseded, calls>>

(* complete_callback_tokens for a login of generation g: the new token is  *)
(* saved and committed, or (a failed save, another login since) dropped.   *)
CompletesUnsaved(g) ==    \* mutant: committed whether or not it was saved
    /\ auth.generation = g /\ ~auth.stop_requested
    /\ issued' = issued + 1
    /\ auth' = Commit(auth, issued + 1)
    /\ UNCHANGED vault

Completes(g) ==
    /\ auth.generation = g /\ ~auth.stop_requested
    /\ auth.session # NoSession
    /\ issued' = issued + 1
    /\ vault' = [vault EXCEPT ![auth.session] = issued + 1]
    /\ auth' = Commit(auth, issued + 1)

PollKeeps(c) ==
    /\ at[c] = "keeping"
    /\ \/ Completes(note[c]) /\ Answers(c, "complete", 0)
       \/ UNCHANGED <<auth, vault, issued>> /\ Answers(c, "transient", 0)
    /\ Goes(c, "closing")
    /\ UNCHANGED <<threads, asked, note, asleep, superseded, calls>>

(* device_poll_finished ends the login the poll was for, whatever the      *)
(* result.  The poll of an expired login is not counted.                   *)
PollCloses(c) ==
    /\ at[c] \in {"closing", "expired"}
    /\ IF auth.generation = note[c]
       THEN /\ auth' = [ClearPending(auth) EXCEPT !.callback_active = FALSE]
            /\ Broadcast
       ELSE UNCHANGED <<auth, asleep>>
    /\ Goes(c, IF at[c] = "closing" THEN "leaving" ELSE "idle")
    /\ UNCHANGED <<vault, issued, threads, asked, note, returned, superseded,
                   calls>>

(* Mutant: nobody is told.                                                 *)
PollReleasesSilently(c) ==
    /\ at[c] = "releasing"
    /\ auth' = [auth EXCEPT
          !.device_poll_in_progress = @ /\ auth.generation # note[c],
          !.active_operations = IF @ > 0 THEN @ - 1 ELSE @]
    /\ Goes(c, "idle")
    /\ UNCHANGED <<vault, issued, threads, asked, note, returned, asleep,
                   superseded, calls>>

(* device_poll_released: the login goes on.                                *)
PollReleases(c) ==
    /\ at[c] = "releasing"
    /\ auth' = [auth EXCEPT
          !.device_poll_in_progress = @ /\ auth.generation # note[c],
          !.active_operations = IF @ > 0 THEN @ - 1 ELSE @]
    /\ Goes(c, "idle")
    /\ Broadcast
    /\ UNCHANGED <<vault, issued, threads, asked, note, returned, superseded,
                   calls>>

(***************************************************************************)
(* The callback thread of the browser login of generation g.               *)
(***************************************************************************)
Moves(g, place) == threads' = [threads EXCEPT ![g] = place]

ThreadIs(g, place) == g \in DOMAIN threads /\ threads[g] = place

(* The socket is bound and the listener published, or the failure is; a    *)
(* thread of another generation publishes neither.                         *)
ThreadBinds(g) ==
    /\ ThreadIs(g, "binding")
    /\ \/ /\ StillActive(g)
          /\ auth' = [auth EXCEPT !.callback_ready = TRUE, !.callback_ok = TRUE]
          /\ Broadcast
          /\ Moves(g, "serving")
       \/ /\ IF auth.generation = g
             THEN /\ auth' = [auth EXCEPT !.callback_ready = TRUE,
                                          !.callback_ok = FALSE]
                  /\ Broadcast
             ELSE UNCHANGED <<auth, asleep>>
          /\ Moves(g, "ending")
    /\ UNCHANGED <<vault, issued, at, asked, note, returned, superseded, calls>>

(* The login times out, or the thread sees it is no longer wanted.         *)
ThreadLeaves(g) ==
    /\ ThreadIs(g, "serving")
    /\ Moves(g, "ending")
    /\ UNCHANGED <<auth, vault, issued, at, asked, note, returned, asleep,
                   superseded, calls>>

(* The browser comes back with the login's state, once: with the code, or  *)
(* with a denial.  Any other request is answered 400 and changes nothing.  *)
ThreadAccepts(g) ==
    /\ ThreadIs(g, "serving")
    /\ auth.generation = g /\ ~auth.stop_requested /\ auth.state # 0
    /\ auth' = ClearPending(auth)
    /\ \/ Moves(g, "trading")
       \/ Moves(g, "ending")
    /\ UNCHANGED <<vault, issued, at, asked, note, returned, asleep, superseded,
                   calls>>

ThreadTrades(g) ==
    /\ ThreadIs(g, "trading")
    /\ \/ StillActive(g) /\ Moves(g, "keeping")
       \/ Moves(g, "ending")
    /\ UNCHANGED <<auth, vault, issued, at, asked, note, returned, asleep,
                   superseded, calls>>

ThreadKeeps(g) ==
    /\ ThreadIs(g, "keeping")
    /\ Completes(g) \/ UNCHANGED <<auth, vault, issued>>
    /\ Moves(g, "ending")
    /\ UNCHANGED <<at, asked, note, returned, asleep, superseded, calls>>

(* callback_finish.                                                        *)
ThreadFinishes(g) ==
    /\ ThreadIs(g, "ending")
    /\ threads' = Exited(g)
    /\ IF auth.generation = g
       THEN /\ auth' = [ClearPending(auth) EXCEPT !.callback_active = FALSE]
            /\ Broadcast
       ELSE UNCHANGED <<auth, asleep>>
    /\ UNCHANGED <<vault, issued, at, asked, note, returned, superseded, calls>>

(***************************************************************************)
(* Tokens: get_access_token, and force_refresh, which refresh_after_401    *)
(* becomes when the rejected token is the one held.                        *)
(***************************************************************************)
CanAsk ==
    auth.session # NoSession /\ auth.token # 0 /\ ~auth.stop_requested

(* The token held is fresh, or (after a 401) is not the rejected one.      *)
TokenHeld(c) ==
    /\ Calls(c, "get", NoSession)
    /\ CanAsk
    /\ ~auth.refresh_in_progress
    /\ Answers(c, "ok", auth.token)
    /\ UNCHANGED <<auth, vault, issued, threads, at, note, asleep, superseded>>

(* A refresh is under way: wait for it.                                    *)
TokenWaits(c) ==
    /\ \E o \in {"get", "force"} : Calls(c, o, NoSession)
    /\ CanAsk
    /\ auth.refresh_in_progress
    /\ Notes(c, auth.token_version)
    /\ Answers(c, "none", 0)
    /\ Goes(c, "wait")
    /\ asleep' = asleep \cup {c}
    /\ UNCHANGED <<auth, vault, issued, threads, superseded>>

(* The token is due, or a refresh is forced: the refresh begins.           *)
RefreshBegins(c) ==
    /\ \E o \in {"get", "force"} : Calls(c, o, NoSession)
    /\ CanAsk
    /\ ~auth.refresh_in_progress
    /\ auth' = [auth EXCEPT !.refresh_in_progress = TRUE]
    /\ Notes(c, auth.generation)
    /\ Answers(c, "none", 0)
    /\ Goes(c, "refreshing")
    /\ superseded' = [superseded EXCEPT !.calls = @ \ {c}]
    /\ UNCHANGED <<vault, issued, threads, asleep>>

(* A waiter wakes: the manager was stopped or emptied, a forced refresh    *)
(* finds a newer token, another refresh has begun, or the one it waited    *)
(* for is over and its result is the waiter's too.                         *)
WaiterWakes(c) ==
    /\ at[c] = "wait" /\ c \notin asleep
    /\ LET stopped == ~CanAsk \/ auth.destroying
           newer == asked[c].op = "force" /\ auth.token_version # note[c]
           shared == auth.last_refresh_result = "ok"
       IN \/ /\ stopped
             /\ Answers(c, auth.last_refresh_result, 0)
             /\ Goes(c, "idle") /\ UNCHANGED asleep
          \/ /\ ~stopped /\ ~newer /\ auth.refresh_in_progress
             /\ asleep' = asleep \cup {c} /\ UNCHANGED <<at, returned>>
          \/ /\ ~stopped /\ (newer \/ ~auth.refresh_in_progress)
             /\ IF newer \/ shared
                THEN Answers(c, "ok", auth.token)
                ELSE Answers(c, auth.last_refresh_result, 0)
             /\ Goes(c, "idle") /\ UNCHANGED asleep
    /\ UNCHANGED <<auth, vault, issued, threads, asked, note, superseded, calls>>

(* The token endpoint's answer, with the mutex released.                   *)
RefreshAnswered(c) ==
    /\ at[c] = "refreshing"
    /\ \/ ~StillActive(note[c]) /\ Goes(c, "dropped")
       \/ StillActive(note[c]) /\ \E r \in {"granted", "failed", "rejected"} :
                                      Goes(c, r)
    /\ UNCHANGED <<auth, vault, issued, threads, asked, note, returned, asleep,
                   superseded, calls>>

(* The refresh is over, with result r and the struct and vault it leaves.  *)
RefreshOver(c, r, a) ==
    /\ auth' = [a EXCEPT !.last_refresh_result = r,
                         !.refresh_in_progress = FALSE]
    /\ Answers(c, r, IF r = "ok" THEN a.token ELSE 0)
    /\ Goes(c, "idle")
    /\ Broadcast
    /\ UNCHANGED <<threads, asked, note, superseded, calls>>

(* Superseded, or the endpoint was no help.                                *)
RefreshLost(c) ==
    /\ at[c] \in {"granted", "failed", "rejected", "dropped"}
    /\ \/ /\ ~StillActive(note[c]) \/ at[c] = "dropped"
          /\ RefreshOver(c, "cancelled", auth)
       \/ StillActive(note[c]) /\ at[c] = "failed"
          /\ RefreshOver(c, "transient", auth)
    /\ UNCHANGED <<vault, issued>>

(* Saved, then committed; a token that cannot be saved is not used.        *)
RefreshGranted(c) ==
    /\ at[c] = "granted"
    /\ StillActive(note[c])
    /\ \/ /\ auth.session # NoSession
          /\ issued' = issued + 1
          /\ vault' = [vault EXCEPT ![auth.session] = issued + 1]
          /\ RefreshOver(c, "ok", Commit(auth, issued + 1))
       \/ RefreshOver(c, "transient", auth) /\ UNCHANGED <<vault, issued>>

(* The refresh token is dead: signed out, in the vault first.              *)
RefreshRejected(c) ==
    /\ at[c] = "rejected"
    /\ StillActive(note[c])
    /\ \/ /\ vault' = [s \in Sessions |->
                         IF s = auth.session THEN 0 ELSE vault[s]]
          /\ RefreshOver(c, "permanent", [auth EXCEPT !.token = 0])
       \/ /\ auth.session # NoSession
          /\ RefreshOver(c, "transient", auth) /\ UNCHANGED vault
    /\ UNCHANGED issued

(* POSIX lets a wait return for no reason.                                 *)
Spurious(c) ==
    /\ c \in asleep
    /\ asleep' = asleep \ {c}
    /\ UNCHANGED <<auth, vault, issued, threads, at, asked, note, returned,
                   superseded, calls>>

(***************************************************************************)
(* The whole.                                                              *)
(***************************************************************************)
Calling(c) ==
    \/ \E s \in Attachable : BeginLifecycle(c, "attach", s)
    \/ \E o \in {"logout", "cancel"} : BeginLifecycle(c, o, NoSession)
    \/ BeginDestroy(c)
    \/ \E o \in {"start", "device"} : Reap(c, o)
    \/ PollBegins(c) \/ PollExpired(c)
    \/ TokenHeld(c) \/ TokenWaits(c) \/ RefreshBegins(c)

Going(c) ==
    \/ Join(c) \/ DrainSleeps(c) \/ AttachCloses(c) \/ AttachLoads(c)
    \/ CancelEnds(c) \/ LogoutEnds(c) \/ DestroyEnds(c)
    \/ LoginRefused(c) \/ StartSpawns(c) \/ StartUnspawned(c) \/ StartSleeps(c)
    \/ StartReady(c) \/ StartFails(c)
    \/ DeviceAsks(c) \/ DeviceAnswered(c) \/ DeviceRefused(c)
    \/ OperationFinishes(c)
    \/ PollAnswered(c) \/ PollTrades(c) \/ PollKeeps(c) \/ PollCloses(c)
    \/ PollReleases(c)
    \/ WaiterWakes(c)
    \/ RefreshAnswered(c) \/ RefreshLost(c) \/ RefreshGranted(c)
    \/ RefreshRejected(c)

ThreadGoes(g) ==
    \/ ThreadBinds(g) \/ ThreadLeaves(g) \/ ThreadAccepts(g) \/ ThreadTrades(g)
    \/ ThreadKeeps(g) \/ ThreadFinishes(g)

Next ==
    \/ \E c \in Callers : Calling(c) \/ Going(c) \/ Spurious(c)
    \/ \E g \in DOMAIN threads : ThreadGoes(g)

Spec == Init /\ [][Next]_vars

(* Threads are scheduled, transfers end (curl's 30 second limit) and so do *)
(* logins (five minutes).  Nobody has to call, and no wait ends for no     *)
(* reason.                                                                 *)
Fairness ==
    /\ \A c \in Callers : WF_vars(Going(c))
    /\ \A g \in 1..MaxCalls : WF_vars(ThreadGoes(g))

FairSpec == Spec /\ Fairness

(***************************************************************************)
(* Properties.                                                             *)
(***************************************************************************)

(* The type of every variable.                                             *)
TypeOK ==
    /\ auth \in Auth
    /\ vault \in [Sessions -> Nat]
    /\ issued \in Nat
    /\ DOMAIN threads \subseteq Nat
    /\ threads \in [DOMAIN threads -> ThreadStates]
    /\ at \in [Callers -> Places]
    /\ asked \in [Callers -> [op : Ops, with : Attachable]]
    /\ note \in [Callers -> Nat]
    /\ returned \in [Callers -> [result : Results, token : Nat]]
    /\ asleep \subseteq Callers
    /\ superseded \in [calls : SUBSET Callers, threads : SUBSET Nat]
    /\ calls \in 0..MaxCalls

(* The two counters the lifecycle calls wait on say exactly what is under  *)
(* way: refresh_in_progress is one caller's, never two (single flight),    *)
(* and active_operations is the number of device starts and polls.         *)
CountsAgree ==
    /\ auth.refresh_in_progress <=> \E c \in Callers : at[c] \in Refreshing
    /\ \A c, d \in Callers :
         at[c] \in Refreshing /\ at[d] \in Refreshing => c = d
    /\ auth.active_operations = Cardinality({c \in Callers : at[c] \in Counted})

(* openai_oauth_destroy frees the struct when nobody can touch it again:   *)
(* no callback thread is left, and every other call has returned.          *)
FreedLast ==
    \A c \in Callers : at[c] = "freed" =>
        /\ DOMAIN threads = {}
        /\ \A d \in Callers \ {c} : at[d] = "idle"

(* The counters say what is under way, one refresh at a time               *)
(* (openai_oauth.c:371), and the struct is freed when nobody can touch it  *)
(* again (openai_oauth.c:68).                                              *)
ManagerSound == TypeOK /\ CountsAgree /\ FreedLast

(* A login or a refresh that was at work when a later login, a logout, an  *)
(* attach, a cancel or destroy began never brings its token in, however    *)
(* late the issuer's answer and whatever was reset in between.             *)
NoLateSignIn ==
    [][issued' # issued =>
         /\ \A c \in superseded.calls : at'[c] = at[c]
         /\ \A g \in superseded.threads \cap DOMAIN threads :
              g \in DOMAIN threads' /\ threads'[g] = threads[g]]_vars

(* The credentials follow Keyring: held means stored, and signing out      *)
(* empties both.                                                           *)
K == INSTANCE Keyring WITH session <- auth.session, token <- auth.token,
                           stored <- vault

CredentialsKept == K!KeyringSpec

(* Every call ends, attach, logout, cancel and destroy included, whichever *)
(* transfers and callback threads they have to wait for.  A start that     *)
(* waits for its thread is left to StartReturns.                           *)
CallsEnd ==
    \A c \in Callers :
        at[c] \notin {"idle", "ready", "freed"} ~>
            at[c] \in {"idle", "ready", "freed"}

(* "Return: 0 on success; -1 when ..." (openai_oauth.h): start returns.    *)
(* It need not: a cancel, or a second start, can take away what it waits   *)
(* for (section 5 of README.md).                                           *)
StartReturns == \A c \in Callers : at[c] = "ready" ~> at[c] # "ready"

(* "OPENAI_OAUTH_TOKEN_OK (0) with caller-owned outputs on success"        *)
(* (openai_oauth.h).  A waiter that wakes after the refresh succeeded, but *)
(* in a manager that was stopped since, breaks it (section 5).             *)
OkHasToken ==
    \A c \in Callers : returned[c].result = "ok" => returned[c].token # 0

(* "OPENAI_OAUTH_DEVICE_TRANSIENT for retryable failures (call again       *)
(* later)" (openai_oauth.h): a poll that says so leaves the login, unless  *)
(* another call has superseded it, where the next poll finds it.           *)
TransientIsRetryable ==
    [][\A c \in Callers :
         /\ at[c] # "idle" /\ at'[c] = "idle"
         /\ asked[c].op = "poll" /\ returned[c].result = "transient"
         /\ auth.generation = note[c]
         => auth'.callback_active /\ auth'.device # 0]_vars
=============================================================================
