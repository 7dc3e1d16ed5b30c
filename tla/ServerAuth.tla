----------------------------- MODULE ServerAuth -----------------------------
(***************************************************************************)
(* Who may use the server: its state, its token, the session managers and   *)
(* who holds them, the throttling of wrong passwords, and what the handlers *)
(* of requests answer; and, apart from that, how many requests an address    *)
(* may send.  One thread serves the requests, so each is a step; how its      *)
(* bytes come in is in HttpConnection, the runs of a connection in WsChat,    *)
(* the vault in PasswordMigration, the sign-in in OpenAIOAuth.               *)
(* A minute is a unit of W ticks.  Left out: failing allocations, HOME.       *)
(***************************************************************************)
EXTENDS Naturals, FiniteSets, Functions
CONSTANTS Ips, Conns,
          PerIp, Global,     \* 5 and 20 wrong passwords
          W,                 \* the ticks of a minute
          MaxTime,           \* bound: ticks
          MaxManagers        \* bound: managers created
ASSUME AuthAssumption ==
    /\ IsFiniteSet(Ips) /\ IsFiniteSet(Conns)
    /\ {PerIp, Global, MaxTime, MaxManagers} \subseteq Nat /\ W \in Nat \ {0}

VARIABLES enabled,    \* session.enabled in the configuration
          vault,      \* the data directory holds a vault
          state,      \* ServerContext.state
          token,      \* unlock_token: 0 is NULL, Noop or a number
          sm,         \* ServerContext.sm, 0 is NULL
          attached,   \* the manager in openai_oauth, registry and the shared agent: not counted
          conn,       \* the manager of each WebSocket connection's context, or NoConn
          refs,       \* ref_count of each manager made
          now, failures,   \* the clock, and unlock_failures: how many of an address and a time
          reply       \* the class of the last answer: 1, 2, 4 or 5 hundred and something
auth == <<enabled, vault, state, token, sm, attached, conn, refs, now, failures, reply>>
holders == <<sm, attached, conn, refs>>

Noop == MaxManagers + 1
NoConn == MaxManagers + 2
Managers == 1..MaxManagers
Tokens == 0..Noop

-----------------------------------------------------------------------------
(* rate_limiter.c: wrong passwords of the last minute.                       *)
Times == 0..MaxTime
Failed(ips, times) == SumFunctionOnSet(failures, ips \X times)
Recent == {t \in Times : t + W > now}
\* Mutants of UnlockAllowed: only the address is looked at; only the sum is.
UnlockAllowedHere(ip) == Failed({ip}, Recent) < PerIp
UnlockAllowedAll(ip) == Failed(Ips, Recent) < Global
UnlockAllowed(ip) == Failed({ip}, Recent) < PerIp /\ Failed(Ips, Recent) < Global
RecordUnlockFailure(ip) == failures' = [failures EXCEPT ![<<ip, now>>] = @ + 1]

-----------------------------------------------------------------------------
(* middleware.c: three gates on one token, by header, query and subprotocol.  *)
CheckUnlock(t) == state = "unlocked" /\ token # 0 /\ (token = Noop \/ t = token)
CheckUnlockQuery(t) == state = "unlocked" /\ token # 0 /\ (token = Noop \/ (t # 0 /\ t = token))
WsGate(t) == ~(state # "unlocked" \/ token = 0 \/ (token # Noop /\ t # token))
\* Mutant of Status: the mode without sessions is forgotten.
StatusNoNoop(t) == [locked |-> state = "locked" \/ (state = "unlocked" /\ t # token),
                    setup |-> state = "setup", sessions |-> sm # 0]
(* handle_status, to a client with token t.                                  *)
Status(t) == [locked |-> state = "locked" \/ (state = "unlocked" /\ token \notin {0, Noop} /\ t # token),
              setup |-> state = "setup", sessions |-> sm # 0]

-----------------------------------------------------------------------------
(* session_manager_retain and _free; 0 is NULL.                              *)
Retained(rc, m) == IF m = 0 \/ rc[m] = 0 THEN rc ELSE [rc EXCEPT ![m] = @ + 1]
Freed(rc, m) == IF m = 0 THEN rc ELSE [rc EXCEPT ![m] = @ - 1]
Created == {m \in Managers : refs[m] = 0 /\ \A k \in Managers : k >= m => refs[k] = 0 /\ k \notin {sm, attached, token}}
Made == {m \in Created : \A k \in Created : m <= k}

Reply(code) == reply' = code \div 100
Answers(code) == Reply(code) /\ UNCHANGED <<enabled, vault, state, token, now, failures>> /\ UNCHANGED holders
Clock == UNCHANGED <<enabled, now>>

(* A manager is made and takes the place of none: token, generation, state.   *)
Opens(m) ==
    /\ state' = "unlocked" /\ token' = m /\ sm' = m /\ attached' = m
    /\ refs' = [refs EXCEPT ![m] = 1]
    /\ UNCHANGED conn /\ Reply(200)

Setup(password) ==
    IF state # "setup" \/ password = "short" THEN Answers(400)
    ELSE \/ Answers(500)                      \* the vault could not be made
         \/ \E m \in Made : Opens(m) /\ vault' = TRUE /\ Clock /\ UNCHANGED failures
\* Without a vault, the first password makes it; "right" stands for the one it has.
Unlock(ip, t, password) ==
    CASE state = "unlocked" /\ token # 0 /\ t = token -> Answers(200)
      [] ~(state = "unlocked" /\ t = token) /\ state = "setup" -> Answers(400)
      [] ~(state = "unlocked" /\ t = token) /\ state # "setup" /\ ~UnlockAllowed(ip) -> Answers(429)
      [] ~(state = "unlocked" /\ t = token) /\ state # "setup" /\ UnlockAllowed(ip) ->
           \/ password = "none" /\ Answers(400)
           \/ password # "none" /\ Answers(500)
           \/ /\ password = "wrong" /\ vault /\ RecordUnlockFailure(ip) /\ Reply(401)
              /\ UNCHANGED <<vault, state, token>> /\ UNCHANGED holders /\ Clock
           \/ /\ password = "right" \/ (password # "none" /\ ~vault)
              /\ IF state = "unlocked"
                 THEN vault' = TRUE /\ Reply(200) /\ UNCHANGED <<enabled, state, token, now, failures>> /\ UNCHANGED holders
                 ELSE \E m \in Made : Opens(m) /\ vault' = TRUE /\ Clock /\ UNCHANGED failures

(* routes_ws_invalidate_auth: every connection gives up its manager.          *)
Invalidated(rc) == [m \in Managers |-> rc[m] - Cardinality({c \in Conns : conn[c] = m})]
\* Mutant of Logout: the connections keep their managers.
LogoutKeeps(t) ==
    IF ~CheckUnlock(t) THEN Answers(401)
    ELSE /\ state' = "locked" /\ token' = 0 /\ sm' = 0 /\ attached' = 0
         /\ conn' = [c \in Conns |-> IF conn[c] = NoConn THEN NoConn ELSE 0]
         /\ refs' = Freed(refs, sm)
         /\ Reply(200) /\ Clock /\ UNCHANGED <<vault, failures>>
Logout(t) ==
    IF ~CheckUnlock(t) THEN Answers(401)
    ELSE \/ Answers(500)                      \* openai_oauth is being changed
         \/ /\ state' = "locked" /\ token' = 0 /\ sm' = 0 /\ attached' = 0
            /\ conn' = [c \in Conns |-> IF conn[c] = NoConn THEN NoConn ELSE 0]
            /\ refs' = Freed(Invalidated(refs), sm)
            /\ Reply(200) /\ Clock /\ UNCHANGED <<vault, failures>>

ChangePassword(ip, t, password) ==
    CASE ~CheckUnlock(t) -> Answers(401)
      [] CheckUnlock(t) /\ (sm = 0 \/ password = "none") -> Answers(400)
      [] CheckUnlock(t) /\ sm # 0 /\ password # "none" /\ ~UnlockAllowed(ip) -> Answers(429)
      [] CheckUnlock(t) /\ sm # 0 /\ password # "none" /\ UnlockAllowed(ip) ->
           \/ Answers(500)
           \/ Answers(400)                      \* the new one is too short, or not confirmed
           \/ password = "right" /\ Answers(200)
           \/ /\ password = "wrong" /\ RecordUnlockFailure(ip) /\ Reply(401)
              /\ UNCHANGED <<vault, state, token>> /\ UNCHANGED holders /\ Clock

-----------------------------------------------------------------------------
(* WebSocket connections: each retains the manager there is.                  *)
WsConnect(c, t) ==
    /\ conn[c] = NoConn
    /\ IF ~WsGate(t) THEN Answers(401)
       ELSE \/ /\ conn' = [conn EXCEPT ![c] = sm] /\ refs' = Retained(refs, sm) /\ Reply(101)
               /\ UNCHANGED <<sm, attached, vault, state, token, failures>> /\ Clock
            \/ Answers(400)
WsClose(c) ==
    /\ conn[c] # NoConn
    /\ conn' = [conn EXCEPT ![c] = NoConn] /\ refs' = Freed(refs, conn[c])
    /\ UNCHANGED <<sm, attached, vault, state, token, failures, reply>> /\ Clock

-----------------------------------------------------------------------------
(* The other routes, and what they may answer.  Routes with "needs_unlock" are *)
(* behind a gate; events take the token of the query.                         *)
Open == {"status", "health", "config", "metrics", "models", "providers"}
Gated == {"sessions", "chat", "events", "detailed", "undo", "redo", "openai_status", "openai_start", "openai_logout"}
Gate(route, t) == IF route = "events" THEN CheckUnlockQuery(t) ELSE CheckUnlock(t)

Metrics == {200, 500}
Undo == {200}                     \* undone, or nothing to undo
Redo == {200}
Chat == {200, 400, 500}           \* an answer; no message; the run gave none
Events == {200}                   \* the rest of it is in HttpConnection
OpenAIStatus == {200, 400, 404}   \* a login id that is not well formed, or not active
OpenAIStart == IF sm = 0 THEN {503} ELSE {200, 409, 500}
OpenAILogout == {200, 400, 500}
Sessions == IF sm = 0 THEN {200} ELSE {200, 500}
ServeStatic == {200, 400, 404, 500}

Handler(route) ==
    CASE route = "status" -> {200} [] route = "health" -> {200} [] route = "config" -> {200}
      [] route = "metrics" -> Metrics [] route = "providers" -> {200} [] route = "detailed" -> {200}
      [] route = "models" -> {200}
      [] route = "chat" -> Chat [] route = "events" -> Events [] route = "undo" -> Undo [] route = "redo" -> Redo
      [] route = "sessions" -> Sessions [] route = "openai_status" -> OpenAIStatus
      [] route = "openai_start" -> OpenAIStart [] route = "openai_logout" -> OpenAILogout
      [] route = "file" -> ServeStatic [] route = "nowhere" -> {404} [] route = "OPTIONS" -> {204}

(* handle_request: refused at the limit of requests, or dispatched.           *)
Ask(route, t) ==
    \/ Answers(429)
    \/ /\ route \in Gated /\ ~Gate(route, t) /\ Answers(401)
    \/ /\ route \in Gated => Gate(route, t)
       /\ \E code \in Handler(route) : Answers(code)

Request(ip, t) ==
    \/ \E password \in {"short", "right"} : Setup(password)
    \/ \E password \in {"none", "wrong", "right"} : Unlock(ip, t, password) \/ ChangePassword(ip, t, password)


(* The start of the server, and another start after a stop or a crash: the    *)
(* table of failures is a file.                                              *)
Starts(there) == IF enabled THEN (IF there THEN "locked" ELSE "setup") ELSE "unlocked"
Restart ==
    /\ state' = Starts(vault) /\ token' = (IF enabled THEN 0 ELSE Noop)
    /\ sm' = 0 /\ attached' = 0 /\ conn' = [c \in Conns |-> NoConn] /\ refs' = [m \in Managers |-> 0]
    /\ reply' = 0 /\ UNCHANGED <<vault, failures>> /\ Clock
Tick == now < MaxTime /\ now' = now + 1
        /\ UNCHANGED <<enabled, vault, state, token, failures, reply>> /\ UNCHANGED holders

AuthInit ==
    /\ enabled \in BOOLEAN /\ vault \in BOOLEAN
    /\ state = Starts(vault) /\ token = (IF enabled THEN 0 ELSE Noop)
    /\ sm = 0 /\ attached = 0 /\ conn = [c \in Conns |-> NoConn] /\ refs = [m \in Managers |-> 0]
    /\ now = 0 /\ failures = [x \in Ips \X Times |-> 0] /\ reply = 0
AuthNext ==
    \/ \E t \in Tokens \ {Noop} :
         \/ Logout(t) \/ \E ip \in Ips : Request(ip, t)
         \/ \E route \in Open \cup Gated \cup {"file", "nowhere", "OPTIONS"} : Ask(route, t)
    \/ \E c \in Conns : WsClose(c) \/ \E t \in Tokens \ {Noop} : WsConnect(c, t)
    \/ Restart \/ Tick

-----------------------------------------------------------------------------
AuthTypeOK ==
    /\ state \in {"setup", "locked", "unlocked"} /\ token \in Tokens
    /\ sm \in Managers \cup {0} /\ conn \in [Conns -> Managers \cup {0, NoConn}]
    /\ failures \in [Ips \X Times -> 0..PerIp] /\ reply \in {0, 1, 2, 4, 5}

(* A manager is counted once for the server and once for each connection that *)
(* holds it, and whoever has a pointer to one, counted or not, has it to one    *)
(* that is not freed (session_manager.c:578, routes_ws.c:61, routes_auth.c:271). *)
HoldersAgree ==
    /\ \A m \in Managers :
         refs[m] = (IF sm = m THEN 1 ELSE 0) + Cardinality({c \in Conns : conn[c] = m})
    /\ attached # 0 => refs[attached] > 0
    /\ state # "unlocked" => \A m \in Managers : refs[m] = 0

(* Within any minute at most PerIp wrong passwords of an address and Global of *)
(* all are tried, over both forms that ask for one and over restarts           *)
(* (rate_limiter.c:177, routes_auth.c:158 and :317).                         *)
Throttled ==
    \A t \in Times :
       LET minute == {u \in Times : t <= u /\ u < t + W}
       IN  Failed(Ips, minute) <= Global /\ \A ip \in Ips : Failed({ip}, minute) <= PerIp

(* Whatever the token, the three gates let the same clients in, and the status *)
(* page tells a client that it is let in exactly when it is                   *)
(* (middleware.c:106 and :120, server.c:317, routes_general.c:22).            *)
OneGate ==
    \A t \in Tokens \ {Noop} :
       /\ CheckUnlock(t) = CheckUnlockQuery(t) /\ CheckUnlock(t) = WsGate(t)
       /\ CheckUnlock(t) = (~Status(t).locked /\ ~Status(t).setup)

-----------------------------------------------------------------------------
(* rate_limiter_allow: at most Cap requests of an address in a window that   *)
(* starts with the first of them.  The row is a table's, which may fail at    *)
(* any statement: the request is then allowed.  It shares nothing with what   *)
(* is above.                                                               *)
CONSTANTS Addresses, Cap, Window,
          MaxClock            \* bound: ticks
ASSUME LimiterAssumption == {Cap, Window} \subseteq Nat \ {0} /\ MaxClock \in Nat   \* main.c:625: 60 and 60
VARIABLES clock,
          bucket,             \* rate_buckets: window_start and count, or NoBucket
          served,             \* history: the requests of an address allowed at a time
          broken              \* history: addresses for which a statement failed
limiter == <<clock, bucket, served, broken>>
Clocks == 0..MaxClock
NoBucket == [start |-> 0, count |-> 0]

Allowed(ip) == served' = [served EXCEPT ![ip][clock] = @ + 1] /\ UNCHANGED clock
Store(ip, row) == bucket' = [bucket EXCEPT ![ip] = row] /\ UNCHANGED broken
\* Mutant of Opening: every tick is a window.
OpeningEachTick(ip) == bucket[ip] = NoBucket \/ clock - bucket[ip].start >= 1
(* A window that is over, or none yet: the request opens one.                *)
Opening(ip) == bucket[ip] = NoBucket \/ clock - bucket[ip].start >= Window
Admit(ip) ==
    /\ served[ip][clock] <= Cap       \* bound: requests at one time
    /\ \/ Opening(ip) /\ Allowed(ip) /\ Store(ip, [start |-> clock, count |-> 1])
       \/ /\ ~Opening(ip) /\ bucket[ip].count < Cap
          /\ Allowed(ip) /\ Store(ip, [bucket[ip] EXCEPT !.count = @ + 1])
       \/ ~Opening(ip) /\ bucket[ip].count >= Cap /\ UNCHANGED limiter
FailsOpen(ip) ==
    /\ served[ip][clock] <= Cap
    /\ Allowed(ip) /\ broken' = broken \cup {ip} /\ UNCHANGED bucket
Pass == clock < MaxClock /\ clock' = clock + 1 /\ UNCHANGED <<bucket, served, broken>>

LimiterInit ==
    /\ clock = 0 /\ bucket = [ip \in Addresses |-> NoBucket]
    /\ served = [ip \in Addresses |-> [t \in Clocks |-> 0]] /\ broken = {}
LimiterNext == Pass \/ \E ip \in Addresses : Admit(ip) \/ FailsOpen(ip)

(* While the table works no address gets more than twice Cap requests served  *)
(* in any time as long as a window, wherever it begins (rate_limiter.c:73).    *)
Burst ==
    \A ip \in Addresses \ broken, t \in Clocks :
       SumFunctionOnSet(served[ip], {u \in Clocks : t <= u /\ u < t + Window}) <= 2 * Cap
=============================================================================
