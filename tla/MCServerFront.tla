--------------------------- MODULE MCServerFront ---------------------------
(***************************************************************************)
(* The three machines of the server's front in one run: a connection, the     *)
(* limit of requests, and the state behind them.  They share no variable, so  *)
(* each behaviour is of one of them, its subject.                            *)
(***************************************************************************)
EXTENDS HttpConnection, ServerAuth
VARIABLE subject
Start ==
    /\ subject \in {"connection", "limiter", "auth"}
    /\ IF subject = "connection" THEN ConnectionInit
       ELSE stream = 0 /\ got = 0 /\ stage = 0 /\ answer = 0 /\ queued = 0 /\ arrived = 0
            /\ at = 0 /\ handled = 0 /\ over = 0 /\ garbled = 0 /\ tidy = 0
    /\ LimiterInit
    /\ AuthInit /\ (subject # "auth" => enabled /\ vault)
Step ==
    \/ subject = "connection" /\ ConnectionNext /\ UNCHANGED limiter /\ UNCHANGED auth
    \/ subject = "limiter" /\ LimiterNext /\ UNCHANGED connection /\ UNCHANGED auth
    \/ subject = "auth" /\ AuthNext /\ UNCHANGED connection /\ UNCHANGED limiter
Spec == Start /\ [][Step /\ UNCHANGED subject]_<<subject, connection, limiter, auth>>

(* However a request is cut (http_parse.c:68) the server's verdict is that of   *)
(* the whole, and frames (websocket.c:246) are heard in order or the connection *)
(* is closed.                                                              *)
ConnectionSound == subject = "connection" => ConnectionTypeOK /\ ChunksDontMatter /\ HeardInOrder
(* No minute has more wrong passwords, and no window more requests, than the   *)
(* limits let through (rate_limiter.c:73 and :177).                          *)
LimitsHold == Throttled /\ Burst
(* Whoever holds a manager is counted (session_manager.c:578), and the gates    *)
(* and the status page agree on who is let in (middleware.c:106, server.c:317). *)
DoorHonest == AuthTypeOK /\ HoldersAgree /\ OneGate
=============================================================================
