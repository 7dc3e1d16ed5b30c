------------------------- MODULE OpenAIOAuthProofs -------------------------
(***************************************************************************)
(* Proofs about OpenAIOAuth for any finite set of calling threads, any     *)
(* sessions and any number of calls: the counters the lifecycle calls wait *)
(* on are exact, destroy comes last, nothing superseded signs in, and the  *)
(* manager implements Keyring.                                             *)
(*                                                                         *)
(* First what every step does to the struct (the lemmas ...Changes), then  *)
(* the invariant, then one lemma per action that keeps it (...Keeps).      *)
(***************************************************************************)
EXTENDS OpenAIOAuth, FiniteSetTheorems, TLAPS

-----------------------------------------------------------------------------
(* The fields of the struct, and what each step does to them               *)
Fields ==
  {"session", "generation", "token", "token_version", "stop_requested",
   "destroying", "lifecycle_busy", "refresh_in_progress", "active_operations",
   "last_refresh_result", "callback_active", "callback_ready", "callback_ok",
   "callback_thread", "thread_joinable", "login_id", "state", "device",
   "device_poll_in_progress"}
PendingFields == {"state", "device", "device_poll_in_progress"}

\* b is the struct a but for the fields of F.
Changes(a, b, F) == b \in Auth /\ \A f \in Fields \ F : b[f] = a[f]

\* The fields of the struct and their types.
LEMMA AuthIs ==
  ASSUME NEW a \in Auth
  PROVE  /\ DOMAIN a = Fields
         /\ a.session \in Attachable
         /\ a.generation \in Nat /\ a.generation + 1 \in Nat
         /\ a.token \in Nat /\ a.token_version + 1 \in Nat
         /\ a.active_operations \in Nat /\ a.active_operations + 1 \in Nat
         /\ a.active_operations > 0 => a.active_operations - 1 \in Nat
         /\ a.device_poll_in_progress \in BOOLEAN
         /\ a.callback_thread \in Nat /\ a.device \in Nat
BY DEF Auth, Fields

\* clear_pending_sensitive_locked forgets the pending login, and no more.
LEMMA ClearPendingChanges ==
  ASSUME NEW a \in Auth
  PROVE  /\ Changes(a, ClearPending(a), PendingFields)
         /\ ClearPending(a).device = 0
<1>1. ClearPending(a) \in Auth
  BY DEF ClearPending, Auth
<1>2. QED
  BY <1>1, AuthIs DEF ClearPending, Changes, Fields, PendingFields

\* Two changes after one another change the fields of both.
LEMMA ChangesCompose ==
  ASSUME NEW a, NEW b, NEW d, NEW F, NEW G, Changes(a, b, F), Changes(b, d, G)
  PROVE  Changes(a, d, F \cup G)
BY DEF Changes

\* cancel_callback_locked ends the login and takes a new generation.
LEMMA CancelCallbackChanges ==
  ASSUME NEW a \in Auth
  PROVE  /\ Changes(a, CancelCallback(a), PendingFields \cup
                    {"generation", "stop_requested", "callback_active"})
         /\ CancelCallback(a).generation = a.generation + 1
         /\ CancelCallback(a).device = 0
         /\ ~CancelCallback(a).callback_active
<1> DEFINE b == ClearPending(a)
<1>1. Changes(a, b, PendingFields) /\ b.device = 0
  BY ClearPendingChanges
<1>2. CancelCallback(a) = [b EXCEPT !.generation = @ + 1,
                           !.stop_requested = TRUE, !.callback_active = FALSE]
  BY DEF CancelCallback
<1> HIDE DEF b
<1>3. b \in Auth /\ b.generation = a.generation
  BY <1>1 DEF Changes, Fields, PendingFields
<1>4. DOMAIN b = Fields /\ b.generation + 1 \in Nat
  BY <1>3, AuthIs
<1>5. CancelCallback(a) \in Auth
  BY <1>2, <1>3, <1>4 DEF Auth
<1>6. Changes(b, CancelCallback(a), {"generation", "stop_requested",
                                     "callback_active"})
  BY <1>2, <1>4, <1>5 DEF Changes, Fields
<1>7. CancelCallback(a).device = b.device
  BY <1>6 DEF Changes, Fields
<1>8. /\ CancelCallback(a).generation = b.generation + 1
      /\ ~CancelCallback(a).callback_active
  BY <1>2, <1>4 DEF Fields
<1>9. QED
  BY <1>1, <1>3, <1>6, <1>7, <1>8, ChangesCompose

\* take_callback_thread_locked leaves no thread to join.
LEMMA TakeThreadChanges ==
  ASSUME NEW a \in Auth
  PROVE  /\ Changes(a, TakeThread(a), {"thread_joinable"})
         /\ ~TakeThread(a).thread_joinable
<1>1. TakeThread(a) \in Auth
  BY DEF TakeThread, Auth
<1>2. QED
  BY <1>1, AuthIs DEF TakeThread, Changes, Fields

\* commit_credentials_locked changes the token and its version.
LEMMA CommitChanges ==
  ASSUME NEW a \in Auth, NEW t \in Nat
  PROVE  /\ Changes(a, Commit(a, t), {"token", "token_version"})
         /\ Commit(a, t).token = t
<1>1. Commit(a, t) \in Auth
  BY AuthIs DEF Commit, Auth
<1>2. QED
  BY <1>1, AuthIs DEF Commit, Changes, Fields

\* A login begins under a new generation with nothing pending (openai_oauth_start,
\* openai_oauth_device_start).
LEMMA NewLoginChanges ==
  ASSUME NEW a \in Auth
  PROVE  /\ Changes(a, NewLogin(a), PendingFields \cup {"generation",
                                                        "login_id",
                                                        "stop_requested",
                                                        "callback_active"})
         /\ NewLogin(a).generation = a.generation + 1
         /\ NewLogin(a).device = 0
         /\ NewLogin(a).callback_active
<1> DEFINE b == ClearPending(a)
<1>1. Changes(a, b, PendingFields) /\ b.device = 0
  BY ClearPendingChanges
<1>2. NewLogin(a) = [b EXCEPT !.generation = @ + 1,
                     !.login_id = a.generation + 1, !.stop_requested = FALSE,
                     !.callback_active = TRUE]
  BY DEF NewLogin
<1> HIDE DEF b
<1>3. b \in Auth /\ b.generation = a.generation
  BY <1>1 DEF Changes, Fields, PendingFields
<1>4. DOMAIN b = Fields /\ b.generation + 1 \in Nat /\ a.generation + 1 \in Nat
  BY <1>3, AuthIs
<1>5. NewLogin(a) \in Auth
  BY <1>2, <1>3, <1>4 DEF Auth
<1>6. Changes(b, NewLogin(a), {"generation", "login_id", "stop_requested",
                               "callback_active"})
  BY <1>2, <1>4, <1>5 DEF Changes, Fields
<1>7. NewLogin(a).device = b.device
  BY <1>6 DEF Changes, Fields
<1>8. /\ NewLogin(a).generation = b.generation + 1
      /\ NewLogin(a).callback_active
  BY <1>2, <1>4 DEF Fields
<1>9. QED
  BY <1>1, <1>3, <1>6, <1>7, <1>8, ChangesCompose

\* What attach, logout, cancel and destroy do before the join.
LEMMA TakeCancelChanges ==
  ASSUME NEW a \in Auth
  PROVE  /\ Changes(a, TakeThread(CancelCallback(a)),
                    PendingFields
                    \cup {"generation", "stop_requested", "callback_active",
                          "thread_joinable"})
         /\ TakeThread(CancelCallback(a)).generation = a.generation + 1
         /\ TakeThread(CancelCallback(a)).device = 0
         /\ ~TakeThread(CancelCallback(a)).callback_active
         /\ ~TakeThread(CancelCallback(a)).thread_joinable
<1> DEFINE b == CancelCallback(a)
<1>1. Changes(a, b, PendingFields \cup {"generation", "stop_requested",
                                        "callback_active"})
      /\ b.generation = a.generation + 1 /\ b.device = 0 /\ ~b.callback_active
  BY CancelCallbackChanges
<1> HIDE DEF b
<1>2. /\ Changes(b, TakeThread(b), {"thread_joinable"})
      /\ ~TakeThread(b).thread_joinable
  BY <1>1, TakeThreadChanges DEF Changes
<1>3. /\ TakeThread(b).generation = b.generation
      /\ TakeThread(b).device = b.device
      /\ TakeThread(b).callback_active = b.callback_active
  BY <1>2 DEF Changes, Fields
<1>4. Changes(a, TakeThread(b), PendingFields \cup {"generation",
                                                    "stop_requested",
                                                    "callback_active",
                                                    "thread_joinable"})
  BY <1>1, <1>2, ChangesCompose DEF Changes
<1>5. QED
  BY <1>1, <1>2, <1>3, <1>4 DEF b

\* A login that could not begin (openai_oauth_start).
LEMMA ClearLoginChanges ==
  ASSUME NEW a \in Auth
  PROVE  /\ Changes(a, ClearPending(NewLogin(a)),
                    PendingFields
                    \cup {"generation", "login_id", "stop_requested",
                          "callback_active"})
         /\ ClearPending(NewLogin(a)).generation = a.generation + 1
         /\ ClearPending(NewLogin(a)).device = 0
<1> DEFINE b == NewLogin(a)
<1>1. Changes(a, b, PendingFields \cup {"generation", "login_id",
                                        "stop_requested", "callback_active"})
      /\ b.generation = a.generation + 1
  BY NewLoginChanges
<1> HIDE DEF b
<1>2. Changes(b, ClearPending(b), PendingFields) /\ ClearPending(b).device = 0
  BY <1>1, ClearPendingChanges DEF Changes
<1>3. ClearPending(b).generation = b.generation
  BY <1>2 DEF Changes, Fields, PendingFields
<1>4. Changes(a, ClearPending(b), PendingFields \cup {"generation",
                                                      "login_id",
                                                      "stop_requested",
                                                      "callback_active"})
  BY <1>1, <1>2, ChangesCompose DEF Changes
<1>5. QED
  BY <1>1, <1>2, <1>3, <1>4 DEF b

\* What BeginLifecycle (logout, _attach_session, _cancel_login) does to the
\* struct.
LEMMA BeginLifecycleChanges ==
  ASSUME TypeOK, NEW c \in Callers, NEW o \in {"attach", "logout", "cancel"},
         NEW s \in Attachable, BeginLifecycle(c, o, s)
  PROVE  /\ Changes(auth, auth', PendingFields \cup {"generation",
                                                     "stop_requested",
                                                     "callback_active",
                                                     "thread_joinable",
                                                     "lifecycle_busy"})
         /\ auth'.generation = auth.generation + 1
         /\ auth'.device = 0
         /\ ~auth'.callback_active
         /\ ~auth'.thread_joinable
         /\ auth'.lifecycle_busy
<1> DEFINE b == TakeThread(CancelCallback(auth))
<1>1. auth \in Auth
  BY DEF TypeOK
<1>2. /\ Changes(auth, b, PendingFields \cup {"generation", "stop_requested",
                                              "callback_active",
                                              "thread_joinable"})
      /\ b.generation = auth.generation + 1
      /\ b.device = 0
      /\ ~b.callback_active
      /\ ~b.thread_joinable
  BY <1>1, TakeCancelChanges
<1>3. auth' = [b EXCEPT !.lifecycle_busy = TRUE]
  BY DEF BeginLifecycle
<1> HIDE DEF b
<1>4. b \in Auth /\ DOMAIN b = Fields
  BY <1>2, AuthIs DEF Changes
<1>5. auth' \in Auth
  BY <1>3, <1>4, NoSessionAssumption DEF Auth, Attachable, Results
<1>6. Changes(b, auth', {"lifecycle_busy"})
  BY <1>3, <1>4, <1>5 DEF Changes, Fields
<1>7. Changes(auth, auth', PendingFields \cup {"generation", "stop_requested",
                                               "callback_active",
                                               "thread_joinable",
                                               "lifecycle_busy"})
  BY <1>2, <1>6, ChangesCompose DEF Changes, PendingFields
<1>8. QED
  BY <1>2, <1>3, <1>4, <1>6, <1>7 DEF Changes, Fields, PendingFields

\* What BeginDestroy (destroy) does to the struct.
LEMMA BeginDestroyChanges ==
  ASSUME TypeOK, NEW c \in Callers, BeginDestroy(c)
  PROVE  /\ Changes(auth, auth', PendingFields \cup {"generation",
                                                     "stop_requested",
                                                     "callback_active",
                                                     "thread_joinable",
                                                     "destroying"})
         /\ auth'.generation = auth.generation + 1
         /\ auth'.device = 0
         /\ ~auth'.callback_active
         /\ ~auth'.thread_joinable
         /\ auth'.destroying
<1> DEFINE b == TakeThread(CancelCallback(auth))
<1>1. auth \in Auth
  BY DEF TypeOK
<1>2. /\ Changes(auth, b, PendingFields \cup {"generation", "stop_requested",
                                              "callback_active",
                                              "thread_joinable"})
      /\ b.generation = auth.generation + 1
      /\ b.device = 0
      /\ ~b.callback_active
      /\ ~b.thread_joinable
  BY <1>1, TakeCancelChanges
<1>3. auth' = [b EXCEPT !.destroying = TRUE]
  BY DEF BeginDestroy
<1> HIDE DEF b
<1>4. b \in Auth /\ DOMAIN b = Fields
  BY <1>2, AuthIs DEF Changes
<1>5. auth' \in Auth
  BY <1>3, <1>4, NoSessionAssumption DEF Auth, Attachable, Results
<1>6. Changes(b, auth', {"destroying"})
  BY <1>3, <1>4, <1>5 DEF Changes, Fields
<1>7. Changes(auth, auth', PendingFields \cup {"generation", "stop_requested",
                                               "callback_active",
                                               "thread_joinable",
                                               "destroying"})
  BY <1>2, <1>6, ChangesCompose DEF Changes, PendingFields
<1>8. QED
  BY <1>2, <1>3, <1>4, <1>6, <1>7 DEF Changes, Fields, PendingFields

\* What AttachCloses (attach_session) does to the struct.
LEMMA AttachClosesChanges ==
  ASSUME TypeOK, NEW c \in Callers, AttachCloses(c)
  PROVE  /\ Changes(auth, auth', {"session", "token", "login_id"})
         /\ auth'.session = NoSession
         /\ auth'.token = 0
<1>1. auth \in Auth /\ DOMAIN auth = Fields
  BY AuthIs DEF TypeOK
<1>2. auth' \in Auth
  BY <1>1, NoSessionAssumption DEF AttachCloses, Auth, Attachable, Results
<1>3. QED
  BY <1>1, <1>2 DEF AttachCloses, Changes, Fields, PendingFields

\* What CancelEnds (cancel_login) does to the struct.
LEMMA CancelEndsChanges ==
  ASSUME TypeOK, NEW c \in Callers, CancelEnds(c)
  PROVE  /\ Changes(auth, auth', {"login_id", "stop_requested",
                                  "lifecycle_busy"})
         /\ ~auth'.lifecycle_busy
<1>1. auth \in Auth /\ DOMAIN auth = Fields
  BY AuthIs DEF TypeOK
<1>2. auth' \in Auth
  BY <1>1, NoSessionAssumption DEF CancelEnds, Auth, Attachable, Results
<1>3. QED
  BY <1>1, <1>2 DEF CancelEnds, Changes, Fields, PendingFields

\* What DestroyEnds (destroy) does to the struct.
LEMMA DestroyEndsChanges ==
  ASSUME TypeOK, NEW c \in Callers, DestroyEnds(c)
  PROVE  /\ Changes(auth, auth', PendingFields \cup {"login_id", "token",
                                                     "session"})
         /\ auth'.device = 0
         /\ auth'.session = NoSession
         /\ auth'.token = 0
<1> DEFINE b == ClearPending(auth)
<1>1. auth \in Auth
  BY DEF TypeOK
<1>2. Changes(auth, b, PendingFields) /\ b.device = 0
  BY <1>1, ClearPendingChanges
<1>3. auth' = [b EXCEPT !.login_id = 0, !.token = 0, !.session = NoSession]
  BY DEF DestroyEnds
<1> HIDE DEF b
<1>4. b \in Auth /\ DOMAIN b = Fields
  BY <1>2, AuthIs DEF Changes
<1>5. auth' \in Auth
  BY <1>3, <1>4, NoSessionAssumption DEF Auth, Attachable, Results
<1>6. Changes(b, auth', {"login_id", "token", "session"})
  BY <1>3, <1>4, <1>5 DEF Changes, Fields
<1>7. Changes(auth, auth', PendingFields \cup {"login_id", "token", "session"})
  BY <1>2, <1>6, ChangesCompose DEF Changes, PendingFields
<1>8. QED
  BY <1>2, <1>3, <1>4, <1>6, <1>7 DEF Changes, Fields, PendingFields

\* What Reap (reap_previous_callback) does to the struct.
LEMMA ReapChanges ==
  ASSUME TypeOK, NEW c \in Callers, NEW o \in {"start", "device"}, Reap(c, o)
  PROVE  /\ Changes(auth, auth', {"thread_joinable"})
         /\ ~auth'.thread_joinable
<1>1. auth \in Auth /\ DOMAIN auth = Fields
  BY AuthIs DEF TypeOK
<1>2. auth' \in Auth
  BY <1>1, NoSessionAssumption DEF Reap, TakeThread, Auth, Attachable, Results
<1>3. QED
  BY <1>1, <1>2 DEF Reap, TakeThread, Changes, Fields, PendingFields

\* What StartSpawns (start) does to the struct.
LEMMA StartSpawnsChanges ==
  ASSUME TypeOK, NEW c \in Callers, StartSpawns(c)
  PROVE  /\ Changes(auth, auth', PendingFields \cup {"generation", "login_id",
                                                     "stop_requested",
                                                     "callback_active",
                                                     "callback_ready",
                                                     "callback_ok",
                                                     "callback_thread",
                                                     "thread_joinable"})
         /\ auth'.generation = auth.generation + 1
         /\ auth'.device = 0
         /\ auth'.callback_active /\ auth'.thread_joinable
         /\ auth'.callback_thread = auth.generation + 1
<1> DEFINE b == NewLogin(auth)
<1>1. auth \in Auth
  BY DEF TypeOK
<1>2. /\ Changes(auth, b, PendingFields \cup {"generation", "login_id",
                                              "stop_requested",
                                              "callback_active"})
      /\ b.generation = auth.generation + 1
      /\ b.device = 0
      /\ b.callback_active
  BY <1>1, NewLoginChanges
<1>3. auth' = [b EXCEPT !.state = auth.generation + 1,
               !.callback_ready = FALSE, !.callback_ok = FALSE,
               !.callback_thread = auth.generation + 1,
               !.thread_joinable = TRUE]
  BY DEF StartSpawns
<1> HIDE DEF b
<1>4. b \in Auth /\ DOMAIN b = Fields /\ auth.generation + 1 \in Nat
  BY <1>2, AuthIs DEF Changes
<1>5. auth' \in Auth
  BY <1>3, <1>4, NoSessionAssumption DEF Auth, Attachable, Results
<1>6. Changes(b, auth', {"state", "callback_ready", "callback_ok",
                         "callback_thread", "thread_joinable"})
  BY <1>3, <1>4, <1>5 DEF Changes, Fields
<1>7. Changes(auth, auth', PendingFields \cup {"generation", "login_id",
                                               "stop_requested",
                                               "callback_active",
                                               "callback_ready",
                                               "callback_ok",
                                               "callback_thread",
                                               "thread_joinable"})
  BY <1>2, <1>6, ChangesCompose DEF Changes, PendingFields
<1>8. QED
  BY <1>2, <1>3, <1>4, <1>6, <1>7 DEF Changes, Fields, PendingFields

\* What StartUnspawned (start) does to the struct.
LEMMA StartUnspawnedChanges ==
  ASSUME TypeOK, NEW c \in Callers, StartUnspawned(c)
  PROVE  /\ Changes(auth, auth', PendingFields \cup {"generation", "login_id",
                                                     "stop_requested",
                                                     "callback_active",
                                                     "callback_ready",
                                                     "callback_ok"})
         /\ auth'.generation = auth.generation + 1
         /\ auth'.device = 0
         /\ ~auth'.callback_active
<1> DEFINE b == ClearPending(NewLogin(auth))
<1>1. auth \in Auth
  BY DEF TypeOK
<1>2. /\ Changes(auth, b, PendingFields \cup {"generation", "login_id",
                                              "stop_requested",
                                              "callback_active"})
      /\ b.generation = auth.generation + 1
      /\ b.device = 0
  BY <1>1, ClearLoginChanges
<1>3. auth' = [b EXCEPT !.callback_ready = FALSE, !.callback_ok = FALSE,
               !.callback_active = FALSE, !.login_id = 0]
  BY DEF StartUnspawned
<1> HIDE DEF b
<1>4. b \in Auth /\ DOMAIN b = Fields
  BY <1>2, AuthIs DEF Changes
<1>5. auth' \in Auth
  BY <1>3, <1>4, NoSessionAssumption DEF Auth, Attachable, Results
<1>6. Changes(b, auth', {"callback_ready", "callback_ok", "callback_active",
                         "login_id"})
  BY <1>3, <1>4, <1>5 DEF Changes, Fields
<1>7. Changes(auth, auth', PendingFields \cup {"generation", "login_id",
                                               "stop_requested",
                                               "callback_active",
                                               "callback_ready",
                                               "callback_ok"})
  BY <1>2, <1>6, ChangesCompose DEF Changes, PendingFields
<1>8. QED
  BY <1>2, <1>3, <1>4, <1>6, <1>7 DEF Changes, Fields, PendingFields

\* What StartReady (start) does to the struct.
LEMMA StartReadyChanges ==
  ASSUME TypeOK, NEW c \in Callers, StartReady(c)
  PROVE  /\ Changes(auth, auth', {"thread_joinable", "stop_requested"})
         /\ auth' = auth \/ ~auth'.thread_joinable
<1>1. auth \in Auth
  BY DEF TypeOK
<1>2. CASE auth' = auth
  BY <1>1, <1>2 DEF Changes, StartReady
<1>3. CASE auth' = [TakeThread(auth) EXCEPT !.stop_requested = TRUE]
  <2> DEFINE b == TakeThread(auth)
  <2>1. Changes(auth, b, {"thread_joinable"}) /\ ~b.thread_joinable
    BY <1>1, TakeThreadChanges
  <2>2. auth' = [b EXCEPT !.stop_requested = TRUE]
    BY <1>3
  <2> HIDE DEF b
  <2>3. b \in Auth /\ DOMAIN b = Fields
    BY <2>1, AuthIs DEF Changes
  <2>4. auth' \in Auth
    BY <2>2, <2>3 DEF Auth
  <2>5. Changes(b, auth', {"stop_requested"})
    BY <2>2, <2>3, <2>4 DEF Changes, Fields
  <2>6. Changes(auth, auth', {"thread_joinable", "stop_requested"})
    BY <2>1, <2>5, ChangesCompose DEF Changes
  <2>7. QED
    BY <1>3, <2>1, <2>2, <2>3, <2>5, <2>6 DEF Changes, Fields
<1>4. QED
  BY <1>2, <1>3 DEF StartReady

\* What StartFails (start) does to the struct.
LEMMA StartFailsChanges ==
  ASSUME TypeOK, NEW c \in Callers, StartFails(c)
  PROVE  /\ Changes(auth, auth', PendingFields \cup {"login_id",
                                                     "stop_requested"})
         /\ auth'.device = 0
<1> DEFINE b == ClearPending(auth)
<1>1. auth \in Auth
  BY DEF TypeOK
<1>2. Changes(auth, b, PendingFields) /\ b.device = 0
  BY <1>1, ClearPendingChanges
<1>3. auth' = [b EXCEPT !.login_id = 0, !.stop_requested = FALSE]
  BY DEF StartFails
<1> HIDE DEF b
<1>4. b \in Auth /\ DOMAIN b = Fields
  BY <1>2, AuthIs DEF Changes
<1>5. auth' \in Auth
  BY <1>3, <1>4, NoSessionAssumption DEF Auth, Attachable, Results
<1>6. Changes(b, auth', {"login_id", "stop_requested"})
  BY <1>3, <1>4, <1>5 DEF Changes, Fields
<1>7. Changes(auth, auth', PendingFields \cup {"login_id", "stop_requested"})
  BY <1>2, <1>6, ChangesCompose DEF Changes, PendingFields
<1>8. QED
  BY <1>2, <1>3, <1>4, <1>6, <1>7 DEF Changes, Fields, PendingFields

\* What DeviceAsks (device_start) does to the struct.
LEMMA DeviceAsksChanges ==
  ASSUME TypeOK, NEW c \in Callers, DeviceAsks(c)
  PROVE  /\ Changes(auth, auth', PendingFields \cup {"generation", "login_id",
                                                     "stop_requested",
                                                     "callback_active",
                                                     "active_operations"})
         /\ auth'.generation = auth.generation + 1
         /\ auth'.device = 0
         /\ auth'.active_operations = auth.active_operations + 1
<1> DEFINE b == NewLogin(auth)
<1>1. auth \in Auth
  BY DEF TypeOK
<1>2. /\ Changes(auth, b, PendingFields \cup {"generation", "login_id",
                                              "stop_requested",
                                              "callback_active"})
      /\ b.generation = auth.generation + 1
      /\ b.device = 0
      /\ b.callback_active
  BY <1>1, NewLoginChanges
<1>3. auth' = [b EXCEPT !.active_operations = @ + 1]
  BY DEF DeviceAsks
<1> HIDE DEF b
<1>4. b \in Auth /\ DOMAIN b = Fields /\ b.active_operations + 1 \in Nat
  BY <1>2, AuthIs DEF Changes
<1>5. auth' \in Auth
  BY <1>3, <1>4, NoSessionAssumption DEF Auth, Attachable, Results
<1>6. Changes(b, auth', {"active_operations"})
  BY <1>3, <1>4, <1>5 DEF Changes, Fields
<1>7. Changes(auth, auth', PendingFields \cup {"generation", "login_id",
                                               "stop_requested",
                                               "callback_active",
                                               "active_operations"})
  BY <1>2, <1>6, ChangesCompose DEF Changes, PendingFields
<1>8. QED
  BY <1>2, <1>3, <1>4, <1>6, <1>7 DEF Changes, Fields, PendingFields

\* What DeviceRefused (device_start_failed) does to the struct.
LEMMA DeviceRefusedChanges ==
  ASSUME TypeOK, NEW c \in Callers, DeviceRefused(c)
  PROVE  /\ Changes(auth, auth', PendingFields \cup {"login_id",
                                                     "callback_active"})
         /\ auth' = auth \/ (auth.generation = note[c] /\ auth'.device = 0)
<1>1. auth \in Auth
  BY DEF TypeOK
<1>2. CASE auth' = auth
  BY <1>1, <1>2 DEF Changes, DeviceRefused
<1>3. CASE auth.generation = note[c]
           /\ auth' = [ClearPending(auth) EXCEPT !.login_id = 0,
                       !.callback_active = FALSE]
  <2> DEFINE b == ClearPending(auth)
  <2>1. Changes(auth, b, PendingFields) /\ b.device = 0
    BY <1>1, ClearPendingChanges
  <2>2. auth' = [b EXCEPT !.login_id = 0, !.callback_active = FALSE]
    BY <1>3
  <2> HIDE DEF b
  <2>3. b \in Auth /\ DOMAIN b = Fields
    BY <2>1, AuthIs DEF Changes
  <2>4. auth' \in Auth
    BY <2>2, <2>3 DEF Auth
  <2>5. Changes(b, auth', {"login_id", "callback_active"})
    BY <2>2, <2>3, <2>4 DEF Changes, Fields
  <2>6. Changes(auth, auth', PendingFields \cup {"login_id",
                                                 "callback_active"})
    BY <2>1, <2>5, ChangesCompose DEF Changes
  <2>7. QED
    BY <1>3, <2>1, <2>2, <2>3, <2>5, <2>6 DEF Changes, Fields
<1>4. QED
  BY <1>2, <1>3 DEF DeviceRefused

\* What OperationFinishes (active_operation_finish) does to the struct.
LEMMA OperationFinishesChanges ==
  ASSUME TypeOK, NEW c \in Callers, OperationFinishes(c)
  PROVE  /\ Changes(auth, auth', {"active_operations"})
         /\ auth.active_operations > 0 =>
                auth'.active_operations = auth.active_operations - 1
<1>1. auth \in Auth /\ DOMAIN auth = Fields /\ auth.active_operations \in Nat
      /\ (auth.active_operations > 0 => auth.active_operations - 1 \in Nat)
  BY AuthIs DEF TypeOK
<1>2. auth' \in Auth
  BY <1>1, NoSessionAssumption DEF OperationFinishes, Auth, Attachable, Results
<1>3. QED
  BY <1>1, <1>2 DEF OperationFinishes, Changes, Fields, PendingFields

\* What PollBegins (device_poll) does to the struct.
LEMMA PollBeginsChanges ==
  ASSUME TypeOK, NEW c \in Callers, PollBegins(c)
  PROVE  /\ Changes(auth, auth', {"device_poll_in_progress",
                                  "active_operations"})
         /\ auth'.active_operations = auth.active_operations + 1
<1>1. /\ auth \in Auth
      /\ DOMAIN auth = Fields
      /\ auth.active_operations + 1 \in Nat
  BY AuthIs DEF TypeOK
<1>2. auth' \in Auth
  BY <1>1, NoSessionAssumption DEF PollBegins, Auth, Attachable, Results
<1>3. QED
  BY <1>1, <1>2 DEF PollBegins, Changes, Fields, PendingFields

\* What PollCloses (device_poll_finished) does to the struct.
LEMMA PollClosesChanges ==
  ASSUME TypeOK, NEW c \in Callers, PollCloses(c)
  PROVE  /\ Changes(auth, auth', PendingFields \cup {"callback_active"})
         /\ auth' = auth \/ (auth.generation = note[c] /\ auth'.device = 0)
<1>1. auth \in Auth
  BY DEF TypeOK
<1>2. CASE auth' = auth
  BY <1>1, <1>2 DEF Changes, PollCloses
<1>3. CASE auth.generation = note[c]
           /\ auth' = [ClearPending(auth) EXCEPT !.callback_active = FALSE]
  <2> DEFINE b == ClearPending(auth)
  <2>1. Changes(auth, b, PendingFields) /\ b.device = 0
    BY <1>1, ClearPendingChanges
  <2>2. auth' = [b EXCEPT !.callback_active = FALSE]
    BY <1>3
  <2> HIDE DEF b
  <2>3. b \in Auth /\ DOMAIN b = Fields
    BY <2>1, AuthIs DEF Changes
  <2>4. auth' \in Auth
    BY <2>2, <2>3 DEF Auth
  <2>5. Changes(b, auth', {"callback_active"})
    BY <2>2, <2>3, <2>4 DEF Changes, Fields
  <2>6. Changes(auth, auth', PendingFields \cup {"callback_active"})
    BY <2>1, <2>5, ChangesCompose DEF Changes
  <2>7. QED
    BY <1>3, <2>1, <2>2, <2>3, <2>5, <2>6 DEF Changes, Fields
<1>4. QED
  BY <1>2, <1>3 DEF PollCloses

\* What PollReleases (device_poll_released) does to the struct.
LEMMA PollReleasesChanges ==
  ASSUME TypeOK, NEW c \in Callers, PollReleases(c)
  PROVE  /\ Changes(auth, auth', {"device_poll_in_progress",
                                  "active_operations"})
         /\ auth.active_operations > 0 =>
                auth'.active_operations = auth.active_operations - 1
<1>1. auth \in Auth /\ DOMAIN auth = Fields /\ auth.active_operations \in Nat
      /\ (auth.active_operations > 0 => auth.active_operations - 1 \in Nat)
      /\ auth.device_poll_in_progress \in BOOLEAN
  BY AuthIs DEF TypeOK
<1>2. auth' \in Auth
  BY <1>1, NoSessionAssumption DEF PollReleases, Auth, Attachable, Results
<1>3. QED
  BY <1>1, <1>2 DEF PollReleases, Changes, Fields, PendingFields

\* What ThreadAccepts (process_callback) does to the struct.
LEMMA ThreadAcceptsChanges ==
  ASSUME TypeOK, NEW g \in DOMAIN threads, ThreadAccepts(g)
  PROVE  /\ Changes(auth, auth', PendingFields)
         /\ auth'.device = 0
BY ClearPendingChanges DEF TypeOK, ThreadAccepts

\* What ThreadFinishes (callback_finish) does to the struct.
LEMMA ThreadFinishesChanges ==
  ASSUME TypeOK, NEW g \in DOMAIN threads, ThreadFinishes(g)
  PROVE  /\ Changes(auth, auth', PendingFields \cup {"callback_active"})
         /\ auth' = auth \/ (auth.generation = g /\ auth'.device = 0)
<1>1. auth \in Auth
  BY DEF TypeOK
<1>2. CASE auth' = auth
  BY <1>1, <1>2 DEF Changes, ThreadFinishes
<1>3. CASE auth.generation = g
           /\ auth' = [ClearPending(auth) EXCEPT !.callback_active = FALSE]
  <2> DEFINE b == ClearPending(auth)
  <2>1. Changes(auth, b, PendingFields) /\ b.device = 0
    BY <1>1, ClearPendingChanges
  <2>2. auth' = [b EXCEPT !.callback_active = FALSE]
    BY <1>3
  <2> HIDE DEF b
  <2>3. b \in Auth /\ DOMAIN b = Fields
    BY <2>1, AuthIs DEF Changes
  <2>4. auth' \in Auth
    BY <2>2, <2>3 DEF Auth
  <2>5. Changes(b, auth', {"callback_active"})
    BY <2>2, <2>3, <2>4 DEF Changes, Fields
  <2>6. Changes(auth, auth', PendingFields \cup {"callback_active"})
    BY <2>1, <2>5, ChangesCompose DEF Changes
  <2>7. QED
    BY <1>3, <2>1, <2>2, <2>3, <2>5, <2>6 DEF Changes, Fields
<1>4. QED
  BY <1>2, <1>3 DEF ThreadFinishes

\* What RefreshBegins (refresh_credentials) does to the struct.
LEMMA RefreshBeginsChanges ==
  ASSUME TypeOK, NEW c \in Callers, RefreshBegins(c)
  PROVE  /\ Changes(auth, auth', {"refresh_in_progress"})
         /\ auth'.refresh_in_progress
<1>1. auth \in Auth /\ DOMAIN auth = Fields
  BY AuthIs DEF TypeOK
<1>2. auth' \in Auth
  BY <1>1, NoSessionAssumption DEF RefreshBegins, Auth, Attachable, Results
<1>3. QED
  BY <1>1, <1>2 DEF RefreshBegins, Changes, Fields, PendingFields

\* What DeviceAnswered (device_start) does to the struct.
LEMMA DeviceAnsweredChanges ==
  ASSUME TypeOK, NEW c \in Callers, DeviceAnswered(c)
  PROVE  /\ Changes(auth, auth', {"device"})
         /\ \/ auth'.device = auth.device
            \/ auth'.device = note[c] /\ note[c] = auth.generation
<1>1. auth \in Auth /\ DOMAIN auth = Fields /\ note[c] \in Nat
  BY AuthIs DEF TypeOK
<1>2. CASE auth' = auth
  BY <1>1, <1>2 DEF Changes
<1>3. CASE note[c] = auth.generation
           /\ auth' = [auth EXCEPT !.device = note[c]]
  <2>1. auth' \in Auth
    BY <1>1, <1>3 DEF Auth
  <2>2. QED
    BY <1>1, <1>3, <2>1 DEF Changes, Fields
<1>4. QED
  BY <1>2, <1>3 DEF DeviceAnswered

\* What ThreadBinds (callback_publish_failure, callback_publish_listener) does
\* to the struct.
LEMMA ThreadBindsChanges ==
  ASSUME TypeOK, NEW g \in DOMAIN threads, ThreadBinds(g)
  PROVE  Changes(auth, auth', {"callback_ready", "callback_ok"})
<1>1. auth \in Auth /\ DOMAIN auth = Fields
  BY AuthIs DEF TypeOK
<1>2. CASE auth' = auth
  BY <1>1, <1>2 DEF Changes
<1>3. ASSUME NEW ok \in BOOLEAN,
             auth' = [auth EXCEPT !.callback_ready = TRUE, !.callback_ok = ok]
      PROVE  Changes(auth, auth', {"callback_ready", "callback_ok"})
  <2>1. auth' \in Auth
    BY <1>1, <1>3 DEF Auth
  <2>2. QED
    BY <1>1, <1>3, <2>1 DEF Changes, Fields
<1>4. QED
  BY <1>2, <1>3 DEF ThreadBinds

\* The end of refresh_credentials gives refresh_in_progress back.
LEMMA RefreshOverChanges ==
  ASSUME NEW c \in Callers, NEW r \in Results, NEW a \in Auth,
     RefreshOver(c, r, a)
  PROVE  /\ Changes(a, auth', {"last_refresh_result", "refresh_in_progress"})
         /\ ~auth'.refresh_in_progress
<1>1. auth' = [a EXCEPT !.last_refresh_result = r,
               !.refresh_in_progress = FALSE]
  BY DEF RefreshOver
<1>2. DOMAIN a = Fields
  BY AuthIs
<1>3. auth' \in Auth
  BY <1>1 DEF Auth
<1>4. QED
  BY <1>1, <1>2, <1>3 DEF Changes, Fields

\* What RefreshLost (refresh_credentials) does to the struct.
LEMMA RefreshLostChanges ==
  ASSUME TypeOK, NEW c \in Callers, RefreshLost(c)
  PROVE  /\ Changes(auth, auth', {"last_refresh_result",
                                  "refresh_in_progress"})
         /\ ~auth'.refresh_in_progress
<1>1. \/ RefreshOver(c, "cancelled", auth)
      \/ RefreshOver(c, "transient", auth)
  BY DEF RefreshLost
<1>2. QED
  BY <1>1, RefreshOverChanges DEF TypeOK, Results

\* What RefreshGranted (refresh_credentials) does to the struct.
LEMMA RefreshGrantedChanges ==
  ASSUME TypeOK, NEW c \in Callers, RefreshGranted(c)
  PROVE  /\ Changes(auth, auth', {"token", "token_version",
                                  "last_refresh_result",
                                  "refresh_in_progress"})
         /\ ~auth'.refresh_in_progress
         /\ \/ UNCHANGED <<vault, issued>> /\ auth'.token = auth.token
            \/ /\ auth.session # NoSession /\ auth'.token = issued + 1
               /\ issued' = issued + 1
               /\ vault' = [vault EXCEPT ![auth.session] = issued + 1]
<1>1. auth \in Auth /\ issued + 1 \in Nat
  BY DEF TypeOK
<1>2. CASE RefreshOver(c, "transient", auth) /\ UNCHANGED <<vault, issued>>
  BY <1>1, <1>2, RefreshOverChanges DEF Changes, Fields, Results
<1>3. CASE /\ auth.session # NoSession
           /\ issued' = issued + 1
           /\ vault' = [vault EXCEPT ![auth.session] = issued + 1]
           /\ RefreshOver(c, "ok", Commit(auth, issued + 1))
  <2> DEFINE b == Commit(auth, issued + 1)
  <2>1. Changes(auth, b, {"token", "token_version"}) /\ b.token = issued + 1
    BY <1>1, CommitChanges
  <2>2. RefreshOver(c, "ok", b)
    BY <1>3
  <2> HIDE DEF b
  <2>3. /\ Changes(b, auth', {"last_refresh_result", "refresh_in_progress"})
        /\ ~auth'.refresh_in_progress
    BY <2>1, <2>2, RefreshOverChanges DEF Changes, Results
  <2>4. auth'.token = b.token
    BY <2>3 DEF Changes, Fields
  <2>5. QED
    BY <1>3, <2>1, <2>3, <2>4 DEF Changes
<1>4. QED
  BY <1>2, <1>3 DEF RefreshGranted

\* What RefreshRejected (refresh_credentials) does to the struct.
LEMMA RefreshRejectedChanges ==
  ASSUME TypeOK, NEW c \in Callers, RefreshRejected(c)
  PROVE  /\ Changes(auth, auth', {"token", "last_refresh_result",
                                  "refresh_in_progress"})
         /\ ~auth'.refresh_in_progress
         /\ \/ UNCHANGED vault /\ auth'.token = auth.token
            \/ /\ auth'.token = 0
               /\ vault' = [s \in Sessions |-> IF s = auth.session THEN 0 ELSE vault[s]]
<1>1. auth \in Auth /\ DOMAIN auth = Fields
  BY AuthIs DEF TypeOK
<1>2. CASE RefreshOver(c, "transient", auth) /\ UNCHANGED vault
  BY <1>1, <1>2, RefreshOverChanges DEF Changes, Fields, Results
<1>3. CASE /\ vault' = [s \in Sessions |-> IF s = auth.session THEN 0 ELSE vault[s]]
           /\ RefreshOver(c, "permanent", [auth EXCEPT !.token = 0])
  <2> DEFINE b == [auth EXCEPT !.token = 0]
  <2>1. b \in Auth
    BY <1>1 DEF Auth
  <2>2. Changes(auth, b, {"token"}) /\ b.token = 0
    BY <1>1, <2>1 DEF Changes, Fields
  <2>3. RefreshOver(c, "permanent", b)
    BY <1>3
  <2> HIDE DEF b
  <2>4. /\ Changes(b, auth', {"last_refresh_result", "refresh_in_progress"})
        /\ ~auth'.refresh_in_progress
    BY <2>1, <2>3, RefreshOverChanges DEF Results
  <2>5. auth'.token = b.token
    BY <2>4 DEF Changes, Fields
  <2>6. QED
    BY <1>3, <2>2, <2>4, <2>5 DEF Changes
<1>4. QED
  BY <1>2, <1>3 DEF RefreshRejected

\* complete_callback_tokens commits a token and nothing else.
LEMMA CompletesChanges ==
  ASSUME TypeOK, NEW g, Completes(g)
  PROVE  /\ Changes(auth, auth', {"token", "token_version"})
         /\ auth'.token = issued + 1
BY CommitChanges DEF TypeOK, Completes

\* What AttachLoads (attach_session) does to the struct.
LEMMA AttachLoadsChanges ==
  ASSUME TypeOK, NEW c \in Callers, AttachLoads(c)
  PROVE  /\ Changes(auth, auth', {"session", "stop_requested", "token",
                                  "token_version", "lifecycle_busy"})
         /\ ~auth'.lifecycle_busy
         /\ \/ auth'.session = auth.session /\ auth'.token = auth.token
            \/ /\ auth'.session = asked[c].with
               /\ \/ auth'.token = auth.token
                  \/ /\ auth'.session \in Sessions
                     /\ auth'.token = vault[auth'.session]
<1>1. auth \in Auth /\ DOMAIN auth = Fields /\ asked[c].with \in Attachable
  BY AuthIs DEF TypeOK
<1>2. PICK t \in {0} \cup {vault[s] : s \in Sessions \cap {asked[c].with}} :
        LET opened == [auth EXCEPT !.session = asked[c].with,
                       !.stop_requested = FALSE]
            loaded == IF t = 0 THEN opened ELSE Commit(opened, t)
        IN  auth' = [IF auth.destroying THEN auth ELSE loaded
                          EXCEPT !.lifecycle_busy = FALSE]
  BY DEF AttachLoads
<1> DEFINE b == [auth EXCEPT !.session = asked[c].with,
                 !.stop_requested = FALSE]
<1>3. t \in Nat
      /\ (t # 0 => asked[c].with \in Sessions /\ t = vault[asked[c].with])
  BY <1>2 DEF TypeOK
<1>4. b \in Auth
  BY <1>1 DEF Auth
<1>5. /\ Changes(auth, b, {"session", "stop_requested"})
      /\ b.session = asked[c].with /\ b.token = auth.token
  BY <1>1, <1>4 DEF Changes, Fields
<1>6. auth' = [IF auth.destroying THEN auth ELSE IF t = 0 THEN b ELSE Commit(b, t)
              EXCEPT !.lifecycle_busy = FALSE]
  BY <1>2
<1> HIDE DEF b
<1>7. ASSUME NEW d \in Auth, auth' = [d EXCEPT !.lifecycle_busy = FALSE]
      PROVE  /\ Changes(d, auth', {"lifecycle_busy"})
             /\ ~auth'.lifecycle_busy
             /\ auth'.session = d.session /\ auth'.token = d.token
  <2>1. DOMAIN d = Fields
    BY AuthIs
  <2>2. auth' \in Auth
    BY <1>7 DEF Auth
  <2>3. QED
    BY <1>7, <2>1, <2>2 DEF Changes, Fields
<1>8. CASE auth.destroying
  BY <1>1, <1>6, <1>7, <1>8 DEF Changes
<1>9. CASE ~auth.destroying /\ t = 0
  BY <1>4, <1>5, <1>6, <1>7, <1>9 DEF Changes
<1>10. CASE ~auth.destroying /\ t # 0
  <2> DEFINE d == Commit(b, t)
  <2>1. /\ Changes(b, d, {"token", "token_version"}) /\ d.token = t
    BY <1>3, <1>4, CommitChanges
  <2>2. auth' = [d EXCEPT !.lifecycle_busy = FALSE]
    BY <1>6, <1>10
  <2> HIDE DEF d
  <2>3. d.session = asked[c].with
    BY <1>5, <2>1 DEF Changes, Fields
  <2>4. d \in Auth
    BY <2>1 DEF Changes
  <2>5. /\ Changes(d, auth', {"lifecycle_busy"})
        /\ ~auth'.lifecycle_busy
        /\ auth'.session = asked[c].with /\ auth'.token = t
    BY <1>7, <2>1, <2>2, <2>3, <2>4
  <2>6. QED
    BY <1>3, <1>5, <1>10, <2>1, <2>5 DEF Changes
<1>11. QED
  BY <1>8, <1>9, <1>10

\* What LogoutEnds (logout) does to the struct.
LEMMA LogoutEndsChanges ==
  ASSUME TypeOK, NEW c \in Callers, LogoutEnds(c)
  PROVE  /\ Changes(auth, auth', PendingFields \cup {"token", "login_id",
                                                     "stop_requested",
                                                     "last_refresh_result",
                                                     "lifecycle_busy"})
         /\ auth'.device = 0
         /\ ~auth'.lifecycle_busy
         /\ \/ auth'.token = auth.token /\ UNCHANGED vault
            \/ /\ auth.session # NoSession /\ auth'.token = 0
               /\ vault' = [s \in Sessions |-> IF s = auth.session THEN 0 ELSE vault[s]]
<1> DEFINE b == ClearPending(auth)
<1>1. PICK deleted \in BOOLEAN :
        LET gone == deleted /\ auth.session # NoSession IN
        /\ auth' = [b EXCEPT !.token = IF gone THEN 0 ELSE @, !.login_id = 0,
                    !.stop_requested = FALSE,
                    !.last_refresh_result = "signed_out",
                    !.lifecycle_busy = FALSE]
        /\ vault' = [s \in Sessions |-> IF gone /\ s = auth.session THEN 0 ELSE vault[s]]
  BY DEF LogoutEnds
<1>2. auth \in Auth /\ vault \in [Sessions -> Nat]
  BY DEF TypeOK
<1>3. Changes(auth, b, PendingFields) /\ b.device = 0
  BY <1>2, ClearPendingChanges
<1> DEFINE gone == deleted /\ auth.session # NoSession
           t == IF gone THEN 0 ELSE b.token
<1>4. auth' = [b EXCEPT !.token = t, !.login_id = 0, !.stop_requested = FALSE,
               !.last_refresh_result = "signed_out", !.lifecycle_busy = FALSE]
  BY <1>1
<1> HIDE DEF b
<1>5. b \in Auth /\ DOMAIN b = Fields /\ t \in Nat /\ b.token = auth.token
  BY <1>3, AuthIs DEF Changes, Fields, PendingFields
<1>6. /\ gone => /\ t = 0 /\ auth.session # NoSession
                 /\ vault' = [s \in Sessions |-> IF s = auth.session THEN 0 ELSE vault[s]]
      /\ ~gone => t = auth.token /\ vault' = vault
  BY <1>1, <1>2, <1>5
<1> HIDE DEF t, gone
<1>7. auth' \in Auth
  BY <1>4, <1>5 DEF Auth, Results
<1>8. /\ Changes(b, auth', {"token", "login_id", "stop_requested",
                            "last_refresh_result", "lifecycle_busy"})
      /\ auth'.device = b.device /\ ~auth'.lifecycle_busy /\ auth'.token = t
  BY <1>4, <1>5, <1>7 DEF Changes, Fields
<1>9. QED
  BY <1>3, <1>6, <1>8 DEF Changes

\* What PollKeeps (device_poll) does to the struct.
LEMMA PollKeepsChanges ==
  ASSUME TypeOK, NEW c \in Callers, PollKeeps(c)
  PROVE  /\ Changes(auth, auth', {"token", "token_version"})
         /\ \/ UNCHANGED <<auth, vault, issued>>
            \/ Completes(note[c]) /\ auth'.token = issued + 1
<1>1. CASE UNCHANGED <<auth, vault, issued>>
  BY <1>1 DEF Changes, TypeOK
<1>2. CASE Completes(note[c])
  BY <1>2, CompletesChanges
<1>3. QED
  BY <1>1, <1>2 DEF PollKeeps

\* What ThreadKeeps (process_callback) does to the struct.
LEMMA ThreadKeepsChanges ==
  ASSUME TypeOK, NEW g \in DOMAIN threads, ThreadKeeps(g)
  PROVE  /\ Changes(auth, auth', {"token", "token_version"})
         /\ \/ UNCHANGED <<auth, vault, issued>>
            \/ Completes(g) /\ auth'.token = issued + 1
<1>1. CASE UNCHANGED <<auth, vault, issued>>
  BY <1>1 DEF Changes, TypeOK
<1>2. CASE Completes(g)
  BY <1>2, CompletesChanges
<1>3. QED
  BY <1>1, <1>2 DEF ThreadKeeps

-----------------------------------------------------------------------------
(* The inductive invariant                                                 *)

\* No generation in use is newer than the manager's; threads are numbered by
\* theirs, and callback_thread is the newest of them.
GenerationsOld ==
  /\ auth.callback_thread <= auth.generation
  /\ \A g \in DOMAIN threads : g <= auth.callback_thread
  /\ \A c \in Callers : at[c] \in Working => note[c] <= auth.generation

\* Whoever was superseded holds an older generation than the manager.
LateIsOld ==
  /\ \A c \in superseded.calls : at[c] \in Working => note[c] < auth.generation
  /\ \A g \in superseded.threads \cap DOMAIN threads : g < auth.generation

\* attach, logout and cancel exclude one another; while the new session is read,
\* none is attached and no token is held.
InLifecycle(c) == at[c] \in Lifecycle /\ asked[c].op # "destroy"

OneLifecycle ==
  /\ \A c \in Callers : InLifecycle(c) => auth.lifecycle_busy
  /\ \A c, d \in Callers : InLifecycle(c) /\ InLifecycle(d) => c = d
  /\ \A c \in Callers : at[c] = "load" =>
       auth.session = NoSession /\ auth.token = 0 /\ asked[c].op = "attach"

\* destroy is called once, and nobody enters an uncounted stage after it.
Destroyer(c) ==
  at[c] = "freed" \/ (at[c] \in Lifecycle /\ asked[c].op = "destroy")

OneDestroyer ==
  /\ \A c \in Callers : Destroyer(c) => auth.destroying
  /\ \A c, d \in Callers : Destroyer(c) /\ Destroyer(d) => c = d
  /\ auth.destroying => /\ ~auth.thread_joinable
                        /\ \A c \in Callers : at[c] \notin Uncounted

\* The generation of a device login is no thread's.
DeviceApart ==
  /\ \A c \in Callers : at[c] \in Counted \cup {"expired"} =>
       note[c] \notin DOMAIN threads
  /\ auth.device # 0 => auth.device = auth.generation
                        /\ auth.device \notin DOMAIN threads

\* A live thread is the joinable one of the active login, or somebody joins it.
ThreadsHeld ==
  \A g \in DOMAIN threads :
    \/ /\ auth.thread_joinable /\ auth.callback_active
       /\ auth.callback_thread = g /\ auth.generation = g
    \/ \E c \in Callers : at[c] \in {"join", "unready"} /\ note[c] = g

\* The inductive invariant.  The counters alone are not inductive: that destroy finds
\* no thread rests on ThreadsHeld, that a late answer is refused on the generations.
IInv ==
  /\ TypeOK /\ CountsAgree /\ GenerationsOld /\ LateIsOld /\ OneLifecycle
  /\ OneDestroyer /\ DeviceApart /\ ThreadsHeld /\ FreedLast
-----------------------------------------------------------------------------
(* Counting, and the types of what a step writes                           *)

\* When one caller moves, the callers active_operations counts (openai_oauth.c and
\* oauth_device.c) are as many, one more or one fewer.
LEMMA CountedMoves ==
  ASSUME NEW c \in Callers, NEW p, at \in [Callers -> Places],
         at' = [at EXCEPT ![c] = p]
  PROVE  LET S == {d \in Callers : at[d] \in Counted}
             T == {d \in Callers : at'[d] \in Counted}
         IN  /\ (at[c] \in Counted <=> p \in Counted) =>
                   Cardinality(T) = Cardinality(S)
             /\ at[c] \notin Counted /\ p \in Counted =>
                   Cardinality(T) = Cardinality(S) + 1
             /\ at[c] \in Counted /\ p \notin Counted =>
                   Cardinality(S) > 0 /\ Cardinality(T) = Cardinality(S) - 1
             /\ Cardinality(S) \in Nat
<1> DEFINE S == {d \in Callers : at[d] \in Counted}
           T == {d \in Callers : at'[d] \in Counted}
<1>1. IsFiniteSet(S) /\ IsFiniteSet(T)
  BY CallersAssumption, FS_Subset
<1>2. Cardinality(S) \in Nat /\ Cardinality(T) \in Nat
  BY <1>1, FS_CardinalityType
<1>3. (at[c] \in Counted <=> p \in Counted) => T = S
  OBVIOUS
<1>4. at[c] \notin Counted /\ p \in Counted => c \notin S /\ T = S \cup {c}
  OBVIOUS
<1>5. at[c] \in Counted /\ p \notin Counted => c \notin T /\ S = T \cup {c}
  OBVIOUS
<1>6. ASSUME c \notin S, T = S \cup {c}
      PROVE Cardinality(T) = Cardinality(S) + 1
  BY <1>1, <1>6, FS_AddElement
<1>7. ASSUME c \notin T, S = T \cup {c}
      PROVE Cardinality(S) = Cardinality(T) + 1
  BY <1>1, <1>7, FS_AddElement
<1> HIDE DEF S, T
<1>8. QED
  BY <1>2, <1>3, <1>4, <1>5, <1>6, <1>7 DEF S, T

\* A call is one of the public functions with a session it may be given.
LEMMA CallsTyped ==
  ASSUME TypeOK, NEW c \in Callers, NEW o \in Ops, NEW s \in Attachable,
         Calls(c, o, s)
  PROVE  /\ asked' \in [Callers -> [op : Ops, with : Attachable]]
         /\ calls' \in 0..MaxCalls
         /\ asked' = [asked EXCEPT ![c] = [op |-> o, with |-> s]]
<1>1. asked \in [Callers -> [op : Ops, with : Attachable]]
  BY DEF TypeOK
<1>2. [op |-> o, with |-> s] \in [op : Ops, with : Attachable]
  OBVIOUS
<1>3. asked' = [asked EXCEPT ![c] = [op |-> o, with |-> s]]
  BY DEF Calls
<1>4. calls' \in 0..MaxCalls
  BY MaxCallsAssumption DEF TypeOK, Calls
<1>5. QED
  BY <1>1, <1>2, <1>3, <1>4

\* A call answers with a result of the API and a token or none.
LEMMA AnswersTyped ==
  ASSUME TypeOK, NEW c \in Callers, NEW r \in Results, NEW t \in Nat,
         Answers(c, r, t)
  PROVE  returned' \in [Callers -> [result : Results, token : Nat]]
<1>1. returned \in [Callers -> [result : Results, token : Nat]]
  BY DEF TypeOK
<1>2. [result |-> r, token |-> t] \in [result : Results, token : Nat]
  OBVIOUS
<1>3. QED
  BY <1>1, <1>2 DEF Answers

\* What is superseded when a new lifecycle call or login begins (openai_oauth.c).
LEMMA AtWorkTyped ==
  ASSUME TypeOK
  PROVE  /\ AtWork \in [calls : SUBSET Callers, threads : SUBSET Nat]
         /\ AtWork.calls = {c \in Callers : at[c] \in Working}
         /\ AtWork.threads = DOMAIN threads
BY DEF TypeOK, AtWork

\* A caller that begins anew (poll, refresh) is no longer superseded.
LEMMA SupersededWithout ==
  ASSUME TypeOK, NEW c
  PROVE  /\ [superseded EXCEPT !.calls = @ \ {c}]
              \in [calls : SUBSET Callers, threads : SUBSET Nat]
         /\ [superseded EXCEPT !.calls = @ \ {c}].calls = superseded.calls \ {c}
         /\ [superseded EXCEPT !.calls = @ \ {c}].threads = superseded.threads
BY DEF TypeOK

\* The conjuncts of the invariant and the types of the struct's fields.
LEMMA InvParts ==
  ASSUME IInv
  PROVE  /\ TypeOK /\ CountsAgree /\ GenerationsOld /\ LateIsOld
            /\ OneLifecycle
         /\ OneDestroyer /\ DeviceApart /\ ThreadsHeld /\ FreedLast
         /\ auth.generation \in Nat /\ auth.callback_thread \in Nat
         /\ auth.token \in Nat /\ auth.active_operations \in Nat
         /\ auth.token_version \in Nat /\ auth.session \in Attachable
         /\ auth.device \in Nat /\ auth.last_refresh_result \in Results
BY DEF IInv, TypeOK, Auth
-----------------------------------------------------------------------------
(* The actions keep the invariant                                          *)

\* BeginLifecycle (logout, _attach_session, _cancel_login) keeps the invariant.
LEMMA BeginLifecycleKeeps ==
  ASSUME IInv, NEW c \in Callers, NEW o \in {"attach", "logout", "cancel"},
         NEW s \in Attachable, BeginLifecycle(c, o, s)
  PROVE  IInv'
<1>1. /\ auth' \in Auth
      /\ auth'.session = auth.session /\ auth'.token = auth.token
      /\ auth'.destroying = auth.destroying
      /\ auth'.refresh_in_progress = auth.refresh_in_progress
      /\ auth'.active_operations = auth.active_operations
      /\ auth'.callback_thread = auth.callback_thread
      /\ auth'.generation = auth.generation + 1
      /\ auth'.device = 0
      /\ ~auth'.callback_active
      /\ ~auth'.thread_joinable
      /\ auth'.lifecycle_busy
  BY InvParts, BeginLifecycleChanges DEF Changes, Fields, PendingFields
<1>2. TypeOK'
  BY InvParts, CallsTyped, AtWorkTyped, <1>1 DEF TypeOK, Results, Places,
     Counted, Refreshing, Lifecycle, Uncounted, Ops, Working, BeginLifecycle,
     Taken, Calls, Goes, Notes, Attachable
<1>3. CountsAgree'
  <2>1. /\ at' = [at EXCEPT ![c] = at'[c]]
        /\ (at[c] \in Counted <=> at'[c] \in Counted)
    BY InvParts DEF TypeOK, Results, Places, Counted, Refreshing, Lifecycle,
       Uncounted, Ops, Working, BeginLifecycle, Taken, AtWork, Calls, Goes,
       Notes
  <2>2. auth'.active_operations = Cardinality({d \in Callers : at'[d] \in Counted})
    BY InvParts, <1>1, <2>1, CountedMoves DEF TypeOK, CountsAgree
  <2>3. /\ auth'.refresh_in_progress
           <=> \E d \in Callers : at'[d] \in Refreshing
        /\ \A d, e \in Callers :
             at'[d] \in Refreshing /\ at'[e] \in Refreshing => d = e
    BY InvParts, <1>1, <2>1 DEF TypeOK, CountsAgree, Refreshing,
       BeginLifecycle, Taken, AtWork, Calls, Goes, Notes
  <2>4. QED
    BY <2>2, <2>3 DEF CountsAgree
<1>4. GenerationsOld' /\ LateIsOld'
  BY InvParts, <1>1, AtWorkTyped DEF TypeOK, GenerationsOld, Counted,
     Refreshing, Working, BeginLifecycle, Taken, Calls, Goes, Notes, LateIsOld
<1>5. OneLifecycle' /\ OneDestroyer'
  BY InvParts, <1>1 DEF TypeOK, OneLifecycle, InLifecycle, Lifecycle,
     BeginLifecycle, Taken, Calls, Goes, OneDestroyer, Destroyer, Uncounted
<1>6. DeviceApart' /\ ThreadsHeld'
  BY InvParts, <1>1 DEF TypeOK, DeviceApart, Counted, BeginLifecycle, Taken,
     Calls, Goes, Notes, ThreadsHeld
<1>7. FreedLast'
  BY InvParts, <1>1 DEF TypeOK, FreedLast, OneDestroyer, Destroyer, Lifecycle,
     BeginLifecycle, Taken, Calls, Goes
<1>8. QED
  BY <1>2, <1>3, <1>4, <1>5, <1>6, <1>7 DEF IInv

\* BeginDestroy (destroy) keeps the invariant.
LEMMA BeginDestroyKeeps ==
  ASSUME IInv, NEW c \in Callers, BeginDestroy(c)
  PROVE  IInv'
<1>1. /\ auth' \in Auth
      /\ auth'.session = auth.session /\ auth'.token = auth.token
      /\ auth'.lifecycle_busy = auth.lifecycle_busy
      /\ auth'.refresh_in_progress = auth.refresh_in_progress
      /\ auth'.active_operations = auth.active_operations
      /\ auth'.callback_thread = auth.callback_thread
      /\ auth'.generation = auth.generation + 1
      /\ auth'.device = 0
      /\ ~auth'.callback_active
      /\ ~auth'.thread_joinable
      /\ auth'.destroying
  BY InvParts, BeginDestroyChanges DEF Changes, Fields, PendingFields
<1>2. TypeOK'
  BY InvParts, CallsTyped, AtWorkTyped, <1>1 DEF TypeOK, Results, Places,
     Counted, Refreshing, Lifecycle, Uncounted, Ops, Working, BeginDestroy,
     Taken, Calls, Goes, Notes, Attachable
<1>3. CountsAgree'
  <2>1. /\ at' = [at EXCEPT ![c] = at'[c]]
        /\ (at[c] \in Counted <=> at'[c] \in Counted)
    BY InvParts DEF TypeOK, Results, Places, Counted, Refreshing, Lifecycle,
       Uncounted, Ops, Working, BeginDestroy, Taken, AtWork, Calls, Goes, Notes
  <2>2. auth'.active_operations = Cardinality({d \in Callers : at'[d] \in Counted})
    BY InvParts, <1>1, <2>1, CountedMoves DEF TypeOK, CountsAgree
  <2>3. /\ auth'.refresh_in_progress
           <=> \E d \in Callers : at'[d] \in Refreshing
        /\ \A d, e \in Callers :
             at'[d] \in Refreshing /\ at'[e] \in Refreshing => d = e
    BY InvParts, <1>1, <2>1 DEF TypeOK, CountsAgree, Refreshing, BeginDestroy,
       Taken, AtWork, Calls, Goes, Notes
  <2>4. QED
    BY <2>2, <2>3 DEF CountsAgree
<1>4. GenerationsOld' /\ LateIsOld'
  BY InvParts, <1>1, AtWorkTyped DEF TypeOK, GenerationsOld, Counted,
     Refreshing, Working, BeginDestroy, Taken, Calls, Goes, Notes, LateIsOld
<1>5. OneLifecycle' /\ OneDestroyer'
  BY InvParts, <1>1 DEF TypeOK, OneLifecycle, InLifecycle, Lifecycle,
     BeginDestroy, Taken, Calls, Goes, OneDestroyer, Destroyer, Uncounted
<1>6. DeviceApart'
  BY InvParts, <1>1 DEF TypeOK, DeviceApart, Counted, BeginDestroy, Taken,
     Calls, Goes, Notes
<1>7. ThreadsHeld'
  BY InvParts, <1>1 DEF TypeOK, ThreadsHeld, BeginDestroy, Taken, Calls, Goes,
     Notes
<1>8. FreedLast'
  BY InvParts, <1>1 DEF TypeOK, FreedLast, OneDestroyer, Destroyer, Lifecycle,
     BeginDestroy, Taken, Calls, Goes
<1>9. QED
  BY <1>2, <1>3, <1>4, <1>5, <1>6, <1>7, <1>8 DEF IInv

\* AttachCloses (attach_session) keeps the invariant.
LEMMA AttachClosesKeeps ==
  ASSUME IInv, NEW c \in Callers, AttachCloses(c)
  PROVE  IInv'
<1>1. /\ auth' \in Auth
      /\ auth'.generation = auth.generation
      /\ auth'.destroying = auth.destroying
      /\ auth'.lifecycle_busy = auth.lifecycle_busy
      /\ auth'.refresh_in_progress = auth.refresh_in_progress
      /\ auth'.active_operations = auth.active_operations
      /\ auth'.callback_active = auth.callback_active
      /\ auth'.callback_thread = auth.callback_thread
      /\ auth'.thread_joinable = auth.thread_joinable
      /\ auth'.device = auth.device
      /\ auth'.session = NoSession
      /\ auth'.token = 0
  BY InvParts, AttachClosesChanges DEF Changes, Fields, PendingFields
<1>2. TypeOK'
  BY InvParts, <1>1 DEF TypeOK, Results, Places, Counted, Refreshing,
     Lifecycle, Uncounted, Ops, Working, AttachCloses, Goes, Drained, Quiet,
     Attachable
<1>3. CountsAgree'
  <2>1. /\ at' = [at EXCEPT ![c] = at'[c]]
        /\ (at[c] \in Counted <=> at'[c] \in Counted)
    BY InvParts DEF TypeOK, Results, Places, Counted, Refreshing, Lifecycle,
       Uncounted, Ops, Working, AttachCloses, Goes, Drained, Quiet
  <2>2. auth'.active_operations = Cardinality({d \in Callers : at'[d] \in Counted})
    BY InvParts, <1>1, <2>1, CountedMoves DEF TypeOK, CountsAgree
  <2>3. /\ auth'.refresh_in_progress
           <=> \E d \in Callers : at'[d] \in Refreshing
        /\ \A d, e \in Callers :
             at'[d] \in Refreshing /\ at'[e] \in Refreshing => d = e
    BY InvParts, <1>1, <2>1 DEF TypeOK, CountsAgree, Refreshing, AttachCloses,
       Goes, Drained, Quiet
  <2>4. QED
    BY <2>2, <2>3 DEF CountsAgree
<1>4. GenerationsOld' /\ LateIsOld'
  BY InvParts, <1>1 DEF TypeOK, GenerationsOld, Counted, Refreshing, Working,
     AttachCloses, Goes, Drained, Quiet, LateIsOld
<1>5. OneLifecycle' /\ OneDestroyer'
  BY InvParts, <1>1 DEF TypeOK, OneLifecycle, InLifecycle, Lifecycle,
     AttachCloses, Goes, Drained, Quiet, OneDestroyer, Destroyer, Uncounted
<1>6. DeviceApart'
  BY InvParts, <1>1 DEF TypeOK, DeviceApart, Counted, AttachCloses, Goes,
     Drained, Quiet
<1>7. ThreadsHeld'
  <2>1. UNCHANGED <<threads, note>>
    BY DEF AttachCloses, Goes, Drained, Quiet
  <2>2. \A d \in Callers : at[d] \in {"join", "unready"} => at'[d] = at[d]
    BY InvParts DEF TypeOK, AttachCloses, Goes, Drained, Quiet
  <2>3. QED
    BY InvParts, <1>1, <2>1, <2>2 DEF ThreadsHeld
<1>8. FreedLast'
  BY InvParts, <1>1 DEF TypeOK, FreedLast, OneDestroyer, Destroyer, Lifecycle,
     AttachCloses, Goes, Drained, Quiet
<1>9. QED
  BY <1>2, <1>3, <1>4, <1>5, <1>6, <1>7, <1>8 DEF IInv

\* AttachLoads (attach_session) keeps the invariant.
LEMMA AttachLoadsKeeps ==
  ASSUME IInv, NEW c \in Callers, AttachLoads(c)
  PROVE  IInv'
<1>1. /\ auth' \in Auth
      /\ auth'.generation = auth.generation
      /\ auth'.destroying = auth.destroying
      /\ auth'.refresh_in_progress = auth.refresh_in_progress
      /\ auth'.active_operations = auth.active_operations
      /\ auth'.callback_active = auth.callback_active
      /\ auth'.callback_thread = auth.callback_thread
      /\ auth'.thread_joinable = auth.thread_joinable
      /\ auth'.device = auth.device
      /\ ~auth'.lifecycle_busy
      /\ \/ auth'.session = auth.session /\ auth'.token = auth.token
         \/ /\ auth'.session = asked[c].with
            /\ \/ auth'.token = auth.token
               \/ /\ auth'.session \in Sessions
                  /\ auth'.token = vault[auth'.session]
  BY InvParts, AttachLoadsChanges DEF Changes, Fields, PendingFields
<1>2. TypeOK'
  BY InvParts, <1>1 DEF TypeOK, Results, Places, Counted, Refreshing,
     Lifecycle, Uncounted, Ops, Working, AttachLoads, Goes, Broadcast,
     Attachable
<1>3. CountsAgree'
  <2>1. /\ at' = [at EXCEPT ![c] = at'[c]]
        /\ (at[c] \in Counted <=> at'[c] \in Counted)
    BY InvParts DEF TypeOK, Results, Places, Counted, Refreshing, Lifecycle,
       Uncounted, Ops, Working, AttachLoads, Goes, Broadcast
  <2>2. auth'.active_operations = Cardinality({d \in Callers : at'[d] \in Counted})
    BY InvParts, <1>1, <2>1, CountedMoves DEF TypeOK, CountsAgree
  <2>3. /\ auth'.refresh_in_progress
           <=> \E d \in Callers : at'[d] \in Refreshing
        /\ \A d, e \in Callers :
             at'[d] \in Refreshing /\ at'[e] \in Refreshing => d = e
    BY InvParts, <1>1, <2>1 DEF TypeOK, CountsAgree, Refreshing, AttachLoads,
       Goes, Broadcast
  <2>4. QED
    BY <2>2, <2>3 DEF CountsAgree
<1>4. GenerationsOld' /\ LateIsOld'
  BY InvParts, <1>1 DEF TypeOK, GenerationsOld, Counted, Refreshing, Working,
     AttachLoads, Goes, LateIsOld
<1>5. OneLifecycle' /\ OneDestroyer'
  BY InvParts, <1>1 DEF TypeOK, OneLifecycle, InLifecycle, Lifecycle,
     AttachLoads, Goes, OneDestroyer, Destroyer, Uncounted
<1>6. DeviceApart'
  BY InvParts, <1>1 DEF TypeOK, DeviceApart, Counted, AttachLoads, Goes
<1>7. ThreadsHeld'
  BY InvParts, <1>1 DEF TypeOK, ThreadsHeld, AttachLoads, Goes
<1>8. FreedLast'
  BY InvParts, <1>1 DEF TypeOK, FreedLast, OneDestroyer, Destroyer, Lifecycle,
     AttachLoads, Goes
<1>9. QED
  BY <1>2, <1>3, <1>4, <1>5, <1>6, <1>7, <1>8 DEF IInv

\* CancelEnds (cancel_login) keeps the invariant.
LEMMA CancelEndsKeeps ==
  ASSUME IInv, NEW c \in Callers, CancelEnds(c)
  PROVE  IInv'
<1>1. /\ auth' \in Auth
      /\ auth'.session = auth.session /\ auth'.generation = auth.generation
      /\ auth'.token = auth.token /\ auth'.destroying = auth.destroying
      /\ auth'.refresh_in_progress = auth.refresh_in_progress
      /\ auth'.active_operations = auth.active_operations
      /\ auth'.callback_active = auth.callback_active
      /\ auth'.callback_thread = auth.callback_thread
      /\ auth'.thread_joinable = auth.thread_joinable
      /\ auth'.device = auth.device
      /\ ~auth'.lifecycle_busy
  BY InvParts, CancelEndsChanges DEF Changes, Fields, PendingFields
<1>2. TypeOK'
  BY InvParts, <1>1 DEF TypeOK, Results, Places, Counted, Refreshing,
     Lifecycle, Uncounted, Ops, Working, CancelEnds, Goes, Broadcast, Drained,
     Quiet, Attachable
<1>3. CountsAgree'
  <2>1. /\ at' = [at EXCEPT ![c] = at'[c]]
        /\ (at[c] \in Counted <=> at'[c] \in Counted)
    BY InvParts DEF TypeOK, Results, Places, Counted, Refreshing, Lifecycle,
       Uncounted, Ops, Working, CancelEnds, Goes, Broadcast, Drained, Quiet
  <2>2. auth'.active_operations = Cardinality({d \in Callers : at'[d] \in Counted})
    BY InvParts, <1>1, <2>1, CountedMoves DEF TypeOK, CountsAgree
  <2>3. /\ auth'.refresh_in_progress
           <=> \E d \in Callers : at'[d] \in Refreshing
        /\ \A d, e \in Callers :
             at'[d] \in Refreshing /\ at'[e] \in Refreshing => d = e
    BY InvParts, <1>1, <2>1 DEF TypeOK, CountsAgree, Refreshing, CancelEnds,
       Goes, Broadcast, Drained, Quiet
  <2>4. QED
    BY <2>2, <2>3 DEF CountsAgree
<1>4. GenerationsOld' /\ LateIsOld'
  BY InvParts, <1>1 DEF TypeOK, GenerationsOld, Counted, Refreshing, Working,
     CancelEnds, Goes, Drained, Quiet, LateIsOld
<1>5. OneLifecycle' /\ OneDestroyer'
  BY InvParts, <1>1 DEF TypeOK, OneLifecycle, InLifecycle, Lifecycle,
     CancelEnds, Goes, Drained, Quiet, OneDestroyer, Destroyer, Uncounted
<1>6. DeviceApart'
  BY InvParts, <1>1 DEF TypeOK, DeviceApart, Counted, CancelEnds, Goes,
     Drained, Quiet
<1>7. ThreadsHeld'
  <2>1. UNCHANGED <<threads, note>>
    BY DEF CancelEnds, Goes, Broadcast, Drained, Quiet
  <2>2. \A d \in Callers : at[d] \in {"join", "unready"} => at'[d] = at[d]
    BY InvParts DEF TypeOK, CancelEnds, Goes, Broadcast, Drained, Quiet
  <2>3. QED
    BY InvParts, <1>1, <2>1, <2>2 DEF ThreadsHeld
<1>8. FreedLast'
  BY InvParts, <1>1 DEF TypeOK, FreedLast, OneDestroyer, Destroyer, Lifecycle,
     CancelEnds, Goes, Drained, Quiet
<1>9. QED
  BY <1>2, <1>3, <1>4, <1>5, <1>6, <1>7, <1>8 DEF IInv

\* LogoutEnds (logout) keeps the invariant.
LEMMA LogoutEndsKeeps ==
  ASSUME IInv, NEW c \in Callers, LogoutEnds(c)
  PROVE  IInv'
<1>1. /\ auth' \in Auth
      /\ auth'.session = auth.session /\ auth'.generation = auth.generation
      /\ auth'.destroying = auth.destroying
      /\ auth'.refresh_in_progress = auth.refresh_in_progress
      /\ auth'.active_operations = auth.active_operations
      /\ auth'.callback_active = auth.callback_active
      /\ auth'.callback_thread = auth.callback_thread
      /\ auth'.thread_joinable = auth.thread_joinable
      /\ auth'.device = 0 /\ ~auth'.lifecycle_busy
      /\ auth'.token \in {0, auth.token}
  BY InvParts, LogoutEndsChanges DEF Changes, Fields, PendingFields
<1>2. TypeOK'
  BY InvParts, <1>1 DEF TypeOK, Results, Places, Counted, Refreshing,
     Lifecycle, Uncounted, Ops, Working, LogoutEnds, Goes, Broadcast, Drained,
     Quiet, Attachable
<1>3. CountsAgree'
  <2>1. /\ at' = [at EXCEPT ![c] = at'[c]]
        /\ (at[c] \in Counted <=> at'[c] \in Counted)
    BY InvParts DEF TypeOK, Results, Places, Counted, Refreshing, Lifecycle,
       Uncounted, Ops, Working, LogoutEnds, Goes, Broadcast, Drained, Quiet
  <2>2. auth'.active_operations = Cardinality({d \in Callers : at'[d] \in Counted})
    BY InvParts, <1>1, <2>1, CountedMoves DEF TypeOK, CountsAgree
  <2>3. /\ auth'.refresh_in_progress
           <=> \E d \in Callers : at'[d] \in Refreshing
        /\ \A d, e \in Callers :
             at'[d] \in Refreshing /\ at'[e] \in Refreshing => d = e
    BY InvParts, <1>1, <2>1 DEF TypeOK, CountsAgree, Refreshing, LogoutEnds,
       Goes, Broadcast, Drained, Quiet
  <2>4. QED
    BY <2>2, <2>3 DEF CountsAgree
<1>4. GenerationsOld' /\ LateIsOld'
  BY InvParts, <1>1 DEF TypeOK, GenerationsOld, Counted, Refreshing, Working,
     LogoutEnds, Goes, Drained, Quiet, LateIsOld
<1>5. OneLifecycle' /\ OneDestroyer'
  BY InvParts, <1>1 DEF TypeOK, OneLifecycle, InLifecycle, Lifecycle,
     LogoutEnds, Goes, Drained, Quiet, OneDestroyer, Destroyer, Uncounted
<1>6. DeviceApart' /\ ThreadsHeld'
  BY InvParts, <1>1 DEF TypeOK, DeviceApart, Counted, LogoutEnds, Goes,
     Drained, Quiet, ThreadsHeld
<1>7. FreedLast'
  BY InvParts, <1>1 DEF TypeOK, FreedLast, OneDestroyer, Destroyer, Lifecycle,
     LogoutEnds, Goes, Drained, Quiet
<1>8. QED
  BY <1>2, <1>3, <1>4, <1>5, <1>6, <1>7 DEF IInv

\* DestroyEnds (destroy) keeps the invariant.
LEMMA DestroyEndsKeeps ==
  ASSUME IInv, NEW c \in Callers, DestroyEnds(c)
  PROVE  IInv'
<1>1. /\ auth' \in Auth
      /\ auth'.generation = auth.generation
      /\ auth'.destroying = auth.destroying
      /\ auth'.lifecycle_busy = auth.lifecycle_busy
      /\ auth'.refresh_in_progress = auth.refresh_in_progress
      /\ auth'.active_operations = auth.active_operations
      /\ auth'.callback_active = auth.callback_active
      /\ auth'.callback_thread = auth.callback_thread
      /\ auth'.thread_joinable = auth.thread_joinable
      /\ auth'.device = 0
      /\ auth'.session = NoSession
      /\ auth'.token = 0
  BY InvParts, DestroyEndsChanges DEF Changes, Fields, PendingFields
<1>2. TypeOK'
  BY InvParts, <1>1 DEF TypeOK, Results, Places, Counted, Refreshing,
     Lifecycle, Uncounted, Ops, Working, DestroyEnds, Goes, Drained, Quiet,
     Attachable
<1>3. CountsAgree'
  <2>1. /\ at' = [at EXCEPT ![c] = at'[c]]
        /\ (at[c] \in Counted <=> at'[c] \in Counted)
    BY InvParts DEF TypeOK, Results, Places, Counted, Refreshing, Lifecycle,
       Uncounted, Ops, Working, DestroyEnds, Goes, Drained, Quiet
  <2>2. auth'.active_operations = Cardinality({d \in Callers : at'[d] \in Counted})
    BY InvParts, <1>1, <2>1, CountedMoves DEF TypeOK, CountsAgree
  <2>3. /\ auth'.refresh_in_progress
           <=> \E d \in Callers : at'[d] \in Refreshing
        /\ \A d, e \in Callers :
             at'[d] \in Refreshing /\ at'[e] \in Refreshing => d = e
    BY InvParts, <1>1, <2>1 DEF TypeOK, CountsAgree, Refreshing, DestroyEnds,
       Goes, Drained, Quiet
  <2>4. QED
    BY <2>2, <2>3 DEF CountsAgree
<1>4. GenerationsOld' /\ LateIsOld'
  BY InvParts, <1>1 DEF TypeOK, GenerationsOld, Counted, Refreshing, Working,
     DestroyEnds, Goes, Drained, Quiet, LateIsOld
<1>5. OneLifecycle' /\ OneDestroyer'
  BY InvParts, <1>1 DEF TypeOK, OneLifecycle, InLifecycle, Lifecycle,
     DestroyEnds, Goes, Drained, Quiet, OneDestroyer, Destroyer, Uncounted
<1>6. DeviceApart' /\ ThreadsHeld'
  BY InvParts, <1>1 DEF TypeOK, DeviceApart, Counted, DestroyEnds, Goes,
     Drained, Quiet, ThreadsHeld
<1>7. FreedLast'
  <2>1. /\ at' = [at EXCEPT ![c] = "freed"] /\ UNCHANGED threads
        /\ Destroyer(c) /\ at[c] = "drain"
        /\ ~auth.refresh_in_progress /\ auth.active_operations = 0
        /\ ~auth.lifecycle_busy
    BY DEF DestroyEnds, Drained, Quiet, Goes, Destroyer, Lifecycle
  <2>2. auth.destroying /\ ~auth.thread_joinable
    BY InvParts, <2>1 DEF OneDestroyer
  <2>3. \A d \in Callers \ {c} : at[d] = "idle"
    <3> SUFFICES ASSUME NEW d \in Callers \ {c}
                 PROVE  at[d] = "idle"
      OBVIOUS
    <3>1. at[d] \notin Refreshing
      BY InvParts, <2>1 DEF CountsAgree
    <3>2. at[d] \notin Counted
      <4>1. IsFiniteSet({e \in Callers : at[e] \in Counted})
        BY CallersAssumption, FS_Subset
      <4>2. {e \in Callers : at[e] \in Counted} = {}
        BY InvParts, <2>1, <4>1, FS_EmptySet DEF CountsAgree
      <4>3. QED
        BY <4>2
    <3>3. at[d] \notin Uncounted
      BY InvParts, <2>2 DEF OneDestroyer
    <3>4. ~InLifecycle(d) /\ ~Destroyer(d)
      BY InvParts, <2>1 DEF OneLifecycle, OneDestroyer
    <3>5. at[d] \in Places
      BY InvParts DEF TypeOK
    <3>6. QED
      BY <3>1, <3>2, <3>3, <3>4, <3>5 DEF Places, InLifecycle, Destroyer
  <2>4. DOMAIN threads = {}
    BY InvParts, <2>1, <2>2, <2>3 DEF ThreadsHeld
  <2>5. QED
    BY InvParts, <2>1, <2>3, <2>4 DEF FreedLast, TypeOK
<1>8. QED
  BY <1>2, <1>3, <1>4, <1>5, <1>6, <1>7 DEF IInv

\* Reap (reap_previous_callback) keeps the invariant.
LEMMA ReapKeeps ==
  ASSUME IInv, NEW c \in Callers, NEW o \in {"start", "device"}, Reap(c, o)
  PROVE  IInv'
<1>1. /\ auth' \in Auth
      /\ auth'.session = auth.session /\ auth'.generation = auth.generation
      /\ auth'.token = auth.token /\ auth'.destroying = auth.destroying
      /\ auth'.lifecycle_busy = auth.lifecycle_busy
      /\ auth'.refresh_in_progress = auth.refresh_in_progress
      /\ auth'.active_operations = auth.active_operations
      /\ auth'.callback_active = auth.callback_active
      /\ auth'.callback_thread = auth.callback_thread
      /\ auth'.device = auth.device
      /\ ~auth'.thread_joinable
  BY InvParts, ReapChanges DEF Changes, Fields, PendingFields
<1>2. TypeOK'
  BY InvParts, CallsTyped, <1>1 DEF TypeOK, Results, Places, Counted,
     Refreshing, Lifecycle, Uncounted, Ops, Working, Reap, Taken, Calls, Goes,
     Notes, Attachable
<1>3. CountsAgree'
  <2>1. /\ at' = [at EXCEPT ![c] = at'[c]]
        /\ (at[c] \in Counted <=> at'[c] \in Counted)
    BY InvParts DEF TypeOK, Results, Places, Counted, Refreshing, Lifecycle,
       Uncounted, Ops, Working, Reap, Taken, Calls, Goes, Notes
  <2>2. auth'.active_operations = Cardinality({d \in Callers : at'[d] \in Counted})
    BY InvParts, <1>1, <2>1, CountedMoves DEF TypeOK, CountsAgree
  <2>3. /\ auth'.refresh_in_progress
           <=> \E d \in Callers : at'[d] \in Refreshing
        /\ \A d, e \in Callers :
             at'[d] \in Refreshing /\ at'[e] \in Refreshing => d = e
    BY InvParts, <1>1, <2>1 DEF TypeOK, CountsAgree, Refreshing, Reap, Taken,
       Calls, Goes, Notes
  <2>4. QED
    BY <2>2, <2>3 DEF CountsAgree
<1>4. GenerationsOld' /\ LateIsOld'
  BY InvParts, <1>1 DEF TypeOK, GenerationsOld, Counted, Refreshing, Working,
     Reap, Taken, Calls, Goes, Notes, LateIsOld
<1>5. OneLifecycle' /\ OneDestroyer'
  BY InvParts, <1>1 DEF TypeOK, OneLifecycle, InLifecycle, Lifecycle, Reap,
     Taken, Calls, Goes, OneDestroyer, Destroyer, Uncounted
<1>6. DeviceApart' /\ ThreadsHeld'
  BY InvParts, <1>1 DEF TypeOK, DeviceApart, Counted, Reap, Taken, Calls,
     Goes, Notes, ThreadsHeld
<1>7. FreedLast'
  BY InvParts, <1>1 DEF TypeOK, FreedLast, OneDestroyer, Destroyer, Lifecycle,
     Reap, Taken, Calls, Goes
<1>8. QED
  BY <1>2, <1>3, <1>4, <1>5, <1>6, <1>7 DEF IInv

\* StartSpawns (start) keeps the invariant.
LEMMA StartSpawnsKeeps ==
  ASSUME IInv, NEW c \in Callers, StartSpawns(c)
  PROVE  IInv'
<1>1. /\ auth' \in Auth
      /\ auth'.session = auth.session /\ auth'.token = auth.token
      /\ auth'.destroying = auth.destroying
      /\ auth'.lifecycle_busy = auth.lifecycle_busy
      /\ auth'.refresh_in_progress = auth.refresh_in_progress
      /\ auth'.active_operations = auth.active_operations
      /\ auth'.generation = auth.generation + 1
      /\ auth'.device = 0
      /\ auth'.callback_active /\ auth'.thread_joinable
      /\ auth'.callback_thread = auth.generation + 1
  BY InvParts, StartSpawnsChanges DEF Changes, Fields, PendingFields
<1>2. TypeOK'
  BY InvParts, AtWorkTyped, <1>1 DEF TypeOK, Results, Places, Counted,
     Refreshing, Lifecycle, Uncounted, Ops, Working, StartSpawns, Spawned,
     Goes, Notes, Reaped, CanLogin, Joined, Attachable, ThreadStates
<1>3. CountsAgree'
  <2>1. /\ at' = [at EXCEPT ![c] = at'[c]]
        /\ (at[c] \in Counted <=> at'[c] \in Counted)
    BY InvParts DEF TypeOK, Results, Places, Counted, Refreshing, Lifecycle,
       Uncounted, Ops, Working, StartSpawns, AtWork, Spawned, Goes, Notes,
       Reaped, CanLogin, Joined
  <2>2. auth'.active_operations = Cardinality({d \in Callers : at'[d] \in Counted})
    BY InvParts, <1>1, <2>1, CountedMoves DEF TypeOK, CountsAgree
  <2>3. /\ auth'.refresh_in_progress
           <=> \E d \in Callers : at'[d] \in Refreshing
        /\ \A d, e \in Callers :
             at'[d] \in Refreshing /\ at'[e] \in Refreshing => d = e
    BY InvParts, <1>1, <2>1 DEF TypeOK, CountsAgree, Refreshing, StartSpawns,
       AtWork, Spawned, Goes, Notes, Reaped, CanLogin, Joined
  <2>4. QED
    BY <2>2, <2>3 DEF CountsAgree
<1>4. GenerationsOld' /\ LateIsOld'
  BY InvParts, <1>1, AtWorkTyped DEF TypeOK, GenerationsOld, Counted,
     Refreshing, Working, StartSpawns, Spawned, Goes, Notes, Reaped, CanLogin,
     Joined, LateIsOld
<1>5. OneLifecycle' /\ OneDestroyer'
  BY InvParts, <1>1 DEF TypeOK, OneLifecycle, InLifecycle, Lifecycle,
     StartSpawns, Spawned, Goes, Reaped, CanLogin, Joined, OneDestroyer,
     Destroyer, Uncounted
<1>6. DeviceApart'
  BY InvParts, <1>1 DEF TypeOK, DeviceApart, GenerationsOld, Counted, Working,
     StartSpawns, Spawned, Goes, Notes, Reaped, CanLogin, Joined
<1>7. ThreadsHeld'
  BY InvParts, <1>1 DEF TypeOK, ThreadsHeld, StartSpawns, Spawned, Goes,
     Notes, Reaped, CanLogin, Joined
<1>8. FreedLast'
  BY InvParts, <1>1 DEF TypeOK, FreedLast, OneDestroyer, Destroyer, Lifecycle,
     StartSpawns, Spawned, Goes, Reaped, CanLogin, Joined
<1>9. QED
  BY <1>2, <1>3, <1>4, <1>5, <1>6, <1>7, <1>8 DEF IInv

\* StartUnspawned (start) keeps the invariant.
LEMMA StartUnspawnedKeeps ==
  ASSUME IInv, NEW c \in Callers, StartUnspawned(c)
  PROVE  IInv'
<1>1. /\ auth' \in Auth
      /\ auth'.session = auth.session /\ auth'.token = auth.token
      /\ auth'.destroying = auth.destroying
      /\ auth'.lifecycle_busy = auth.lifecycle_busy
      /\ auth'.refresh_in_progress = auth.refresh_in_progress
      /\ auth'.active_operations = auth.active_operations
      /\ auth'.callback_thread = auth.callback_thread
      /\ auth'.thread_joinable = auth.thread_joinable
      /\ auth'.generation = auth.generation + 1
      /\ auth'.device = 0
      /\ ~auth'.callback_active
  BY InvParts, StartUnspawnedChanges DEF Changes, Fields, PendingFields
<1>2. TypeOK'
  BY InvParts, AtWorkTyped, <1>1 DEF TypeOK, Results, Places, Counted,
     Refreshing, Lifecycle, Uncounted, Ops, Working, StartUnspawned, Goes,
     Reaped, CanLogin, Joined, Attachable
<1>3. CountsAgree'
  <2>1. /\ at' = [at EXCEPT ![c] = at'[c]]
        /\ (at[c] \in Counted <=> at'[c] \in Counted)
    BY InvParts DEF TypeOK, Results, Places, Counted, Refreshing, Lifecycle,
       Uncounted, Ops, Working, StartUnspawned, AtWork, Goes, Reaped,
       CanLogin, Joined
  <2>2. auth'.active_operations = Cardinality({d \in Callers : at'[d] \in Counted})
    BY InvParts, <1>1, <2>1, CountedMoves DEF TypeOK, CountsAgree
  <2>3. /\ auth'.refresh_in_progress
           <=> \E d \in Callers : at'[d] \in Refreshing
        /\ \A d, e \in Callers :
             at'[d] \in Refreshing /\ at'[e] \in Refreshing => d = e
    BY InvParts, <1>1, <2>1 DEF TypeOK, CountsAgree, Refreshing,
       StartUnspawned, AtWork, Goes, Reaped, CanLogin, Joined
  <2>4. QED
    BY <2>2, <2>3 DEF CountsAgree
<1>4. GenerationsOld' /\ LateIsOld'
  BY InvParts, <1>1, AtWorkTyped DEF TypeOK, GenerationsOld, Counted,
     Refreshing, Working, StartUnspawned, Goes, Reaped, CanLogin, Joined,
     LateIsOld
<1>5. OneLifecycle' /\ OneDestroyer'
  BY InvParts, <1>1 DEF TypeOK, OneLifecycle, InLifecycle, Lifecycle,
     StartUnspawned, Goes, Reaped, CanLogin, Joined, OneDestroyer, Destroyer,
     Uncounted
<1>6. DeviceApart' /\ ThreadsHeld'
  BY InvParts, <1>1 DEF TypeOK, DeviceApart, Counted, StartUnspawned, Goes,
     Reaped, CanLogin, Joined, ThreadsHeld
<1>7. FreedLast'
  BY InvParts, <1>1 DEF TypeOK, FreedLast, OneDestroyer, Destroyer, Lifecycle,
     StartUnspawned, Goes, Reaped, CanLogin, Joined
<1>8. QED
  BY <1>2, <1>3, <1>4, <1>5, <1>6, <1>7 DEF IInv

\* StartReady (start) keeps the invariant.
LEMMA StartReadyKeeps ==
  ASSUME IInv, NEW c \in Callers, StartReady(c)
  PROVE  IInv'
<1>1. /\ auth' \in Auth
      /\ auth'.session = auth.session /\ auth'.generation = auth.generation
      /\ auth'.token = auth.token /\ auth'.destroying = auth.destroying
      /\ auth'.lifecycle_busy = auth.lifecycle_busy
      /\ auth'.refresh_in_progress = auth.refresh_in_progress
      /\ auth'.active_operations = auth.active_operations
      /\ auth'.callback_active = auth.callback_active
      /\ auth'.callback_thread = auth.callback_thread
      /\ auth'.device = auth.device
      /\ auth' = auth \/ ~auth'.thread_joinable
  BY InvParts, StartReadyChanges DEF Changes, Fields, PendingFields
<1>2. TypeOK'
  BY InvParts, <1>1 DEF TypeOK, Results, Places, Counted, Refreshing,
     Lifecycle, Uncounted, Ops, Working, StartReady, Goes, Notes, Attachable
<1>3. CountsAgree'
  <2>1. /\ at' = [at EXCEPT ![c] = at'[c]]
        /\ (at[c] \in Counted <=> at'[c] \in Counted)
    BY InvParts DEF TypeOK, Results, Places, Counted, Refreshing, Lifecycle,
       Uncounted, Ops, Working, StartReady, Goes, Notes
  <2>2. auth'.active_operations = Cardinality({d \in Callers : at'[d] \in Counted})
    BY InvParts, <1>1, <2>1, CountedMoves DEF TypeOK, CountsAgree
  <2>3. /\ auth'.refresh_in_progress
           <=> \E d \in Callers : at'[d] \in Refreshing
        /\ \A d, e \in Callers :
             at'[d] \in Refreshing /\ at'[e] \in Refreshing => d = e
    <3>1. at[c] = "ready" /\ at'[c] \in {"idle", "unready"}
      BY InvParts DEF TypeOK, StartReady, Goes
    <3>2. QED
      BY InvParts, <1>1, <2>1, <3>1 DEF TypeOK, CountsAgree, Refreshing
  <2>4. QED
    BY <2>2, <2>3 DEF CountsAgree
<1>4. GenerationsOld'
  BY InvParts, <1>1 DEF TypeOK, GenerationsOld, Counted, Refreshing, Working,
     StartReady, Goes, Notes
<1>5. LateIsOld'
  BY InvParts, <1>1 DEF TypeOK, LateIsOld, GenerationsOld, Counted,
     Refreshing, Working, StartReady, Goes, Notes
<1>6. OneLifecycle' /\ OneDestroyer'
  BY InvParts, <1>1 DEF TypeOK, OneLifecycle, InLifecycle, Lifecycle,
     StartReady, Goes, OneDestroyer, Destroyer, Uncounted
<1>7. DeviceApart'
  BY InvParts, <1>1 DEF TypeOK, DeviceApart, Counted, StartReady, Goes, Notes
<1>8. ThreadsHeld'
  <2>1. UNCHANGED threads
    BY DEF StartReady
  <2>2. \A d \in Callers : at[d] \in {"join", "unready"} =>
                              at'[d] = at[d] /\ note'[d] = note[d]
    BY InvParts DEF TypeOK, StartReady, Goes, Notes
  <2>3. \/ auth' = auth
        \/ at'[c] = "unready" /\ note'[c] = auth.callback_thread
    BY InvParts DEF TypeOK, StartReady, Goes, Notes
  <2>4. QED
    BY InvParts, <1>1, <2>1, <2>2, <2>3 DEF ThreadsHeld
<1>9. FreedLast'
  BY InvParts, <1>1 DEF TypeOK, FreedLast, OneDestroyer, Destroyer, Lifecycle,
     StartReady, Goes
<1>10. QED
  BY <1>2, <1>3, <1>4, <1>5, <1>6, <1>7, <1>8, <1>9 DEF IInv

\* StartFails (start) keeps the invariant.
LEMMA StartFailsKeeps ==
  ASSUME IInv, NEW c \in Callers, StartFails(c)
  PROVE  IInv'
<1>1. /\ auth' \in Auth
      /\ auth'.session = auth.session /\ auth'.generation = auth.generation
      /\ auth'.token = auth.token /\ auth'.destroying = auth.destroying
      /\ auth'.lifecycle_busy = auth.lifecycle_busy
      /\ auth'.refresh_in_progress = auth.refresh_in_progress
      /\ auth'.active_operations = auth.active_operations
      /\ auth'.callback_active = auth.callback_active
      /\ auth'.callback_thread = auth.callback_thread
      /\ auth'.thread_joinable = auth.thread_joinable
      /\ auth'.device = 0
  BY InvParts, StartFailsChanges DEF Changes, Fields, PendingFields
<1>2. TypeOK'
  BY InvParts, <1>1 DEF TypeOK, Results, Places, Counted, Refreshing,
     Lifecycle, Uncounted, Ops, Working, StartFails, Goes, Joined, Attachable
<1>3. CountsAgree'
  <2>1. /\ at' = [at EXCEPT ![c] = at'[c]]
        /\ (at[c] \in Counted <=> at'[c] \in Counted)
    BY InvParts DEF TypeOK, Results, Places, Counted, Refreshing, Lifecycle,
       Uncounted, Ops, Working, StartFails, Goes, Joined
  <2>2. auth'.active_operations = Cardinality({d \in Callers : at'[d] \in Counted})
    BY InvParts, <1>1, <2>1, CountedMoves DEF TypeOK, CountsAgree
  <2>3. /\ auth'.refresh_in_progress
           <=> \E d \in Callers : at'[d] \in Refreshing
        /\ \A d, e \in Callers :
             at'[d] \in Refreshing /\ at'[e] \in Refreshing => d = e
    BY InvParts, <1>1, <2>1 DEF TypeOK, CountsAgree, Refreshing, StartFails,
       Goes, Joined
  <2>4. QED
    BY <2>2, <2>3 DEF CountsAgree
<1>4. GenerationsOld' /\ LateIsOld'
  BY InvParts, <1>1 DEF TypeOK, GenerationsOld, Counted, Refreshing, Working,
     StartFails, Goes, Joined, LateIsOld
<1>5. OneLifecycle' /\ OneDestroyer'
  BY InvParts, <1>1 DEF TypeOK, OneLifecycle, InLifecycle, Lifecycle,
     StartFails, Goes, Joined, OneDestroyer, Destroyer, Uncounted
<1>6. DeviceApart' /\ ThreadsHeld'
  BY InvParts, <1>1 DEF TypeOK, DeviceApart, Counted, StartFails, Goes,
     Joined, ThreadsHeld
<1>7. FreedLast'
  BY InvParts, <1>1 DEF TypeOK, FreedLast, OneDestroyer, Destroyer, Lifecycle,
     StartFails, Goes, Joined
<1>8. QED
  BY <1>2, <1>3, <1>4, <1>5, <1>6, <1>7 DEF IInv

\* DeviceAsks (device_start) keeps the invariant.
LEMMA DeviceAsksKeeps ==
  ASSUME IInv, NEW c \in Callers, DeviceAsks(c)
  PROVE  IInv'
<1>1. /\ auth' \in Auth
      /\ auth'.session = auth.session /\ auth'.token = auth.token
      /\ auth'.destroying = auth.destroying
      /\ auth'.lifecycle_busy = auth.lifecycle_busy
      /\ auth'.refresh_in_progress = auth.refresh_in_progress
      /\ auth'.callback_thread = auth.callback_thread
      /\ auth'.thread_joinable = auth.thread_joinable
      /\ auth'.generation = auth.generation + 1
      /\ auth'.device = 0
      /\ auth'.active_operations = auth.active_operations + 1
  BY InvParts, DeviceAsksChanges DEF Changes, Fields, PendingFields
<1>2. TypeOK'
  BY InvParts, AtWorkTyped, <1>1 DEF TypeOK, Results, Places, Counted,
     Refreshing, Lifecycle, Uncounted, Ops, Working, DeviceAsks, Goes, Notes,
     Reaped, CanLogin, Joined, Attachable
<1>3. CountsAgree'
  <2>1. /\ at' = [at EXCEPT ![c] = at'[c]]
        /\ at[c] \notin Counted /\ at'[c] \in Counted
    BY InvParts DEF TypeOK, Results, Places, Counted, Refreshing, Lifecycle,
       Uncounted, Ops, Working, DeviceAsks, AtWork, Goes, Notes, Reaped,
       CanLogin, Joined
  <2>2. auth'.active_operations = Cardinality({d \in Callers : at'[d] \in Counted})
    BY InvParts, <1>1, <2>1, CountedMoves DEF TypeOK, CountsAgree
  <2>3. /\ auth'.refresh_in_progress
           <=> \E d \in Callers : at'[d] \in Refreshing
        /\ \A d, e \in Callers :
             at'[d] \in Refreshing /\ at'[e] \in Refreshing => d = e
    BY InvParts, <1>1, <2>1 DEF TypeOK, CountsAgree, Refreshing, DeviceAsks,
       AtWork, Goes, Notes, Reaped, CanLogin, Joined
  <2>4. QED
    BY <2>2, <2>3 DEF CountsAgree
<1>4. GenerationsOld' /\ LateIsOld'
  BY InvParts, <1>1, AtWorkTyped DEF TypeOK, GenerationsOld, Counted,
     Refreshing, Working, DeviceAsks, Goes, Notes, Reaped, CanLogin, Joined,
     LateIsOld
<1>5. OneLifecycle' /\ OneDestroyer'
  BY InvParts, <1>1 DEF TypeOK, OneLifecycle, InLifecycle, Lifecycle,
     DeviceAsks, Goes, Reaped, CanLogin, Joined, OneDestroyer, Destroyer,
     Uncounted
<1>6. DeviceApart' /\ ThreadsHeld'
  BY InvParts, <1>1 DEF TypeOK, DeviceApart, GenerationsOld, Counted, Working,
     DeviceAsks, Goes, Notes, Reaped, CanLogin, Joined, ThreadsHeld
<1>7. FreedLast'
  BY InvParts, <1>1 DEF TypeOK, FreedLast, OneDestroyer, Destroyer, Lifecycle,
     DeviceAsks, Goes, Reaped, CanLogin, Joined
<1>8. QED
  BY <1>2, <1>3, <1>4, <1>5, <1>6, <1>7 DEF IInv

\* DeviceAnswered (device_start) keeps the invariant.
LEMMA DeviceAnsweredKeeps ==
  ASSUME IInv, NEW c \in Callers, DeviceAnswered(c)
  PROVE  IInv'
<1>1. /\ auth' \in Auth
      /\ auth'.session = auth.session /\ auth'.generation = auth.generation
      /\ auth'.token = auth.token /\ auth'.destroying = auth.destroying
      /\ auth'.lifecycle_busy = auth.lifecycle_busy
      /\ auth'.refresh_in_progress = auth.refresh_in_progress
      /\ auth'.active_operations = auth.active_operations
      /\ auth'.callback_active = auth.callback_active
      /\ auth'.callback_thread = auth.callback_thread
      /\ auth'.thread_joinable = auth.thread_joinable
      /\ \/ auth'.device = auth.device
         \/ auth'.device = note[c] /\ note[c] = auth.generation
  BY InvParts, DeviceAnsweredChanges DEF Changes, Fields, PendingFields
<1>2. TypeOK'
  BY InvParts, <1>1 DEF TypeOK, Results, Places, Counted, Refreshing,
     Lifecycle, Uncounted, Ops, Working, DeviceAnswered, Goes, Attachable
<1>3. CountsAgree'
  <2>1. /\ at' = [at EXCEPT ![c] = at'[c]]
        /\ (at[c] \in Counted <=> at'[c] \in Counted)
    BY InvParts DEF TypeOK, Results, Places, Counted, Refreshing, Lifecycle,
       Uncounted, Ops, Working, DeviceAnswered, Goes
  <2>2. auth'.active_operations = Cardinality({d \in Callers : at'[d] \in Counted})
    BY InvParts, <1>1, <2>1, CountedMoves DEF TypeOK, CountsAgree
  <2>3. /\ auth'.refresh_in_progress
           <=> \E d \in Callers : at'[d] \in Refreshing
        /\ \A d, e \in Callers :
             at'[d] \in Refreshing /\ at'[e] \in Refreshing => d = e
    BY InvParts, <1>1, <2>1 DEF TypeOK, CountsAgree, Refreshing,
       DeviceAnswered, Goes
  <2>4. QED
    BY <2>2, <2>3 DEF CountsAgree
<1>4. GenerationsOld' /\ LateIsOld'
  BY InvParts, <1>1 DEF TypeOK, GenerationsOld, Counted, Refreshing, Working,
     DeviceAnswered, Goes, LateIsOld
<1>5. OneLifecycle' /\ OneDestroyer'
  BY InvParts, <1>1 DEF TypeOK, OneLifecycle, InLifecycle, Lifecycle,
     DeviceAnswered, Goes, OneDestroyer, Destroyer, Uncounted
<1>6. DeviceApart' /\ ThreadsHeld'
  BY InvParts, <1>1 DEF TypeOK, DeviceApart, Counted, DeviceAnswered, Goes,
     ThreadsHeld
<1>7. FreedLast'
  BY InvParts, <1>1 DEF TypeOK, FreedLast, OneDestroyer, Destroyer, Lifecycle,
     DeviceAnswered, Goes
<1>8. QED
  BY <1>2, <1>3, <1>4, <1>5, <1>6, <1>7 DEF IInv

\* DeviceRefused (device_start_failed) keeps the invariant.
LEMMA DeviceRefusedKeeps ==
  ASSUME IInv, NEW c \in Callers, DeviceRefused(c)
  PROVE  IInv'
<1>1. /\ auth' \in Auth
      /\ auth'.session = auth.session /\ auth'.generation = auth.generation
      /\ auth'.token = auth.token /\ auth'.destroying = auth.destroying
      /\ auth'.lifecycle_busy = auth.lifecycle_busy
      /\ auth'.refresh_in_progress = auth.refresh_in_progress
      /\ auth'.active_operations = auth.active_operations
      /\ auth'.callback_thread = auth.callback_thread
      /\ auth'.thread_joinable = auth.thread_joinable
      /\ auth' = auth \/ (auth.generation = note[c] /\ auth'.device = 0)
  BY InvParts, DeviceRefusedChanges DEF Changes, Fields, PendingFields
<1>2. TypeOK'
  BY InvParts, <1>1 DEF TypeOK, Results, Places, Counted, Refreshing,
     Lifecycle, Uncounted, Ops, Working, DeviceRefused, Goes, Broadcast,
     Attachable
<1>3. CountsAgree'
  <2>1. /\ at' = [at EXCEPT ![c] = at'[c]]
        /\ (at[c] \in Counted <=> at'[c] \in Counted)
    BY InvParts DEF TypeOK, Results, Places, Counted, Refreshing, Lifecycle,
       Uncounted, Ops, Working, DeviceRefused, Goes, Broadcast
  <2>2. auth'.active_operations = Cardinality({d \in Callers : at'[d] \in Counted})
    BY InvParts, <1>1, <2>1, CountedMoves DEF TypeOK, CountsAgree
  <2>3. /\ auth'.refresh_in_progress
           <=> \E d \in Callers : at'[d] \in Refreshing
        /\ \A d, e \in Callers :
             at'[d] \in Refreshing /\ at'[e] \in Refreshing => d = e
    BY InvParts, <1>1, <2>1 DEF TypeOK, CountsAgree, Refreshing,
       DeviceRefused, Goes, Broadcast
  <2>4. QED
    BY <2>2, <2>3 DEF CountsAgree
<1>4. GenerationsOld' /\ LateIsOld'
  BY InvParts, <1>1 DEF TypeOK, GenerationsOld, Counted, Refreshing, Working,
     DeviceRefused, Goes, LateIsOld
<1>5. OneLifecycle' /\ OneDestroyer'
  BY InvParts, <1>1 DEF TypeOK, OneLifecycle, InLifecycle, Lifecycle,
     DeviceRefused, Goes, OneDestroyer, Destroyer, Uncounted
<1>6. DeviceApart' /\ ThreadsHeld'
  BY InvParts, <1>1 DEF TypeOK, DeviceApart, Counted, DeviceRefused, Goes,
     ThreadsHeld
<1>7. FreedLast'
  BY InvParts, <1>1 DEF TypeOK, FreedLast, OneDestroyer, Destroyer, Lifecycle,
     DeviceRefused, Goes
<1>8. QED
  BY <1>2, <1>3, <1>4, <1>5, <1>6, <1>7 DEF IInv

\* OperationFinishes (active_operation_finish) keeps the invariant.
LEMMA OperationFinishesKeeps ==
  ASSUME IInv, NEW c \in Callers, OperationFinishes(c)
  PROVE  IInv'
<1>1. /\ auth' \in Auth
      /\ auth'.session = auth.session /\ auth'.generation = auth.generation
      /\ auth'.token = auth.token /\ auth'.destroying = auth.destroying
      /\ auth'.lifecycle_busy = auth.lifecycle_busy
      /\ auth'.refresh_in_progress = auth.refresh_in_progress
      /\ auth'.callback_active = auth.callback_active
      /\ auth'.callback_thread = auth.callback_thread
      /\ auth'.thread_joinable = auth.thread_joinable
      /\ auth'.device = auth.device
      /\ auth.active_operations > 0 =>
             auth'.active_operations = auth.active_operations - 1
  BY InvParts, OperationFinishesChanges DEF Changes, Fields, PendingFields
<1>2. TypeOK'
  BY InvParts, <1>1 DEF TypeOK, Results, Places, Counted, Refreshing,
     Lifecycle, Uncounted, Ops, Working, OperationFinishes, Goes, Broadcast,
     Attachable
<1>3. CountsAgree'
  <2>1. /\ at' = [at EXCEPT ![c] = at'[c]]
        /\ at[c] \in Counted /\ at'[c] \notin Counted
    BY InvParts DEF TypeOK, Results, Places, Counted, Refreshing, Lifecycle,
       Uncounted, Ops, Working, OperationFinishes, Goes, Broadcast
  <2>2. auth'.active_operations = Cardinality({d \in Callers : at'[d] \in Counted})
    BY InvParts, <1>1, <2>1, CountedMoves DEF TypeOK, CountsAgree
  <2>3. /\ auth'.refresh_in_progress
           <=> \E d \in Callers : at'[d] \in Refreshing
        /\ \A d, e \in Callers :
             at'[d] \in Refreshing /\ at'[e] \in Refreshing => d = e
    BY InvParts, <1>1, <2>1 DEF TypeOK, CountsAgree, Refreshing,
       OperationFinishes, Goes, Broadcast
  <2>4. QED
    BY <2>2, <2>3 DEF CountsAgree
<1>4. GenerationsOld' /\ LateIsOld'
  BY InvParts, <1>1 DEF TypeOK, GenerationsOld, Counted, Refreshing, Working,
     OperationFinishes, Goes, LateIsOld
<1>5. OneLifecycle' /\ OneDestroyer'
  BY InvParts, <1>1 DEF TypeOK, OneLifecycle, InLifecycle, Lifecycle,
     OperationFinishes, Goes, OneDestroyer, Destroyer, Uncounted
<1>6. DeviceApart' /\ ThreadsHeld'
  BY InvParts, <1>1 DEF TypeOK, DeviceApart, Counted, OperationFinishes, Goes,
     ThreadsHeld
<1>7. FreedLast'
  BY InvParts, <1>1 DEF TypeOK, FreedLast, OneDestroyer, Destroyer, Lifecycle,
     OperationFinishes, Goes
<1>8. QED
  BY <1>2, <1>3, <1>4, <1>5, <1>6, <1>7 DEF IInv

\* PollBegins (device_poll) keeps the invariant.
LEMMA PollBeginsKeeps ==
  ASSUME IInv, NEW c \in Callers, PollBegins(c)
  PROVE  IInv'
<1>1. /\ auth' \in Auth
      /\ auth'.session = auth.session /\ auth'.generation = auth.generation
      /\ auth'.token = auth.token /\ auth'.destroying = auth.destroying
      /\ auth'.lifecycle_busy = auth.lifecycle_busy
      /\ auth'.refresh_in_progress = auth.refresh_in_progress
      /\ auth'.callback_active = auth.callback_active
      /\ auth'.callback_thread = auth.callback_thread
      /\ auth'.thread_joinable = auth.thread_joinable
      /\ auth'.device = auth.device
      /\ auth'.active_operations = auth.active_operations + 1
  BY InvParts, PollBeginsChanges DEF Changes, Fields, PendingFields
<1>2. TypeOK'
  BY InvParts, CallsTyped, AnswersTyped, SupersededWithout, <1>1 DEF TypeOK,
     Results, Places, Counted, Refreshing, Lifecycle, Uncounted, Ops, Working,
     PollBegins, Goes, PollNames, Calls, Notes, Attachable
<1>3. CountsAgree'
  <2>1. /\ at' = [at EXCEPT ![c] = at'[c]]
        /\ at[c] \notin Counted /\ at'[c] \in Counted
    BY InvParts DEF TypeOK, Results, Places, Counted, Refreshing, Lifecycle,
       Uncounted, Ops, Working, PollBegins, Goes, Answers, PollNames, Calls,
       Notes
  <2>2. auth'.active_operations = Cardinality({d \in Callers : at'[d] \in Counted})
    BY InvParts, <1>1, <2>1, CountedMoves DEF TypeOK, CountsAgree
  <2>3. /\ auth'.refresh_in_progress
           <=> \E d \in Callers : at'[d] \in Refreshing
        /\ \A d, e \in Callers :
             at'[d] \in Refreshing /\ at'[e] \in Refreshing => d = e
    BY InvParts, <1>1, <2>1 DEF TypeOK, CountsAgree, Refreshing, PollBegins,
       Goes, Answers, PollNames, Calls, Notes
  <2>4. QED
    BY <2>2, <2>3 DEF CountsAgree
<1>4. GenerationsOld' /\ LateIsOld'
  BY InvParts, <1>1, SupersededWithout DEF TypeOK, GenerationsOld, Counted,
     Refreshing, Working, PollBegins, Goes, PollNames, Calls, Notes, LateIsOld
<1>5. OneLifecycle' /\ OneDestroyer'
  BY InvParts, <1>1 DEF TypeOK, OneLifecycle, InLifecycle, Lifecycle,
     PollBegins, Goes, PollNames, Calls, OneDestroyer, Destroyer, Uncounted
<1>6. DeviceApart' /\ ThreadsHeld'
  BY InvParts, <1>1 DEF TypeOK, DeviceApart, Counted, PollBegins, Goes,
     PollNames, Calls, Notes, ThreadsHeld
<1>7. FreedLast'
  BY InvParts, <1>1 DEF TypeOK, FreedLast, OneDestroyer, Destroyer, Lifecycle,
     PollBegins, Goes, PollNames, Calls
<1>8. QED
  BY <1>2, <1>3, <1>4, <1>5, <1>6, <1>7 DEF IInv

\* PollCloses (device_poll_finished) keeps the invariant.
LEMMA PollClosesKeeps ==
  ASSUME IInv, NEW c \in Callers, PollCloses(c)
  PROVE  IInv'
<1>1. /\ auth' \in Auth
      /\ auth'.session = auth.session /\ auth'.generation = auth.generation
      /\ auth'.token = auth.token /\ auth'.destroying = auth.destroying
      /\ auth'.lifecycle_busy = auth.lifecycle_busy
      /\ auth'.refresh_in_progress = auth.refresh_in_progress
      /\ auth'.active_operations = auth.active_operations
      /\ auth'.callback_thread = auth.callback_thread
      /\ auth'.thread_joinable = auth.thread_joinable
      /\ auth' = auth \/ (auth.generation = note[c] /\ auth'.device = 0)
  BY InvParts, PollClosesChanges DEF Changes, Fields, PendingFields
<1>2. TypeOK'
  BY InvParts, <1>1 DEF TypeOK, Results, Places, Counted, Refreshing,
     Lifecycle, Uncounted, Ops, Working, PollCloses, Goes, Broadcast,
     Attachable
<1>3. CountsAgree'
  <2>1. /\ at' = [at EXCEPT ![c] = at'[c]]
        /\ (at[c] \in Counted <=> at'[c] \in Counted)
    BY InvParts DEF TypeOK, Results, Places, Counted, Refreshing, Lifecycle,
       Uncounted, Ops, Working, PollCloses, Goes, Broadcast
  <2>2. auth'.active_operations = Cardinality({d \in Callers : at'[d] \in Counted})
    BY InvParts, <1>1, <2>1, CountedMoves DEF TypeOK, CountsAgree
  <2>3. /\ auth'.refresh_in_progress
           <=> \E d \in Callers : at'[d] \in Refreshing
        /\ \A d, e \in Callers :
             at'[d] \in Refreshing /\ at'[e] \in Refreshing => d = e
    BY InvParts, <1>1, <2>1 DEF TypeOK, CountsAgree, Refreshing, PollCloses,
       Goes, Broadcast
  <2>4. QED
    BY <2>2, <2>3 DEF CountsAgree
<1>4. GenerationsOld' /\ LateIsOld'
  BY InvParts, <1>1 DEF TypeOK, GenerationsOld, Counted, Refreshing, Working,
     PollCloses, Goes, LateIsOld
<1>5. OneLifecycle' /\ OneDestroyer'
  BY InvParts, <1>1 DEF TypeOK, OneLifecycle, InLifecycle, Lifecycle,
     PollCloses, Goes, OneDestroyer, Destroyer, Uncounted
<1>6. DeviceApart' /\ ThreadsHeld'
  BY InvParts, <1>1 DEF TypeOK, DeviceApart, Counted, PollCloses, Goes,
     ThreadsHeld
<1>7. FreedLast'
  BY InvParts, <1>1 DEF TypeOK, FreedLast, OneDestroyer, Destroyer, Lifecycle,
     PollCloses, Goes
<1>8. QED
  BY <1>2, <1>3, <1>4, <1>5, <1>6, <1>7 DEF IInv

\* PollReleases (device_poll_released) keeps the invariant.
LEMMA PollReleasesKeeps ==
  ASSUME IInv, NEW c \in Callers, PollReleases(c)
  PROVE  IInv'
<1>1. /\ auth' \in Auth
      /\ auth'.session = auth.session /\ auth'.generation = auth.generation
      /\ auth'.token = auth.token /\ auth'.destroying = auth.destroying
      /\ auth'.lifecycle_busy = auth.lifecycle_busy
      /\ auth'.refresh_in_progress = auth.refresh_in_progress
      /\ auth'.callback_active = auth.callback_active
      /\ auth'.callback_thread = auth.callback_thread
      /\ auth'.thread_joinable = auth.thread_joinable
      /\ auth'.device = auth.device
      /\ auth.active_operations > 0 =>
             auth'.active_operations = auth.active_operations - 1
  BY InvParts, PollReleasesChanges DEF Changes, Fields, PendingFields
<1>2. TypeOK'
  BY InvParts, <1>1 DEF TypeOK, Results, Places, Counted, Refreshing,
     Lifecycle, Uncounted, Ops, Working, PollReleases, Goes, Broadcast,
     Attachable
<1>3. CountsAgree'
  <2>1. /\ at' = [at EXCEPT ![c] = at'[c]]
        /\ at[c] \in Counted /\ at'[c] \notin Counted
    BY InvParts DEF TypeOK, Results, Places, Counted, Refreshing, Lifecycle,
       Uncounted, Ops, Working, PollReleases, Goes, Broadcast
  <2>2. auth'.active_operations = Cardinality({d \in Callers : at'[d] \in Counted})
    BY InvParts, <1>1, <2>1, CountedMoves DEF TypeOK, CountsAgree
  <2>3. /\ auth'.refresh_in_progress
           <=> \E d \in Callers : at'[d] \in Refreshing
        /\ \A d, e \in Callers :
             at'[d] \in Refreshing /\ at'[e] \in Refreshing => d = e
    BY InvParts, <1>1, <2>1 DEF TypeOK, CountsAgree, Refreshing, PollReleases,
       Goes, Broadcast
  <2>4. QED
    BY <2>2, <2>3 DEF CountsAgree
<1>4. GenerationsOld' /\ LateIsOld'
  BY InvParts, <1>1 DEF TypeOK, GenerationsOld, Counted, Refreshing, Working,
     PollReleases, Goes, LateIsOld
<1>5. OneLifecycle' /\ OneDestroyer'
  BY InvParts, <1>1 DEF TypeOK, OneLifecycle, InLifecycle, Lifecycle,
     PollReleases, Goes, OneDestroyer, Destroyer, Uncounted
<1>6. DeviceApart' /\ ThreadsHeld'
  BY InvParts, <1>1 DEF TypeOK, DeviceApart, Counted, PollReleases, Goes,
     ThreadsHeld
<1>7. FreedLast'
  BY InvParts, <1>1 DEF TypeOK, FreedLast, OneDestroyer, Destroyer, Lifecycle,
     PollReleases, Goes
<1>8. QED
  BY <1>2, <1>3, <1>4, <1>5, <1>6, <1>7 DEF IInv

\* ThreadBinds (callback_publish_failure, callback_publish_listener) keeps the
\* invariant.
LEMMA ThreadBindsKeeps ==
  ASSUME IInv, NEW g \in DOMAIN threads, ThreadBinds(g)
  PROVE  IInv'
<1>1. /\ auth' \in Auth
      /\ auth'.session = auth.session /\ auth'.generation = auth.generation
      /\ auth'.token = auth.token /\ auth'.destroying = auth.destroying
      /\ auth'.lifecycle_busy = auth.lifecycle_busy
      /\ auth'.refresh_in_progress = auth.refresh_in_progress
      /\ auth'.active_operations = auth.active_operations
      /\ auth'.callback_active = auth.callback_active
      /\ auth'.callback_thread = auth.callback_thread
      /\ auth'.thread_joinable = auth.thread_joinable
      /\ auth'.device = auth.device
  BY InvParts, ThreadBindsChanges DEF Changes, Fields, PendingFields
<1>2. TypeOK'
  BY InvParts, <1>1 DEF TypeOK, ThreadBinds, Broadcast, Moves, ThreadIs,
     ThreadStates
<1>3. UNCHANGED <<at, note, asked>>
  BY DEF ThreadBinds, StillActive, Broadcast, Moves, ThreadIs
<1>4. CountsAgree'
  <2>1. at' = at
    BY InvParts DEF ThreadBinds, StillActive, Broadcast, Moves, ThreadIs
  <2>2. QED
    BY InvParts, <1>1, <2>1 DEF CountsAgree
<1>5. GenerationsOld' /\ LateIsOld'
  BY InvParts, <1>1 DEF TypeOK, GenerationsOld, Counted, Refreshing, Working,
     ThreadBinds, Moves, ThreadIs, LateIsOld
<1>6. OneLifecycle' /\ OneDestroyer'
  BY InvParts, <1>1 DEF TypeOK, OneLifecycle, InLifecycle, Lifecycle,
     ThreadBinds, Moves, ThreadIs, OneDestroyer, Destroyer, Uncounted
<1>7. DeviceApart' /\ ThreadsHeld'
  BY InvParts, <1>1 DEF TypeOK, DeviceApart, Counted, ThreadBinds, Moves,
     ThreadIs, ThreadsHeld
<1>8. FreedLast'
  BY InvParts, <1>1 DEF TypeOK, FreedLast, OneDestroyer, Destroyer, Lifecycle,
     ThreadBinds, Moves, ThreadIs
<1>9. QED
  BY <1>2, <1>4, <1>5, <1>6, <1>7, <1>8 DEF IInv

\* ThreadAccepts (process_callback) keeps the invariant.
LEMMA ThreadAcceptsKeeps ==
  ASSUME IInv, NEW g \in DOMAIN threads, ThreadAccepts(g)
  PROVE  IInv'
<1>1. /\ auth' \in Auth
      /\ auth'.session = auth.session /\ auth'.generation = auth.generation
      /\ auth'.token = auth.token /\ auth'.destroying = auth.destroying
      /\ auth'.lifecycle_busy = auth.lifecycle_busy
      /\ auth'.refresh_in_progress = auth.refresh_in_progress
      /\ auth'.active_operations = auth.active_operations
      /\ auth'.callback_active = auth.callback_active
      /\ auth'.callback_thread = auth.callback_thread
      /\ auth'.thread_joinable = auth.thread_joinable
      /\ auth'.device = 0
  BY InvParts, ThreadAcceptsChanges DEF Changes, Fields, PendingFields
<1>2. TypeOK'
  <2>1. at' \in [Callers -> Places] /\ note' \in [Callers -> Nat]
    BY InvParts DEF TypeOK, Results, Places, Counted, Refreshing, Lifecycle,
       Uncounted, Ops, Working, ThreadAccepts, Moves, ThreadIs
  <2>2. /\ asked' \in [Callers -> [op : Ops, with : Attachable]]
        /\ calls' \in 0..MaxCalls
    BY InvParts DEF TypeOK, Ops, Attachable, ThreadAccepts, Moves, ThreadIs
  <2>3. returned' \in [Callers -> [result : Results, token : Nat]]
    BY InvParts DEF TypeOK, Results, ThreadAccepts, Moves, ThreadIs
  <2>4. vault' \in [Sessions -> Nat] /\ issued' \in Nat
    BY InvParts DEF TypeOK, Attachable, ThreadAccepts, Moves, ThreadIs
  <2>5. /\ DOMAIN threads' \subseteq Nat
        /\ threads' \in [DOMAIN threads' -> ThreadStates]
    BY InvParts DEF TypeOK, ThreadStates, ThreadAccepts, Moves, ThreadIs
  <2>6. /\ asleep' \subseteq Callers
        /\ superseded' \in [calls : SUBSET Callers, threads : SUBSET Nat]
    BY InvParts DEF TypeOK, ThreadAccepts, Moves, ThreadIs
  <2>7. QED
    BY <1>1, <2>1, <2>2, <2>3, <2>4, <2>5, <2>6 DEF TypeOK
<1>3. UNCHANGED <<at, note, asked>>
  BY DEF ThreadAccepts, Moves, ThreadIs
<1>4. CountsAgree'
  <2>1. at' = at
    BY InvParts DEF ThreadAccepts, Moves, ThreadIs
  <2>2. QED
    BY InvParts, <1>1, <2>1 DEF CountsAgree
<1>5. GenerationsOld' /\ LateIsOld'
  BY InvParts, <1>1 DEF TypeOK, GenerationsOld, Counted, Refreshing, Working,
     ThreadAccepts, Moves, ThreadIs, LateIsOld
<1>6. OneLifecycle' /\ OneDestroyer'
  BY InvParts, <1>1 DEF TypeOK, OneLifecycle, InLifecycle, Lifecycle,
     ThreadAccepts, Moves, ThreadIs, OneDestroyer, Destroyer, Uncounted
<1>7. DeviceApart' /\ ThreadsHeld'
  BY InvParts, <1>1 DEF TypeOK, DeviceApart, Counted, ThreadAccepts, Moves,
     ThreadIs, ThreadsHeld
<1>8. FreedLast'
  BY InvParts, <1>1 DEF TypeOK, FreedLast, OneDestroyer, Destroyer, Lifecycle,
     ThreadAccepts, Moves, ThreadIs
<1>9. QED
  BY <1>2, <1>4, <1>5, <1>6, <1>7, <1>8 DEF IInv

\* ThreadFinishes (callback_finish) keeps the invariant.
LEMMA ThreadFinishesKeeps ==
  ASSUME IInv, NEW g \in DOMAIN threads, ThreadFinishes(g)
  PROVE  IInv'
<1>1. /\ auth' \in Auth
      /\ auth'.session = auth.session /\ auth'.generation = auth.generation
      /\ auth'.token = auth.token /\ auth'.destroying = auth.destroying
      /\ auth'.lifecycle_busy = auth.lifecycle_busy
      /\ auth'.refresh_in_progress = auth.refresh_in_progress
      /\ auth'.active_operations = auth.active_operations
      /\ auth'.callback_thread = auth.callback_thread
      /\ auth'.thread_joinable = auth.thread_joinable
      /\ auth' = auth \/ (auth.generation = g /\ auth'.device = 0)
  BY InvParts, ThreadFinishesChanges DEF Changes, Fields, PendingFields
<1>2. TypeOK'
  BY InvParts, <1>1 DEF TypeOK, ThreadFinishes, Exited, Broadcast, ThreadIs,
     ThreadStates
<1>3. UNCHANGED <<at, note, asked>>
  BY DEF ThreadFinishes, Exited, Broadcast, ThreadIs
<1>4. CountsAgree'
  <2>1. at' = at
    BY InvParts DEF ThreadFinishes, Exited, Broadcast, ThreadIs
  <2>2. QED
    BY InvParts, <1>1, <2>1 DEF CountsAgree
<1>5. GenerationsOld' /\ LateIsOld'
  BY InvParts, <1>1 DEF TypeOK, GenerationsOld, Counted, Refreshing, Working,
     ThreadFinishes, Exited, ThreadIs, LateIsOld
<1>6. OneLifecycle' /\ OneDestroyer'
  BY InvParts, <1>1 DEF TypeOK, OneLifecycle, InLifecycle, Lifecycle,
     ThreadFinishes, Exited, ThreadIs, OneDestroyer, Destroyer, Uncounted
<1>7. DeviceApart' /\ ThreadsHeld'
  BY InvParts, <1>1 DEF TypeOK, DeviceApart, Counted, ThreadFinishes, Exited,
     ThreadIs, ThreadsHeld
<1>8. FreedLast'
  BY InvParts, <1>1 DEF TypeOK, FreedLast, OneDestroyer, Destroyer, Lifecycle,
     ThreadFinishes, Exited, ThreadIs
<1>9. QED
  BY <1>2, <1>4, <1>5, <1>6, <1>7, <1>8 DEF IInv

\* RefreshBegins (refresh_credentials) keeps the invariant.
LEMMA RefreshBeginsKeeps ==
  ASSUME IInv, NEW c \in Callers, RefreshBegins(c)
  PROVE  IInv'
<1>1. /\ auth' \in Auth
      /\ auth'.session = auth.session /\ auth'.generation = auth.generation
      /\ auth'.token = auth.token /\ auth'.destroying = auth.destroying
      /\ auth'.lifecycle_busy = auth.lifecycle_busy
      /\ auth'.active_operations = auth.active_operations
      /\ auth'.callback_active = auth.callback_active
      /\ auth'.callback_thread = auth.callback_thread
      /\ auth'.thread_joinable = auth.thread_joinable
      /\ auth'.device = auth.device
      /\ auth'.refresh_in_progress
  BY InvParts, RefreshBeginsChanges DEF Changes, Fields, PendingFields
<1>2. TypeOK'
  <2>1. at' \in [Callers -> Places] /\ note' \in [Callers -> Nat]
    BY InvParts DEF TypeOK, Results, Places, Counted, Refreshing, Lifecycle,
       Uncounted, Ops, Working, RefreshBegins, Calls, Goes, Notes, CanAsk
  <2>2. /\ asked' \in [Callers -> [op : Ops, with : Attachable]]
        /\ calls' \in 0..MaxCalls
    BY InvParts, CallsTyped DEF TypeOK, Ops, Attachable, RefreshBegins, Goes,
       Notes, CanAsk
  <2>3. returned' \in [Callers -> [result : Results, token : Nat]]
    BY InvParts, AnswersTyped DEF TypeOK, Results, RefreshBegins, Goes, Notes,
       CanAsk
  <2>4. vault' \in [Sessions -> Nat] /\ issued' \in Nat
    BY InvParts DEF TypeOK, Attachable, RefreshBegins, Goes, Notes, CanAsk
  <2>5. /\ DOMAIN threads' \subseteq Nat
        /\ threads' \in [DOMAIN threads' -> ThreadStates]
    BY InvParts DEF TypeOK, ThreadStates, RefreshBegins, Goes, Notes, CanAsk
  <2>6. /\ asleep' \subseteq Callers
        /\ superseded' \in [calls : SUBSET Callers, threads : SUBSET Nat]
    BY InvParts, SupersededWithout DEF TypeOK, RefreshBegins, Goes, Notes,
       CanAsk
  <2>7. QED
    BY <1>1, <2>1, <2>2, <2>3, <2>4, <2>5, <2>6 DEF TypeOK
<1>3. CountsAgree'
  <2>1. /\ at' = [at EXCEPT ![c] = at'[c]]
        /\ (at[c] \in Counted <=> at'[c] \in Counted)
    BY InvParts DEF TypeOK, Results, Places, Counted, Refreshing, Lifecycle,
       Uncounted, Ops, Working, RefreshBegins, Calls, Goes, Notes, Answers,
       CanAsk
  <2>2. auth'.active_operations = Cardinality({d \in Callers : at'[d] \in Counted})
    BY InvParts, <1>1, <2>1, CountedMoves DEF TypeOK, CountsAgree
  <2>3. /\ auth'.refresh_in_progress
           <=> \E d \in Callers : at'[d] \in Refreshing
        /\ \A d, e \in Callers :
             at'[d] \in Refreshing /\ at'[e] \in Refreshing => d = e
    BY InvParts, <1>1, <2>1 DEF TypeOK, CountsAgree, Refreshing,
       RefreshBegins, Calls, Goes, Notes, Answers, CanAsk
  <2>4. QED
    BY <2>2, <2>3 DEF CountsAgree
<1>4. GenerationsOld' /\ LateIsOld'
  BY InvParts, <1>1, SupersededWithout DEF TypeOK, GenerationsOld, Counted,
     Refreshing, Working, RefreshBegins, Calls, Goes, Notes, CanAsk, LateIsOld
<1>5. OneLifecycle' /\ OneDestroyer'
  BY InvParts, <1>1 DEF TypeOK, OneLifecycle, InLifecycle, Lifecycle,
     RefreshBegins, Calls, Goes, CanAsk, OneDestroyer, Destroyer, Uncounted
<1>6. DeviceApart' /\ ThreadsHeld'
  BY InvParts, <1>1 DEF TypeOK, DeviceApart, Counted, RefreshBegins, Calls,
     Goes, Notes, CanAsk, ThreadsHeld
<1>7. FreedLast'
  BY InvParts, <1>1 DEF TypeOK, FreedLast, OneDestroyer, Destroyer, Lifecycle,
     RefreshBegins, Calls, Goes, CanAsk
<1>8. QED
  BY <1>2, <1>3, <1>4, <1>5, <1>6, <1>7 DEF IInv

\* RefreshLost (refresh_credentials) keeps the invariant.
LEMMA RefreshLostKeeps ==
  ASSUME IInv, NEW c \in Callers, RefreshLost(c)
  PROVE  IInv'
<1>1. /\ auth' \in Auth
      /\ auth'.session = auth.session /\ auth'.generation = auth.generation
      /\ auth'.token = auth.token /\ auth'.destroying = auth.destroying
      /\ auth'.lifecycle_busy = auth.lifecycle_busy
      /\ auth'.active_operations = auth.active_operations
      /\ auth'.callback_active = auth.callback_active
      /\ auth'.callback_thread = auth.callback_thread
      /\ auth'.thread_joinable = auth.thread_joinable
      /\ auth'.device = auth.device
      /\ ~auth'.refresh_in_progress
  BY InvParts, RefreshLostChanges DEF Changes, Fields, PendingFields
<1>2. TypeOK'
  <2>1. at' \in [Callers -> Places] /\ note' \in [Callers -> Nat]
    BY InvParts DEF TypeOK, Results, Places, Counted, Refreshing, Lifecycle,
       Uncounted, Ops, Working, RefreshLost, RefreshOver, Goes, Broadcast
  <2>2. /\ asked' \in [Callers -> [op : Ops, with : Attachable]]
        /\ calls' \in 0..MaxCalls
    BY InvParts DEF TypeOK, Ops, Attachable, RefreshLost, StillActive,
       RefreshOver, Goes, Broadcast
  <2>3. returned' \in [Callers -> [result : Results, token : Nat]]
    BY InvParts, AnswersTyped DEF TypeOK, Results, RefreshLost, StillActive,
       RefreshOver, Goes, Broadcast
  <2>4. vault' \in [Sessions -> Nat] /\ issued' \in Nat
    BY InvParts DEF TypeOK, Attachable, RefreshLost, StillActive, RefreshOver,
       Goes, Broadcast
  <2>5. /\ DOMAIN threads' \subseteq Nat
        /\ threads' \in [DOMAIN threads' -> ThreadStates]
    BY InvParts DEF TypeOK, ThreadStates, RefreshLost, StillActive,
       RefreshOver, Goes, Broadcast
  <2>6. /\ asleep' \subseteq Callers
        /\ superseded' \in [calls : SUBSET Callers, threads : SUBSET Nat]
    BY InvParts DEF TypeOK, RefreshLost, StillActive, RefreshOver, Goes,
       Broadcast
  <2>7. QED
    BY <1>1, <2>1, <2>2, <2>3, <2>4, <2>5, <2>6 DEF TypeOK
<1>3. CountsAgree'
  <2>1. /\ at' = [at EXCEPT ![c] = at'[c]]
        /\ (at[c] \in Counted <=> at'[c] \in Counted)
        /\ at[c] \in Refreshing /\ at'[c] \notin Refreshing
    <3>1. /\ at[c] \in {"granted", "failed", "rejected", "dropped"}
          /\ Goes(c, "idle")
      BY DEF RefreshLost, RefreshOver
    <3>2. QED
      BY InvParts, <3>1 DEF TypeOK, Goes, Counted, Refreshing
  <2>2. auth'.active_operations = Cardinality({d \in Callers : at'[d] \in Counted})
    BY InvParts, <1>1, <2>1, CountedMoves DEF TypeOK, CountsAgree
  <2>3. /\ auth'.refresh_in_progress
           <=> \E d \in Callers : at'[d] \in Refreshing
        /\ \A d, e \in Callers :
             at'[d] \in Refreshing /\ at'[e] \in Refreshing => d = e
    BY InvParts, <1>1, <2>1 DEF TypeOK, CountsAgree
  <2>4. QED
    BY <2>2, <2>3 DEF CountsAgree
<1>4. GenerationsOld' /\ LateIsOld'
  BY InvParts, <1>1 DEF TypeOK, GenerationsOld, Counted, Refreshing, Working,
     RefreshLost, RefreshOver, Goes, LateIsOld
<1>5. OneLifecycle'
  BY InvParts, <1>1 DEF TypeOK, OneLifecycle, InLifecycle, Lifecycle,
     RefreshLost, RefreshOver, Goes
<1>6. OneDestroyer'
  BY InvParts, <1>1 DEF TypeOK, OneDestroyer, Destroyer, Lifecycle, Uncounted,
     RefreshLost, RefreshOver, Goes
<1>7. DeviceApart'
  BY InvParts, <1>1 DEF TypeOK, DeviceApart, Counted, RefreshLost,
     RefreshOver, Goes
<1>8. ThreadsHeld'
  <2>1. UNCHANGED <<threads, note>>
    BY DEF RefreshLost, StillActive, RefreshOver, Goes, Answers, Broadcast
  <2>2. \A d \in Callers : at[d] \in {"join", "unready"} => at'[d] = at[d]
    BY InvParts DEF TypeOK, RefreshLost, StillActive, RefreshOver, Goes,
       Answers, Broadcast
  <2>3. QED
    BY InvParts, <1>1, <2>1, <2>2 DEF ThreadsHeld
<1>9. FreedLast'
  BY InvParts, <1>1 DEF TypeOK, FreedLast, OneDestroyer, Destroyer, Lifecycle,
     RefreshLost, RefreshOver, Goes
<1>10. QED
  BY <1>2, <1>3, <1>4, <1>5, <1>6, <1>7, <1>8, <1>9 DEF IInv

\* RefreshGranted (refresh_credentials) keeps the invariant.
LEMMA RefreshGrantedKeeps ==
  ASSUME IInv, NEW c \in Callers, RefreshGranted(c)
  PROVE  IInv'
<1>1. /\ auth' \in Auth
      /\ auth'.session = auth.session /\ auth'.generation = auth.generation
      /\ auth'.destroying = auth.destroying
      /\ auth'.lifecycle_busy = auth.lifecycle_busy
      /\ auth'.active_operations = auth.active_operations
      /\ auth'.callback_active = auth.callback_active
      /\ auth'.callback_thread = auth.callback_thread
      /\ auth'.thread_joinable = auth.thread_joinable
      /\ auth'.device = auth.device
      /\ ~auth'.refresh_in_progress
      /\ \/ UNCHANGED <<vault, issued>> /\ auth'.token = auth.token
         \/ /\ auth.session # NoSession /\ auth'.token = issued + 1
            /\ vault' = [vault EXCEPT ![auth.session] = issued + 1]
  BY InvParts, RefreshGrantedChanges DEF Changes, Fields, PendingFields
<1>2. TypeOK'
  <2>1. at' \in [Callers -> Places] /\ note' \in [Callers -> Nat]
    BY InvParts DEF TypeOK, Results, Places, Counted, Refreshing, Lifecycle,
       Uncounted, Ops, Working, RefreshGranted, RefreshOver, Goes, Broadcast
  <2>2. /\ asked' \in [Callers -> [op : Ops, with : Attachable]]
        /\ calls' \in 0..MaxCalls
    BY InvParts DEF TypeOK, Ops, Attachable, RefreshGranted, StillActive,
       RefreshOver, Goes, Broadcast
  <2>3. returned' \in [Callers -> [result : Results, token : Nat]]
    <3>1. \/ Answers(c, "ok", Commit(auth, issued + 1).token)
          \/ Answers(c, "transient", 0)
      BY DEF RefreshGranted, RefreshOver
    <3>2. Commit(auth, issued + 1).token \in Nat
      BY InvParts, CommitChanges DEF TypeOK
    <3>3. QED
      BY InvParts, <3>1, <3>2, AnswersTyped DEF Results
  <2>4. vault' \in [Sessions -> Nat] /\ issued' \in Nat
    BY InvParts DEF TypeOK, Attachable, RefreshGranted, StillActive,
       RefreshOver, Goes, Broadcast
  <2>5. /\ DOMAIN threads' \subseteq Nat
        /\ threads' \in [DOMAIN threads' -> ThreadStates]
    BY InvParts DEF TypeOK, ThreadStates, RefreshGranted, StillActive,
       RefreshOver, Goes, Broadcast
  <2>6. /\ asleep' \subseteq Callers
        /\ superseded' \in [calls : SUBSET Callers, threads : SUBSET Nat]
    BY InvParts DEF TypeOK, RefreshGranted, StillActive, RefreshOver, Goes,
       Broadcast
  <2>7. QED
    BY <1>1, <2>1, <2>2, <2>3, <2>4, <2>5, <2>6 DEF TypeOK
<1>3. CountsAgree'
  <2>1. /\ at' = [at EXCEPT ![c] = at'[c]]
        /\ (at[c] \in Counted <=> at'[c] \in Counted)
        /\ at[c] \in Refreshing /\ at'[c] \notin Refreshing
    <3>1. at[c] \in {"granted"} /\ Goes(c, "idle")
      BY DEF RefreshGranted, RefreshOver
    <3>2. QED
      BY InvParts, <3>1 DEF TypeOK, Goes, Counted, Refreshing
  <2>2. auth'.active_operations = Cardinality({d \in Callers : at'[d] \in Counted})
    BY InvParts, <1>1, <2>1, CountedMoves DEF TypeOK, CountsAgree
  <2>3. /\ auth'.refresh_in_progress
           <=> \E d \in Callers : at'[d] \in Refreshing
        /\ \A d, e \in Callers :
             at'[d] \in Refreshing /\ at'[e] \in Refreshing => d = e
    BY InvParts, <1>1, <2>1 DEF TypeOK, CountsAgree
  <2>4. QED
    BY <2>2, <2>3 DEF CountsAgree
<1>4. GenerationsOld' /\ LateIsOld'
  BY InvParts, <1>1 DEF TypeOK, GenerationsOld, Counted, Refreshing, Working,
     RefreshGranted, RefreshOver, Goes, LateIsOld
<1>5. OneLifecycle' /\ OneDestroyer'
  BY InvParts, <1>1 DEF TypeOK, OneLifecycle, InLifecycle, Lifecycle,
     RefreshGranted, RefreshOver, Goes, OneDestroyer, Destroyer, Uncounted
<1>6. DeviceApart'
  BY InvParts, <1>1 DEF TypeOK, DeviceApart, Counted, RefreshGranted,
     RefreshOver, Goes
<1>7. ThreadsHeld'
  <2>1. UNCHANGED <<threads, note>>
    BY DEF RefreshGranted, StillActive, RefreshOver, Goes, Answers, Broadcast
  <2>2. \A d \in Callers : at[d] \in {"join", "unready"} => at'[d] = at[d]
    BY InvParts DEF TypeOK, RefreshGranted, StillActive, RefreshOver, Goes,
       Answers, Broadcast
  <2>3. QED
    BY InvParts, <1>1, <2>1, <2>2 DEF ThreadsHeld
<1>8. FreedLast'
  BY InvParts, <1>1 DEF TypeOK, FreedLast, OneDestroyer, Destroyer, Lifecycle,
     RefreshGranted, RefreshOver, Goes
<1>9. QED
  BY <1>2, <1>3, <1>4, <1>5, <1>6, <1>7, <1>8 DEF IInv

\* RefreshRejected (refresh_credentials) keeps the invariant.
LEMMA RefreshRejectedKeeps ==
  ASSUME IInv, NEW c \in Callers, RefreshRejected(c)
  PROVE  IInv'
<1>1. /\ auth' \in Auth
      /\ auth'.session = auth.session /\ auth'.generation = auth.generation
      /\ auth'.destroying = auth.destroying
      /\ auth'.lifecycle_busy = auth.lifecycle_busy
      /\ auth'.active_operations = auth.active_operations
      /\ auth'.callback_active = auth.callback_active
      /\ auth'.callback_thread = auth.callback_thread
      /\ auth'.thread_joinable = auth.thread_joinable
      /\ auth'.device = auth.device
      /\ ~auth'.refresh_in_progress
      /\ auth'.token \in {0, auth.token}
  BY InvParts, RefreshRejectedChanges DEF Changes, Fields, PendingFields
<1>2. TypeOK'
  <2>1. at' \in [Callers -> Places] /\ note' \in [Callers -> Nat]
    BY InvParts DEF TypeOK, Results, Places, Counted, Refreshing, Lifecycle,
       Uncounted, Ops, Working, RefreshRejected, RefreshOver, Goes, Broadcast
  <2>2. /\ asked' \in [Callers -> [op : Ops, with : Attachable]]
        /\ calls' \in 0..MaxCalls
    BY InvParts DEF TypeOK, Ops, Attachable, RefreshRejected, StillActive,
       RefreshOver, Goes, Broadcast
  <2>3. returned' \in [Callers -> [result : Results, token : Nat]]
    BY InvParts, AnswersTyped DEF TypeOK, Results, RefreshRejected,
       StillActive, RefreshOver, Goes, Broadcast
  <2>4. vault' \in [Sessions -> Nat] /\ issued' \in Nat
    BY InvParts DEF TypeOK, Attachable, RefreshRejected, StillActive,
       RefreshOver, Goes, Broadcast
  <2>5. /\ DOMAIN threads' \subseteq Nat
        /\ threads' \in [DOMAIN threads' -> ThreadStates]
    BY InvParts DEF TypeOK, ThreadStates, RefreshRejected, StillActive,
       RefreshOver, Goes, Broadcast
  <2>6. /\ asleep' \subseteq Callers
        /\ superseded' \in [calls : SUBSET Callers, threads : SUBSET Nat]
    BY InvParts DEF TypeOK, RefreshRejected, StillActive, RefreshOver, Goes,
       Broadcast
  <2>7. QED
    BY <1>1, <2>1, <2>2, <2>3, <2>4, <2>5, <2>6 DEF TypeOK
<1>3. CountsAgree'
  <2>1. /\ at' = [at EXCEPT ![c] = at'[c]]
        /\ (at[c] \in Counted <=> at'[c] \in Counted)
    BY InvParts DEF TypeOK, Results, Places, Counted, Refreshing, Lifecycle,
       Uncounted, Ops, Working, RefreshRejected, StillActive, RefreshOver,
       Goes, Answers, Broadcast
  <2>2. auth'.active_operations = Cardinality({d \in Callers : at'[d] \in Counted})
    BY InvParts, <1>1, <2>1, CountedMoves DEF TypeOK, CountsAgree
  <2>3. /\ auth'.refresh_in_progress
           <=> \E d \in Callers : at'[d] \in Refreshing
        /\ \A d, e \in Callers :
             at'[d] \in Refreshing /\ at'[e] \in Refreshing => d = e
    BY InvParts, <1>1, <2>1 DEF TypeOK, CountsAgree, Refreshing,
       RefreshRejected, StillActive, RefreshOver, Goes, Answers, Broadcast
  <2>4. QED
    BY <2>2, <2>3 DEF CountsAgree
<1>4. GenerationsOld' /\ LateIsOld'
  BY InvParts, <1>1 DEF TypeOK, GenerationsOld, Counted, Refreshing, Working,
     RefreshRejected, RefreshOver, Goes, LateIsOld
<1>5. OneLifecycle' /\ OneDestroyer'
  BY InvParts, <1>1 DEF TypeOK, OneLifecycle, InLifecycle, Lifecycle,
     RefreshRejected, RefreshOver, Goes, OneDestroyer, Destroyer, Uncounted
<1>6. DeviceApart'
  BY InvParts, <1>1 DEF TypeOK, DeviceApart, Counted, RefreshRejected,
     RefreshOver, Goes
<1>7. ThreadsHeld'
  <2>1. UNCHANGED <<threads, note>>
    BY DEF RefreshRejected, StillActive, RefreshOver, Goes, Answers, Broadcast
  <2>2. \A d \in Callers : at[d] \in {"join", "unready"} => at'[d] = at[d]
    BY InvParts DEF TypeOK, RefreshRejected, StillActive, RefreshOver, Goes,
       Answers, Broadcast
  <2>3. QED
    BY InvParts, <1>1, <2>1, <2>2 DEF ThreadsHeld
<1>8. FreedLast'
  BY InvParts, <1>1 DEF TypeOK, FreedLast, OneDestroyer, Destroyer, Lifecycle,
     RefreshRejected, RefreshOver, Goes
<1>9. QED
  BY <1>2, <1>3, <1>4, <1>5, <1>6, <1>7, <1>8 DEF IInv

\* PollKeeps (device_poll) keeps the invariant.
LEMMA PollKeepsKeeps ==
  ASSUME IInv, NEW c \in Callers, PollKeeps(c)
  PROVE  IInv'
<1>1. /\ auth' \in Auth
      /\ auth'.session = auth.session /\ auth'.generation = auth.generation
      /\ auth'.destroying = auth.destroying
      /\ auth'.lifecycle_busy = auth.lifecycle_busy
      /\ auth'.refresh_in_progress = auth.refresh_in_progress
      /\ auth'.active_operations = auth.active_operations
      /\ auth'.callback_active = auth.callback_active
      /\ auth'.callback_thread = auth.callback_thread
      /\ auth'.thread_joinable = auth.thread_joinable
      /\ auth'.device = auth.device
      /\ auth.session = NoSession => auth'.token = auth.token
  BY InvParts, PollKeepsChanges DEF Changes, Fields, PendingFields, Completes
<1>2. TypeOK'
  <2>1. at' \in [Callers -> Places] /\ note' \in [Callers -> Nat]
    BY InvParts DEF TypeOK, Results, Places, Counted, Refreshing, Lifecycle,
       Uncounted, Ops, Working, PollKeeps, Goes
  <2>2. /\ asked' \in [Callers -> [op : Ops, with : Attachable]]
        /\ calls' \in 0..MaxCalls
    BY InvParts DEF TypeOK, Ops, Attachable, PollKeeps, Goes
  <2>3. returned' \in [Callers -> [result : Results, token : Nat]]
    BY InvParts, AnswersTyped DEF TypeOK, Results, PollKeeps, Goes, Completes
  <2>4. vault' \in [Sessions -> Nat] /\ issued' \in Nat
    BY InvParts DEF TypeOK, Attachable, PollKeeps, Goes, Completes
  <2>5. /\ DOMAIN threads' \subseteq Nat
        /\ threads' \in [DOMAIN threads' -> ThreadStates]
    BY InvParts DEF TypeOK, ThreadStates, PollKeeps, Goes, Completes
  <2>6. /\ asleep' \subseteq Callers
        /\ superseded' \in [calls : SUBSET Callers, threads : SUBSET Nat]
    BY InvParts DEF TypeOK, PollKeeps, Goes, Completes
  <2>7. QED
    BY <1>1, <2>1, <2>2, <2>3, <2>4, <2>5, <2>6 DEF TypeOK
<1>3. CountsAgree'
  <2>1. /\ at' = [at EXCEPT ![c] = at'[c]]
        /\ (at[c] \in Counted <=> at'[c] \in Counted)
    BY InvParts DEF TypeOK, Results, Places, Counted, Refreshing, Lifecycle,
       Uncounted, Ops, Working, PollKeeps, Goes, Answers, Completes
  <2>2. auth'.active_operations = Cardinality({d \in Callers : at'[d] \in Counted})
    BY InvParts, <1>1, <2>1, CountedMoves DEF TypeOK, CountsAgree
  <2>3. /\ auth'.refresh_in_progress
           <=> \E d \in Callers : at'[d] \in Refreshing
        /\ \A d, e \in Callers :
             at'[d] \in Refreshing /\ at'[e] \in Refreshing => d = e
    BY InvParts, <1>1, <2>1 DEF TypeOK, CountsAgree, Refreshing, PollKeeps,
       Goes, Answers, Completes
  <2>4. QED
    BY <2>2, <2>3 DEF CountsAgree
<1>4. GenerationsOld' /\ LateIsOld'
  BY InvParts, <1>1 DEF TypeOK, GenerationsOld, Counted, Refreshing, Working,
     PollKeeps, Goes, Completes, LateIsOld
<1>5. OneLifecycle' /\ OneDestroyer'
  BY InvParts, <1>1 DEF TypeOK, OneLifecycle, InLifecycle, Lifecycle,
     PollKeeps, Goes, Completes, OneDestroyer, Destroyer, Uncounted
<1>6. DeviceApart' /\ ThreadsHeld'
  BY InvParts, <1>1 DEF TypeOK, DeviceApart, Counted, PollKeeps, Goes,
     Completes, ThreadsHeld
<1>7. FreedLast'
  BY InvParts, <1>1 DEF TypeOK, FreedLast, OneDestroyer, Destroyer, Lifecycle,
     PollKeeps, Goes, Completes
<1>8. QED
  BY <1>2, <1>3, <1>4, <1>5, <1>6, <1>7 DEF IInv

\* ThreadKeeps (process_callback) keeps the invariant.
LEMMA ThreadKeepsKeeps ==
  ASSUME IInv, NEW g \in DOMAIN threads, ThreadKeeps(g)
  PROVE  IInv'
<1>1. /\ auth' \in Auth
      /\ auth'.session = auth.session /\ auth'.generation = auth.generation
      /\ auth'.destroying = auth.destroying
      /\ auth'.lifecycle_busy = auth.lifecycle_busy
      /\ auth'.refresh_in_progress = auth.refresh_in_progress
      /\ auth'.active_operations = auth.active_operations
      /\ auth'.callback_active = auth.callback_active
      /\ auth'.callback_thread = auth.callback_thread
      /\ auth'.thread_joinable = auth.thread_joinable
      /\ auth'.device = auth.device
      /\ auth.session = NoSession => auth'.token = auth.token
  BY InvParts, ThreadKeepsChanges DEF Changes, Fields, PendingFields, Completes
<1>2. TypeOK'
  BY InvParts, <1>1 DEF TypeOK, ThreadKeeps, Moves, ThreadIs, Completes,
     ThreadStates
<1>3. UNCHANGED <<at, note, asked>>
  BY DEF ThreadKeeps, Completes, Moves, ThreadIs
<1>4. CountsAgree'
  <2>1. at' = at
    BY InvParts DEF ThreadKeeps, Completes, Moves, ThreadIs
  <2>2. QED
    BY InvParts, <1>1, <2>1 DEF CountsAgree
<1>5. GenerationsOld' /\ LateIsOld'
  BY InvParts, <1>1 DEF TypeOK, GenerationsOld, Counted, Refreshing, Working,
     ThreadKeeps, Completes, Moves, ThreadIs, LateIsOld
<1>6. OneLifecycle' /\ OneDestroyer'
  BY InvParts, <1>1 DEF TypeOK, OneLifecycle, InLifecycle, Lifecycle,
     ThreadKeeps, Completes, Moves, ThreadIs, OneDestroyer, Destroyer,
     Uncounted
<1>7. DeviceApart' /\ ThreadsHeld'
  BY InvParts, <1>1 DEF TypeOK, DeviceApart, Counted, ThreadKeeps, Completes,
     Moves, ThreadIs, ThreadsHeld
<1>8. FreedLast'
  BY InvParts, <1>1 DEF TypeOK, FreedLast, OneDestroyer, Destroyer, Lifecycle,
     ThreadKeeps, Completes, Moves, ThreadIs
<1>9. QED
  BY <1>2, <1>4, <1>5, <1>6, <1>7, <1>8 DEF IInv

\* PollExpired (device_poll) keeps the invariant.
LEMMA PollExpiredKeeps ==
  ASSUME IInv, NEW c \in Callers, PollExpired(c)
  PROVE  IInv'
<1>1. auth' = auth /\ auth' \in Auth
  BY InvParts DEF TypeOK, PollExpired, Goes, Answers, PollNames, Calls, Notes
<1>2. TypeOK'
  BY InvParts, CallsTyped, AnswersTyped, SupersededWithout, <1>1 DEF TypeOK,
     Results, Places, Counted, Refreshing, Lifecycle, Uncounted, Ops, Working,
     PollExpired, Goes, PollNames, Calls, Notes, Attachable
<1>3. CountsAgree'
  <2>1. /\ at' = [at EXCEPT ![c] = at'[c]]
        /\ (at[c] \in Counted <=> at'[c] \in Counted)
    BY InvParts DEF TypeOK, Results, Places, Counted, Refreshing, Lifecycle,
       Uncounted, Ops, Working, PollExpired, Goes, Answers, PollNames, Calls,
       Notes
  <2>2. auth'.active_operations = Cardinality({d \in Callers : at'[d] \in Counted})
    BY InvParts, <1>1, <2>1, CountedMoves DEF TypeOK, CountsAgree
  <2>3. /\ auth'.refresh_in_progress
           <=> \E d \in Callers : at'[d] \in Refreshing
        /\ \A d, e \in Callers :
             at'[d] \in Refreshing /\ at'[e] \in Refreshing => d = e
    BY InvParts, <1>1, <2>1 DEF TypeOK, CountsAgree, Refreshing, PollExpired,
       Goes, Answers, PollNames, Calls, Notes
  <2>4. QED
    BY <2>2, <2>3 DEF CountsAgree
<1>4. GenerationsOld' /\ LateIsOld'
  BY InvParts, <1>1, SupersededWithout DEF TypeOK, GenerationsOld, Counted,
     Refreshing, Working, PollExpired, Goes, PollNames, Calls, Notes, LateIsOld
<1>5. OneLifecycle' /\ OneDestroyer'
  BY InvParts, <1>1 DEF TypeOK, OneLifecycle, InLifecycle, Lifecycle,
     PollExpired, Goes, PollNames, Calls, OneDestroyer, Destroyer, Uncounted
<1>6. DeviceApart' /\ ThreadsHeld'
  BY InvParts, <1>1 DEF TypeOK, DeviceApart, Counted, PollExpired, Goes,
     PollNames, Calls, Notes, ThreadsHeld
<1>7. FreedLast'
  BY InvParts, <1>1 DEF TypeOK, FreedLast, OneDestroyer, Destroyer, Lifecycle,
     PollExpired, Goes, PollNames, Calls
<1>8. QED
  BY <1>2, <1>3, <1>4, <1>5, <1>6, <1>7 DEF IInv

\* TokenHeld (refresh_credentials) keeps the invariant.
LEMMA TokenHeldKeeps ==
  ASSUME IInv, NEW c \in Callers, TokenHeld(c)
  PROVE  IInv'
<1>1. auth' = auth /\ auth' \in Auth
  BY InvParts DEF TypeOK, TokenHeld, Calls, Answers, CanAsk
<1>2. TypeOK'
  BY InvParts, CallsTyped, AnswersTyped, <1>1 DEF TypeOK, Results, Places,
     Counted, Refreshing, Lifecycle, Uncounted, Ops, Working, TokenHeld,
     Calls, CanAsk, Attachable
<1>3. CountsAgree'
  <2>1. at' = at
    BY InvParts DEF TokenHeld, Calls, Answers, CanAsk
  <2>2. QED
    BY InvParts, <1>1, <2>1 DEF CountsAgree
<1>4. GenerationsOld' /\ LateIsOld'
  BY InvParts, <1>1 DEF TypeOK, GenerationsOld, Counted, Refreshing, Working,
     TokenHeld, Calls, CanAsk, LateIsOld
<1>5. OneLifecycle' /\ OneDestroyer'
  BY InvParts, <1>1 DEF TypeOK, OneLifecycle, InLifecycle, Lifecycle,
     TokenHeld, Calls, CanAsk, OneDestroyer, Destroyer, Uncounted
<1>6. DeviceApart' /\ ThreadsHeld'
  BY InvParts, <1>1 DEF TypeOK, DeviceApart, Counted, TokenHeld, Calls,
     CanAsk, ThreadsHeld
<1>7. FreedLast'
  BY InvParts, <1>1 DEF TypeOK, FreedLast, OneDestroyer, Destroyer, Lifecycle,
     TokenHeld, Calls, CanAsk
<1>8. QED
  BY <1>2, <1>3, <1>4, <1>5, <1>6, <1>7 DEF IInv

\* TokenWaits (refresh_credentials) keeps the invariant.
LEMMA TokenWaitsKeeps ==
  ASSUME IInv, NEW c \in Callers, TokenWaits(c)
  PROVE  IInv'
<1>1. auth' = auth /\ auth' \in Auth
  BY InvParts DEF TypeOK, TokenWaits, Calls, Goes, Notes, Answers, CanAsk
<1>2. TypeOK'
  BY InvParts, CallsTyped, AnswersTyped, <1>1 DEF TypeOK, Results, Places,
     Counted, Refreshing, Lifecycle, Uncounted, Ops, Working, TokenWaits,
     Calls, Goes, Notes, CanAsk, Attachable
<1>3. CountsAgree'
  <2>1. /\ at' = [at EXCEPT ![c] = at'[c]]
        /\ (at[c] \in Counted <=> at'[c] \in Counted)
    BY InvParts DEF TypeOK, Results, Places, Counted, Refreshing, Lifecycle,
       Uncounted, Ops, Working, TokenWaits, Calls, Goes, Notes, Answers, CanAsk
  <2>2. auth'.active_operations = Cardinality({d \in Callers : at'[d] \in Counted})
    BY InvParts, <1>1, <2>1, CountedMoves DEF TypeOK, CountsAgree
  <2>3. /\ auth'.refresh_in_progress
           <=> \E d \in Callers : at'[d] \in Refreshing
        /\ \A d, e \in Callers :
             at'[d] \in Refreshing /\ at'[e] \in Refreshing => d = e
    BY InvParts, <1>1, <2>1 DEF TypeOK, CountsAgree, Refreshing, TokenWaits,
       Calls, Goes, Notes, Answers, CanAsk
  <2>4. QED
    BY <2>2, <2>3 DEF CountsAgree
<1>4. GenerationsOld' /\ LateIsOld'
  BY InvParts, <1>1 DEF TypeOK, GenerationsOld, Counted, Refreshing, Working,
     TokenWaits, Calls, Goes, Notes, CanAsk, LateIsOld
<1>5. OneLifecycle' /\ OneDestroyer'
  BY InvParts, <1>1 DEF TypeOK, OneLifecycle, InLifecycle, Lifecycle,
     TokenWaits, Calls, Goes, CanAsk, OneDestroyer, Destroyer, Uncounted
<1>6. DeviceApart' /\ ThreadsHeld'
  BY InvParts, <1>1 DEF TypeOK, DeviceApart, Counted, TokenWaits, Calls, Goes,
     Notes, CanAsk, ThreadsHeld
<1>7. FreedLast'
  BY InvParts, <1>1 DEF TypeOK, FreedLast, OneDestroyer, Destroyer, Lifecycle,
     TokenWaits, Calls, Goes, CanAsk
<1>8. QED
  BY <1>2, <1>3, <1>4, <1>5, <1>6, <1>7 DEF IInv

\* Join (logout, _attach_session, _cancel_login, _destroy) keeps the invariant.
LEMMA JoinKeeps ==
  ASSUME IInv, NEW c \in Callers, Join(c)
  PROVE  IInv'
<1>1. auth' = auth /\ auth' \in Auth
  BY InvParts DEF TypeOK, Join, Goes, Joined
<1>2. TypeOK'
  BY InvParts, <1>1 DEF TypeOK, Results, Places, Counted, Refreshing,
     Lifecycle, Uncounted, Ops, Working, Join, Goes, Joined, Attachable
<1>3. CountsAgree'
  <2>1. /\ at' = [at EXCEPT ![c] = at'[c]]
        /\ (at[c] \in Counted <=> at'[c] \in Counted)
    BY InvParts DEF TypeOK, Results, Places, Counted, Refreshing, Lifecycle,
       Uncounted, Ops, Working, Join, Goes, Joined
  <2>2. auth'.active_operations = Cardinality({d \in Callers : at'[d] \in Counted})
    BY InvParts, <1>1, <2>1, CountedMoves DEF TypeOK, CountsAgree
  <2>3. /\ auth'.refresh_in_progress
           <=> \E d \in Callers : at'[d] \in Refreshing
        /\ \A d, e \in Callers :
             at'[d] \in Refreshing /\ at'[e] \in Refreshing => d = e
    BY InvParts, <1>1, <2>1 DEF TypeOK, CountsAgree, Refreshing, Join, Goes,
       Joined
  <2>4. QED
    BY <2>2, <2>3 DEF CountsAgree
<1>4. GenerationsOld' /\ LateIsOld'
  BY InvParts, <1>1 DEF TypeOK, GenerationsOld, Counted, Refreshing, Working,
     Join, Goes, Joined, LateIsOld
<1>5. OneLifecycle' /\ OneDestroyer'
  BY InvParts, <1>1 DEF TypeOK, OneLifecycle, InLifecycle, Lifecycle, Join,
     Goes, Joined, OneDestroyer, Destroyer, Uncounted
<1>6. DeviceApart' /\ ThreadsHeld'
  BY InvParts, <1>1 DEF TypeOK, DeviceApart, Counted, Join, Goes, Joined,
     ThreadsHeld
<1>7. FreedLast'
  BY InvParts, <1>1 DEF TypeOK, FreedLast, OneDestroyer, Destroyer, Lifecycle,
     Join, Goes, Joined
<1>8. QED
  BY <1>2, <1>3, <1>4, <1>5, <1>6, <1>7 DEF IInv

\* DrainSleeps (destroy) keeps the invariant.
LEMMA DrainSleepsKeeps ==
  ASSUME IInv, NEW c \in Callers, DrainSleeps(c)
  PROVE  IInv'
<1>1. auth' = auth /\ auth' \in Auth
  BY InvParts DEF TypeOK, DrainSleeps, Quiet
<1>2. TypeOK'
  BY InvParts, <1>1 DEF TypeOK, Results, Places, Counted, Refreshing,
     Lifecycle, Uncounted, Ops, Working, DrainSleeps, Quiet, Attachable
<1>3. CountsAgree'
  <2>1. at' = at
    BY InvParts DEF DrainSleeps, Quiet
  <2>2. QED
    BY InvParts, <1>1, <2>1 DEF CountsAgree
<1>4. GenerationsOld' /\ LateIsOld'
  BY InvParts, <1>1 DEF TypeOK, GenerationsOld, Counted, Refreshing, Working,
     DrainSleeps, Quiet, LateIsOld
<1>5. OneLifecycle' /\ OneDestroyer'
  BY InvParts, <1>1 DEF TypeOK, OneLifecycle, InLifecycle, Lifecycle,
     DrainSleeps, Quiet, OneDestroyer, Destroyer, Uncounted
<1>6. DeviceApart' /\ ThreadsHeld'
  BY InvParts, <1>1 DEF TypeOK, DeviceApart, Counted, DrainSleeps, Quiet,
     ThreadsHeld
<1>7. FreedLast'
  BY InvParts, <1>1 DEF TypeOK, FreedLast, OneDestroyer, Destroyer, Lifecycle,
     DrainSleeps, Quiet
<1>8. QED
  BY <1>2, <1>3, <1>4, <1>5, <1>6, <1>7 DEF IInv

\* LoginRefused (device_start) keeps the invariant.
LEMMA LoginRefusedKeeps ==
  ASSUME IInv, NEW c \in Callers, LoginRefused(c)
  PROVE  IInv'
<1>1. auth' = auth /\ auth' \in Auth
  BY InvParts DEF TypeOK, LoginRefused, Goes, Joined, CanLogin
<1>2. TypeOK'
  BY InvParts, <1>1 DEF TypeOK, Results, Places, Counted, Refreshing,
     Lifecycle, Uncounted, Ops, Working, LoginRefused, Goes, Joined, CanLogin,
     Attachable
<1>3. CountsAgree'
  <2>1. /\ at' = [at EXCEPT ![c] = at'[c]]
        /\ (at[c] \in Counted <=> at'[c] \in Counted)
    BY InvParts DEF TypeOK, Results, Places, Counted, Refreshing, Lifecycle,
       Uncounted, Ops, Working, LoginRefused, Goes, Joined, CanLogin
  <2>2. auth'.active_operations = Cardinality({d \in Callers : at'[d] \in Counted})
    BY InvParts, <1>1, <2>1, CountedMoves DEF TypeOK, CountsAgree
  <2>3. /\ auth'.refresh_in_progress
           <=> \E d \in Callers : at'[d] \in Refreshing
        /\ \A d, e \in Callers :
             at'[d] \in Refreshing /\ at'[e] \in Refreshing => d = e
    BY InvParts, <1>1, <2>1 DEF TypeOK, CountsAgree, Refreshing, LoginRefused,
       Goes, Joined, CanLogin
  <2>4. QED
    BY <2>2, <2>3 DEF CountsAgree
<1>4. GenerationsOld' /\ LateIsOld'
  BY InvParts, <1>1 DEF TypeOK, GenerationsOld, Counted, Refreshing, Working,
     LoginRefused, Goes, Joined, CanLogin, LateIsOld
<1>5. OneLifecycle' /\ OneDestroyer'
  BY InvParts, <1>1 DEF TypeOK, OneLifecycle, InLifecycle, Lifecycle,
     LoginRefused, Goes, Joined, CanLogin, OneDestroyer, Destroyer, Uncounted
<1>6. DeviceApart' /\ ThreadsHeld'
  BY InvParts, <1>1 DEF TypeOK, DeviceApart, Counted, LoginRefused, Goes,
     Joined, CanLogin, ThreadsHeld
<1>7. FreedLast'
  BY InvParts, <1>1 DEF TypeOK, FreedLast, OneDestroyer, Destroyer, Lifecycle,
     LoginRefused, Goes, Joined, CanLogin
<1>8. QED
  BY <1>2, <1>3, <1>4, <1>5, <1>6, <1>7 DEF IInv

\* StartSleeps (start) keeps the invariant.
LEMMA StartSleepsKeeps ==
  ASSUME IInv, NEW c \in Callers, StartSleeps(c)
  PROVE  IInv'
<1>1. auth' = auth /\ auth' \in Auth
  BY InvParts DEF TypeOK, StartSleeps
<1>2. TypeOK'
  BY InvParts, <1>1 DEF TypeOK, Results, Places, Counted, Refreshing,
     Lifecycle, Uncounted, Ops, Working, StartSleeps, Attachable
<1>3. CountsAgree'
  <2>1. at' = at
    BY InvParts DEF StartSleeps
  <2>2. QED
    BY InvParts, <1>1, <2>1 DEF CountsAgree
<1>4. GenerationsOld' /\ LateIsOld'
  BY InvParts, <1>1 DEF TypeOK, GenerationsOld, Counted, Refreshing, Working,
     StartSleeps, LateIsOld
<1>5. OneLifecycle' /\ OneDestroyer'
  BY InvParts, <1>1 DEF TypeOK, OneLifecycle, InLifecycle, Lifecycle,
     StartSleeps, OneDestroyer, Destroyer, Uncounted
<1>6. DeviceApart' /\ ThreadsHeld'
  BY InvParts, <1>1 DEF TypeOK, DeviceApart, Counted, StartSleeps, ThreadsHeld
<1>7. FreedLast'
  BY InvParts, <1>1 DEF TypeOK, FreedLast, OneDestroyer, Destroyer, Lifecycle,
     StartSleeps
<1>8. QED
  BY <1>2, <1>3, <1>4, <1>5, <1>6, <1>7 DEF IInv

\* PollAnswered (device_poll) keeps the invariant.
LEMMA PollAnsweredKeeps ==
  ASSUME IInv, NEW c \in Callers, PollAnswered(c)
  PROVE  IInv'
<1>1. auth' = auth /\ auth' \in Auth
  BY InvParts DEF TypeOK, PollAnswered, StillActive, Goes, Answers
<1>2. TypeOK'
  <2>1. at' \in [Callers -> Places] /\ note' \in [Callers -> Nat]
    BY InvParts DEF TypeOK, Results, Places, Counted, Refreshing, Lifecycle,
       Uncounted, Ops, Working, PollAnswered, Goes
  <2>2. /\ asked' \in [Callers -> [op : Ops, with : Attachable]]
        /\ calls' \in 0..MaxCalls
    BY InvParts DEF TypeOK, Ops, Attachable, PollAnswered, StillActive, Goes
  <2>3. returned' \in [Callers -> [result : Results, token : Nat]]
    BY InvParts, AnswersTyped DEF TypeOK, Results, PollAnswered, StillActive,
       Goes
  <2>4. vault' \in [Sessions -> Nat] /\ issued' \in Nat
    BY InvParts DEF TypeOK, Attachable, PollAnswered, StillActive, Goes
  <2>5. /\ DOMAIN threads' \subseteq Nat
        /\ threads' \in [DOMAIN threads' -> ThreadStates]
    BY InvParts DEF TypeOK, ThreadStates, PollAnswered, StillActive, Goes
  <2>6. /\ asleep' \subseteq Callers
        /\ superseded' \in [calls : SUBSET Callers, threads : SUBSET Nat]
    BY InvParts DEF TypeOK, PollAnswered, StillActive, Goes
  <2>7. QED
    BY <1>1, <2>1, <2>2, <2>3, <2>4, <2>5, <2>6 DEF TypeOK
<1>3. CountsAgree'
  <2>1. /\ at' = [at EXCEPT ![c] = at'[c]]
        /\ (at[c] \in Counted <=> at'[c] \in Counted)
    <3>1. /\ at[c] = "polling"
          /\ \E p \in {"releasing", "closing", "trading"} : Goes(c, p)
      BY DEF PollAnswered
    <3>2. QED
      BY InvParts, <3>1 DEF TypeOK, Goes, Counted
  <2>2. auth'.active_operations = Cardinality({d \in Callers : at'[d] \in Counted})
    BY InvParts, <1>1, <2>1, CountedMoves DEF TypeOK, CountsAgree
  <2>3. /\ auth'.refresh_in_progress
           <=> \E d \in Callers : at'[d] \in Refreshing
        /\ \A d, e \in Callers :
             at'[d] \in Refreshing /\ at'[e] \in Refreshing => d = e
    <3>1. /\ at[c] = "polling"
          /\ \E p \in {"releasing", "closing", "trading"} : Goes(c, p)
      BY DEF PollAnswered
    <3>2. at[c] \notin Refreshing /\ at'[c] \notin Refreshing
      BY InvParts, <3>1 DEF TypeOK, Goes, Refreshing
    <3>3. QED
      BY InvParts, <1>1, <2>1, <3>2 DEF TypeOK, CountsAgree
  <2>4. QED
    BY <2>2, <2>3 DEF CountsAgree
<1>4. GenerationsOld' /\ LateIsOld'
  BY InvParts, <1>1 DEF TypeOK, GenerationsOld, Counted, Refreshing, Working,
     PollAnswered, Goes, LateIsOld
<1>5. OneLifecycle' /\ OneDestroyer'
  BY InvParts, <1>1 DEF TypeOK, OneLifecycle, InLifecycle, Lifecycle,
     PollAnswered, Goes, OneDestroyer, Destroyer, Uncounted
<1>6. DeviceApart'
  BY InvParts, <1>1 DEF TypeOK, DeviceApart, Counted, PollAnswered, Goes
<1>7. ThreadsHeld'
  <2>1. UNCHANGED <<threads, note>>
    BY DEF PollAnswered, StillActive, Goes, Answers
  <2>2. \A d \in Callers : at[d] \in {"join", "unready"} => at'[d] = at[d]
    BY InvParts DEF TypeOK, PollAnswered, StillActive, Goes, Answers
  <2>3. QED
    BY InvParts, <1>1, <2>1, <2>2 DEF ThreadsHeld
<1>8. FreedLast'
  BY InvParts, <1>1 DEF TypeOK, FreedLast, OneDestroyer, Destroyer, Lifecycle,
     PollAnswered, Goes
<1>9. QED
  BY <1>2, <1>3, <1>4, <1>5, <1>6, <1>7, <1>8 DEF IInv

\* PollTrades (device_poll) keeps the invariant.
LEMMA PollTradesKeeps ==
  ASSUME IInv, NEW c \in Callers, PollTrades(c)
  PROVE  IInv'
<1>1. auth' = auth /\ auth' \in Auth
  BY InvParts DEF TypeOK, PollTrades, StillActive, Goes, Answers
<1>2. TypeOK'
  <2>1. at' \in [Callers -> Places] /\ note' \in [Callers -> Nat]
    BY InvParts DEF TypeOK, Results, Places, Counted, Refreshing, Lifecycle,
       Uncounted, Ops, Working, PollTrades, Goes
  <2>2. /\ asked' \in [Callers -> [op : Ops, with : Attachable]]
        /\ calls' \in 0..MaxCalls
    BY InvParts DEF TypeOK, Ops, Attachable, PollTrades, StillActive, Goes
  <2>3. returned' \in [Callers -> [result : Results, token : Nat]]
    BY InvParts, AnswersTyped DEF TypeOK, Results, PollTrades, StillActive,
       Goes
  <2>4. vault' \in [Sessions -> Nat] /\ issued' \in Nat
    BY InvParts DEF TypeOK, Attachable, PollTrades, StillActive, Goes
  <2>5. /\ DOMAIN threads' \subseteq Nat
        /\ threads' \in [DOMAIN threads' -> ThreadStates]
    BY InvParts DEF TypeOK, ThreadStates, PollTrades, StillActive, Goes
  <2>6. /\ asleep' \subseteq Callers
        /\ superseded' \in [calls : SUBSET Callers, threads : SUBSET Nat]
    BY InvParts DEF TypeOK, PollTrades, StillActive, Goes
  <2>7. QED
    BY <1>1, <2>1, <2>2, <2>3, <2>4, <2>5, <2>6 DEF TypeOK
<1>3. CountsAgree'
  <2>1. /\ at' = [at EXCEPT ![c] = at'[c]]
        /\ (at[c] \in Counted <=> at'[c] \in Counted)
    BY InvParts DEF TypeOK, Results, Places, Counted, Refreshing, Lifecycle,
       Uncounted, Ops, Working, PollTrades, StillActive, Goes, Answers
  <2>2. auth'.active_operations = Cardinality({d \in Callers : at'[d] \in Counted})
    BY InvParts, <1>1, <2>1, CountedMoves DEF TypeOK, CountsAgree
  <2>3. /\ auth'.refresh_in_progress
           <=> \E d \in Callers : at'[d] \in Refreshing
        /\ \A d, e \in Callers :
             at'[d] \in Refreshing /\ at'[e] \in Refreshing => d = e
    BY InvParts, <1>1, <2>1 DEF TypeOK, CountsAgree, Refreshing, PollTrades,
       StillActive, Goes, Answers
  <2>4. QED
    BY <2>2, <2>3 DEF CountsAgree
<1>4. GenerationsOld' /\ LateIsOld'
  BY InvParts, <1>1 DEF TypeOK, GenerationsOld, Counted, Refreshing, Working,
     PollTrades, Goes, LateIsOld
<1>5. OneLifecycle' /\ OneDestroyer'
  BY InvParts, <1>1 DEF TypeOK, OneLifecycle, InLifecycle, Lifecycle,
     PollTrades, Goes, OneDestroyer, Destroyer, Uncounted
<1>6. DeviceApart' /\ ThreadsHeld'
  BY InvParts, <1>1 DEF TypeOK, DeviceApart, Counted, PollTrades, Goes,
     ThreadsHeld
<1>7. FreedLast'
  BY InvParts, <1>1 DEF TypeOK, FreedLast, OneDestroyer, Destroyer, Lifecycle,
     PollTrades, Goes
<1>8. QED
  BY <1>2, <1>3, <1>4, <1>5, <1>6, <1>7 DEF IInv

\* WaiterWakes (refresh_credentials) keeps the invariant.
LEMMA WaiterWakesKeeps ==
  ASSUME IInv, NEW c \in Callers, WaiterWakes(c)
  PROVE  IInv'
<1>1. auth' = auth /\ auth' \in Auth
  BY InvParts DEF TypeOK, WaiterWakes, Goes, Answers, CanAsk
<1>2. TypeOK'
  <2>1. at' \in [Callers -> Places] /\ note' \in [Callers -> Nat]
    BY InvParts DEF TypeOK, Results, Places, Counted, Refreshing, Lifecycle,
       Uncounted, Ops, Working, WaiterWakes, Goes, CanAsk
  <2>2. /\ asked' \in [Callers -> [op : Ops, with : Attachable]]
        /\ calls' \in 0..MaxCalls
    BY InvParts DEF TypeOK, Ops, Attachable, WaiterWakes, Goes, CanAsk
  <2>3. returned' \in [Callers -> [result : Results, token : Nat]]
    <3>1. \/ UNCHANGED returned
          \/ \E r \in Results, t \in Nat : Answers(c, r, t)
      BY InvParts DEF WaiterWakes, Results
    <3>2. QED
      BY InvParts, <3>1, AnswersTyped DEF TypeOK
  <2>4. vault' \in [Sessions -> Nat] /\ issued' \in Nat
    BY InvParts DEF TypeOK, Attachable, WaiterWakes, Goes, CanAsk
  <2>5. /\ DOMAIN threads' \subseteq Nat
        /\ threads' \in [DOMAIN threads' -> ThreadStates]
    BY InvParts DEF TypeOK, ThreadStates, WaiterWakes, Goes, CanAsk
  <2>6. /\ asleep' \subseteq Callers
        /\ superseded' \in [calls : SUBSET Callers, threads : SUBSET Nat]
    BY InvParts DEF TypeOK, WaiterWakes, Goes, CanAsk
  <2>7. QED
    BY <1>1, <2>1, <2>2, <2>3, <2>4, <2>5, <2>6 DEF TypeOK
<1>3. CountsAgree'
  <2>1. /\ at' = [at EXCEPT ![c] = at'[c]]
        /\ (at[c] \in Counted <=> at'[c] \in Counted)
    BY InvParts DEF TypeOK, Results, Places, Counted, Refreshing, Lifecycle,
       Uncounted, Ops, Working, WaiterWakes, Goes, Answers, CanAsk
  <2>2. auth'.active_operations = Cardinality({d \in Callers : at'[d] \in Counted})
    BY InvParts, <1>1, <2>1, CountedMoves DEF TypeOK, CountsAgree
  <2>3. /\ auth'.refresh_in_progress
           <=> \E d \in Callers : at'[d] \in Refreshing
        /\ \A d, e \in Callers :
             at'[d] \in Refreshing /\ at'[e] \in Refreshing => d = e
    BY InvParts, <1>1, <2>1 DEF TypeOK, CountsAgree, Refreshing, WaiterWakes,
       Goes, Answers, CanAsk
  <2>4. QED
    BY <2>2, <2>3 DEF CountsAgree
<1>4. GenerationsOld' /\ LateIsOld'
  BY InvParts, <1>1 DEF TypeOK, GenerationsOld, Counted, Refreshing, Working,
     WaiterWakes, Goes, CanAsk, LateIsOld
<1>5. OneLifecycle' /\ OneDestroyer'
  BY InvParts, <1>1 DEF TypeOK, OneLifecycle, InLifecycle, Lifecycle,
     WaiterWakes, Goes, CanAsk, OneDestroyer, Destroyer, Uncounted
<1>6. DeviceApart'
  BY InvParts, <1>1 DEF TypeOK, DeviceApart, Counted, WaiterWakes, Goes, CanAsk
<1>7. ThreadsHeld'
  <2>1. UNCHANGED <<threads, note>>
    BY DEF WaiterWakes, Goes, Answers, CanAsk
  <2>2. \A d \in Callers : at[d] \in {"join", "unready"} => at'[d] = at[d]
    BY InvParts DEF TypeOK, WaiterWakes, Goes, Answers, CanAsk
  <2>3. QED
    BY InvParts, <1>1, <2>1, <2>2 DEF ThreadsHeld
<1>8. FreedLast'
  BY InvParts, <1>1 DEF TypeOK, FreedLast, OneDestroyer, Destroyer, Lifecycle,
     WaiterWakes, Goes, CanAsk
<1>9. QED
  BY <1>2, <1>3, <1>4, <1>5, <1>6, <1>7, <1>8 DEF IInv

\* RefreshAnswered (classify_exchange) keeps the invariant.
LEMMA RefreshAnsweredKeeps ==
  ASSUME IInv, NEW c \in Callers, RefreshAnswered(c)
  PROVE  IInv'
<1>1. auth' = auth /\ auth' \in Auth
  BY InvParts DEF TypeOK, RefreshAnswered, StillActive, Goes
<1>2. TypeOK'
  <2>1. at' \in [Callers -> Places] /\ note' \in [Callers -> Nat]
    BY InvParts DEF TypeOK, Results, Places, Counted, Refreshing, Lifecycle,
       Uncounted, Ops, Working, RefreshAnswered, Goes
  <2>2. /\ asked' \in [Callers -> [op : Ops, with : Attachable]]
        /\ calls' \in 0..MaxCalls
    BY InvParts DEF TypeOK, Ops, Attachable, RefreshAnswered, StillActive, Goes
  <2>3. returned' \in [Callers -> [result : Results, token : Nat]]
    BY InvParts DEF TypeOK, Results, RefreshAnswered, StillActive, Goes
  <2>4. vault' \in [Sessions -> Nat] /\ issued' \in Nat
    BY InvParts DEF TypeOK, Attachable, RefreshAnswered, StillActive, Goes
  <2>5. /\ DOMAIN threads' \subseteq Nat
        /\ threads' \in [DOMAIN threads' -> ThreadStates]
    BY InvParts DEF TypeOK, ThreadStates, RefreshAnswered, StillActive, Goes
  <2>6. /\ asleep' \subseteq Callers
        /\ superseded' \in [calls : SUBSET Callers, threads : SUBSET Nat]
    BY InvParts DEF TypeOK, RefreshAnswered, StillActive, Goes
  <2>7. QED
    BY <1>1, <2>1, <2>2, <2>3, <2>4, <2>5, <2>6 DEF TypeOK
<1>3. CountsAgree'
  <2>1. /\ at' = [at EXCEPT ![c] = at'[c]]
        /\ (at[c] \in Counted <=> at'[c] \in Counted)
    BY InvParts DEF TypeOK, Results, Places, Counted, Refreshing, Lifecycle,
       Uncounted, Ops, Working, RefreshAnswered, StillActive, Goes
  <2>2. auth'.active_operations = Cardinality({d \in Callers : at'[d] \in Counted})
    BY InvParts, <1>1, <2>1, CountedMoves DEF TypeOK, CountsAgree
  <2>3. /\ auth'.refresh_in_progress
           <=> \E d \in Callers : at'[d] \in Refreshing
        /\ \A d, e \in Callers :
             at'[d] \in Refreshing /\ at'[e] \in Refreshing => d = e
    BY InvParts, <1>1, <2>1 DEF TypeOK, CountsAgree, Refreshing,
       RefreshAnswered, StillActive, Goes
  <2>4. QED
    BY <2>2, <2>3 DEF CountsAgree
<1>4. GenerationsOld' /\ LateIsOld'
  BY InvParts, <1>1 DEF TypeOK, GenerationsOld, Counted, Refreshing, Working,
     RefreshAnswered, Goes, LateIsOld
<1>5. OneLifecycle' /\ OneDestroyer'
  BY InvParts, <1>1 DEF TypeOK, OneLifecycle, InLifecycle, Lifecycle,
     RefreshAnswered, Goes, OneDestroyer, Destroyer, Uncounted
<1>6. DeviceApart'
  BY InvParts, <1>1 DEF TypeOK, DeviceApart, Counted, RefreshAnswered, Goes
<1>7. ThreadsHeld'
  BY InvParts, <1>1 DEF TypeOK, ThreadsHeld, RefreshAnswered, Goes
<1>8. FreedLast'
  BY InvParts, <1>1 DEF TypeOK, FreedLast, OneDestroyer, Destroyer, Lifecycle,
     RefreshAnswered, Goes
<1>9. QED
  BY <1>2, <1>3, <1>4, <1>5, <1>6, <1>7, <1>8 DEF IInv

\* Spurious (refresh_credentials) keeps the invariant.
LEMMA SpuriousKeeps ==
  ASSUME IInv, NEW c \in Callers, Spurious(c)
  PROVE  IInv'
<1>1. auth' = auth /\ auth' \in Auth
  BY InvParts DEF TypeOK, Spurious
<1>2. TypeOK'
  BY InvParts, <1>1 DEF TypeOK, Results, Places, Counted, Refreshing,
     Lifecycle, Uncounted, Ops, Working, Spurious, Attachable
<1>3. CountsAgree'
  <2>1. at' = at
    BY InvParts DEF Spurious
  <2>2. QED
    BY InvParts, <1>1, <2>1 DEF CountsAgree
<1>4. GenerationsOld' /\ LateIsOld'
  BY InvParts, <1>1 DEF TypeOK, GenerationsOld, Counted, Refreshing, Working,
     Spurious, LateIsOld
<1>5. OneLifecycle' /\ OneDestroyer'
  BY InvParts, <1>1 DEF TypeOK, OneLifecycle, InLifecycle, Lifecycle,
     Spurious, OneDestroyer, Destroyer, Uncounted
<1>6. DeviceApart' /\ ThreadsHeld'
  BY InvParts, <1>1 DEF TypeOK, DeviceApart, Counted, Spurious, ThreadsHeld
<1>7. FreedLast'
  BY InvParts, <1>1 DEF TypeOK, FreedLast, OneDestroyer, Destroyer, Lifecycle,
     Spurious
<1>8. QED
  BY <1>2, <1>3, <1>4, <1>5, <1>6, <1>7 DEF IInv

\* ThreadLeaves (wait_for_callback_client) keeps the invariant.
LEMMA ThreadLeavesKeeps ==
  ASSUME IInv, NEW g \in DOMAIN threads, ThreadLeaves(g)
  PROVE  IInv'
<1>1. auth' = auth /\ auth' \in Auth
  BY InvParts DEF TypeOK, ThreadLeaves, Moves, ThreadIs
<1>2. TypeOK'
  BY InvParts, <1>1 DEF TypeOK, ThreadLeaves, Moves, ThreadIs, ThreadStates
<1>3. UNCHANGED <<at, note, asked>>
  BY DEF ThreadLeaves, Moves, ThreadIs
<1>4. CountsAgree'
  <2>1. at' = at
    BY InvParts DEF ThreadLeaves, Moves, ThreadIs
  <2>2. QED
    BY InvParts, <1>1, <2>1 DEF CountsAgree
<1>5. GenerationsOld' /\ LateIsOld'
  BY InvParts, <1>1 DEF TypeOK, GenerationsOld, Counted, Refreshing, Working,
     ThreadLeaves, Moves, ThreadIs, LateIsOld
<1>6. OneLifecycle' /\ OneDestroyer'
  BY InvParts, <1>1 DEF TypeOK, OneLifecycle, InLifecycle, Lifecycle,
     ThreadLeaves, Moves, ThreadIs, OneDestroyer, Destroyer, Uncounted
<1>7. DeviceApart' /\ ThreadsHeld'
  BY InvParts, <1>1 DEF TypeOK, DeviceApart, Counted, ThreadLeaves, Moves,
     ThreadIs, ThreadsHeld
<1>8. FreedLast'
  BY InvParts, <1>1 DEF TypeOK, FreedLast, OneDestroyer, Destroyer, Lifecycle,
     ThreadLeaves, Moves, ThreadIs
<1>9. QED
  BY <1>2, <1>4, <1>5, <1>6, <1>7, <1>8 DEF IInv

\* ThreadTrades (exchange_token) keeps the invariant.
LEMMA ThreadTradesKeeps ==
  ASSUME IInv, NEW g \in DOMAIN threads, ThreadTrades(g)
  PROVE  IInv'
<1>1. auth' = auth /\ auth' \in Auth
  BY InvParts DEF TypeOK, ThreadTrades, StillActive, Moves, ThreadIs
<1>2. TypeOK'
  BY InvParts, <1>1 DEF TypeOK, ThreadTrades, Moves, ThreadIs, ThreadStates
<1>3. UNCHANGED <<at, note, asked>>
  BY DEF ThreadTrades, StillActive, Moves, ThreadIs
<1>4. CountsAgree'
  <2>1. at' = at
    BY InvParts DEF ThreadTrades, StillActive, Moves, ThreadIs
  <2>2. QED
    BY InvParts, <1>1, <2>1 DEF CountsAgree
<1>5. GenerationsOld' /\ LateIsOld'
  BY InvParts, <1>1 DEF TypeOK, GenerationsOld, Counted, Refreshing, Working,
     ThreadTrades, Moves, ThreadIs, LateIsOld
<1>6. OneLifecycle' /\ OneDestroyer'
  BY InvParts, <1>1 DEF TypeOK, OneLifecycle, InLifecycle, Lifecycle,
     ThreadTrades, Moves, ThreadIs, OneDestroyer, Destroyer, Uncounted
<1>7. DeviceApart' /\ ThreadsHeld'
  BY InvParts, <1>1 DEF TypeOK, DeviceApart, Counted, ThreadTrades, Moves,
     ThreadIs, ThreadsHeld
<1>8. FreedLast'
  BY InvParts, <1>1 DEF TypeOK, FreedLast, OneDestroyer, Destroyer, Lifecycle,
     ThreadTrades, Moves, ThreadIs
<1>9. QED
  BY <1>2, <1>4, <1>5, <1>6, <1>7, <1>8 DEF IInv

-----------------------------------------------------------------------------
(* The theorems                                                            *)

\* The invariant holds after openai_oauth_create and the first attach.
LEMMA InitHolds == Init => IInv
<1> SUFFICES ASSUME Init PROVE IInv
  OBVIOUS
<1>1. PICK s \in Attachable :
        auth = [session |-> s, generation |-> 0,
                token |-> IF s = NoSession THEN 0 ELSE vault[s],
                token_version |-> 0, stop_requested |-> FALSE,
                destroying |-> FALSE, lifecycle_busy |-> FALSE,
                refresh_in_progress |-> FALSE, active_operations |-> 0,
                last_refresh_result |-> "signed_out",
                callback_active |-> FALSE, callback_ready |-> FALSE,
                callback_ok |-> FALSE, callback_thread |-> 0,
                thread_joinable |-> FALSE, login_id |-> 0, state |-> 0,
                device |-> 0, device_poll_in_progress |-> FALSE]
  BY DEF Init
<1>2. (IF s = NoSession THEN 0 ELSE vault[s]) \in Nat
  BY DEF Init, Attachable
<1>3. /\ auth \in Auth /\ auth.generation = 0 /\ auth.callback_thread = 0
      /\ ~auth.destroying /\ ~auth.refresh_in_progress
      /\ auth.active_operations = 0 /\ auth.device = 0
  BY <1>1, <1>2 DEF Auth, Results
<1>4. /\ \A c \in Callers : at[c] = "idle"
      /\ DOMAIN threads = {}
      /\ superseded.calls = {} /\ superseded.threads = {}
  BY DEF Init
<1>5. TypeOK
  <2>1. asked \in [Callers -> [op : Ops, with : Attachable]]
    BY DEF Init, Ops, Attachable
  <2>2. returned \in [Callers -> [result : Results, token : Nat]]
    BY DEF Init, NoAnswer, Results
  <2>3. /\ vault \in [Sessions -> Nat] /\ issued \in Nat
        /\ DOMAIN threads \subseteq Nat
        /\ threads \in [DOMAIN threads -> ThreadStates]
        /\ at \in [Callers -> Places] /\ note \in [Callers -> Nat]
        /\ asleep \subseteq Callers
        /\ superseded \in [calls : SUBSET Callers, threads : SUBSET Nat]
        /\ calls \in 0..MaxCalls
    BY MaxCallsAssumption DEF Init, Places
  <2>4. QED
    BY <1>3, <2>1, <2>2, <2>3 DEF TypeOK
<1>6. CountsAgree
  <2>1. {c \in Callers : at[c] \in Counted} = {}
    BY <1>4 DEF Counted
  <2>2. QED
    BY <1>3, <1>4, <2>1, FS_EmptySet DEF CountsAgree, Refreshing
<1>7. GenerationsOld /\ LateIsOld
  BY <1>3, <1>4 DEF GenerationsOld, LateIsOld, Working, Counted, Refreshing
<1>8. OneLifecycle /\ OneDestroyer
  BY <1>3, <1>4 DEF OneLifecycle, OneDestroyer, InLifecycle, Destroyer,
     Lifecycle
<1>9. DeviceApart /\ ThreadsHeld /\ FreedLast
  BY <1>3, <1>4 DEF DeviceApart, ThreadsHeld, FreedLast, Counted
<1>10. QED
  BY <1>5, <1>6, <1>7, <1>8, <1>9 DEF IInv

\* A step that changes nothing of the manager keeps the invariant.
LEMMA StutterKeeps == IInv /\ UNCHANGED vars => IInv'
BY DEF IInv, vars, TypeOK, CountsAgree, GenerationsOld, LateIsOld,
   OneLifecycle,
       OneDestroyer, DeviceApart, ThreadsHeld, FreedLast, InLifecycle,
          Destroyer

\* Every step of the manager keeps the invariant: one case per critical section of
\* openai_oauth.c, oauth_callback.c and oauth_device.c.
LEMMA NextKeeps == IInv /\ [Next]_vars => IInv'
<1> SUFFICES ASSUME IInv, [Next]_vars PROVE IInv'
  OBVIOUS
<1>1. CASE UNCHANGED vars
  BY <1>1, StutterKeeps
<1>2. ASSUME NEW c \in Callers, Calling(c) PROVE IInv'
  BY <1>2, BeginLifecycleKeeps, BeginDestroyKeeps, ReapKeeps, PollBeginsKeeps,
     PollExpiredKeeps, TokenHeldKeeps, TokenWaitsKeeps, RefreshBeginsKeeps
     DEF Calling, Attachable
<1>3. ASSUME NEW c \in Callers, Going(c) PROVE IInv'
  BY <1>3, JoinKeeps, DrainSleepsKeeps, AttachClosesKeeps, AttachLoadsKeeps,
     CancelEndsKeeps, LogoutEndsKeeps, DestroyEndsKeeps, LoginRefusedKeeps,
     StartSpawnsKeeps, StartUnspawnedKeeps, StartSleepsKeeps, StartReadyKeeps,
     StartFailsKeeps, DeviceAsksKeeps, DeviceAnsweredKeeps, DeviceRefusedKeeps,
     OperationFinishesKeeps, PollAnsweredKeeps, PollTradesKeeps,
        PollKeepsKeeps,
     PollClosesKeeps, PollReleasesKeeps, WaiterWakesKeeps,
        RefreshAnsweredKeeps,
     RefreshLostKeeps, RefreshGrantedKeeps, RefreshRejectedKeeps DEF Going
<1>4. ASSUME NEW c \in Callers, Spurious(c) PROVE IInv'
  BY <1>4, SpuriousKeeps
<1>5. ASSUME NEW g \in DOMAIN threads, ThreadGoes(g) PROVE IInv'
  BY <1>5, ThreadBindsKeeps, ThreadLeavesKeeps, ThreadAcceptsKeeps,
     ThreadTradesKeeps, ThreadKeepsKeeps, ThreadFinishesKeeps DEF ThreadGoes
<1>6. QED
  BY <1>1, <1>2, <1>3, <1>4, <1>5 DEF Next

\* The inductive invariant of the OAuth manager (openai_oauth.c) holds always.
THEOREM InvariantHolds == Spec => []IInv
<1>1. Init => IInv
  BY InitHolds
<1>2. IInv /\ [Next]_vars => IInv'
  BY NextKeeps
<1>3. QED
  BY <1>1, <1>2, PTL DEF Spec

\* The type invariant, the counters and the order of destroy (openai_oauth.c:68)
\* hold for every number of callers, sessions and calls.
THEOREM ManagerIsSound == Spec => []ManagerSound
<1>1. IInv => ManagerSound
  BY DEF IInv, ManagerSound
<1>2. QED
  BY <1>1, InvariantHolds, PTL

\* A new token comes in by one poll, refresh or callback thread, whose generation is
\* the manager's (complete_callback_tokens, refresh_credentials).
LEMMA BringsIn ==
  ASSUME IInv, [Next]_vars, issued' # issued
  PROVE  \/ \E c \in Callers : /\ at[c] \in Working
                               /\ auth.generation = note[c]
                               /\ at' = [at EXCEPT ![c] = at'[c]]
                               /\ UNCHANGED threads
         \/ \E g \in DOMAIN threads : /\ auth.generation = g
                                      /\ threads' = [threads EXCEPT ![g] = "ending"]
                                      /\ UNCHANGED at
<1>1. ASSUME NEW c \in Callers, Calling(c) PROVE FALSE
  BY <1>1 DEF Calling, BeginLifecycle, BeginDestroy, Reap, PollBegins,
     PollExpired,
     PollNames, TokenHeld, TokenWaits, RefreshBegins
<1>2. ASSUME NEW c \in Callers, Going(c) PROVE PollKeeps(c)
      \/ RefreshGranted(c)
  BY <1>2 DEF Going, Join, DrainSleeps, AttachCloses, AttachLoads, CancelEnds,
     LogoutEnds, DestroyEnds, LoginRefused, StartSpawns, StartUnspawned,
     StartSleeps, StartReady, StartFails, DeviceAsks, DeviceAnswered,
     DeviceRefused, OperationFinishes, PollAnswered, PollTrades, PollCloses,
     PollReleases, WaiterWakes, RefreshAnswered, RefreshLost, RefreshRejected
<1>3. ASSUME NEW c \in Callers, Spurious(c) PROVE FALSE
  BY <1>3 DEF Spurious
<1>4. ASSUME NEW g \in DOMAIN threads, ThreadGoes(g) PROVE ThreadKeeps(g)
  BY <1>4 DEF ThreadGoes, ThreadBinds, ThreadLeaves, ThreadAccepts,
     ThreadTrades,
     ThreadFinishes
<1>5. ASSUME NEW c \in Callers, PollKeeps(c)
      PROVE  /\ at[c] \in Working /\ auth.generation = note[c]
             /\ at' = [at EXCEPT ![c] = at'[c]] /\ UNCHANGED threads
  BY <1>5, InvParts DEF PollKeeps, Completes, Working, Counted, Goes, TypeOK
<1>6. ASSUME NEW c \in Callers, RefreshGranted(c)
      PROVE  /\ at[c] \in Working /\ auth.generation = note[c]
             /\ at' = [at EXCEPT ![c] = at'[c]] /\ UNCHANGED threads
  <2>1. at[c] = "granted" /\ StillActive(note[c])
    BY <1>6 DEF RefreshGranted
  <2>2. Goes(c, "idle") /\ UNCHANGED threads
    BY <1>6 DEF RefreshGranted, RefreshOver
  <2>3. QED
    BY <2>1, <2>2, InvParts DEF StillActive, Working, Refreshing, Goes, TypeOK
<1>7. ASSUME NEW g \in DOMAIN threads, ThreadKeeps(g)
      PROVE  /\ auth.generation = g /\ UNCHANGED at
             /\ threads' = [threads EXCEPT ![g] = "ending"]
  BY <1>7 DEF ThreadKeeps, Completes, Moves
<1>8. QED
  BY <1>1, <1>2, <1>3, <1>4, <1>5, <1>6, <1>7 DEF Next, vars

\* No call and no thread that was at work when a later login or lifecycle call began
\* brings its token in (complete_callback_tokens compares generations).
THEOREM LateAnswersDropped == Spec => NoLateSignIn
<1>1. IInv /\ [Next]_vars =>
        [issued' # issued =>
           /\ \A c \in superseded.calls : at'[c] = at[c]
           /\ \A g \in superseded.threads \cap DOMAIN threads :
                g \in DOMAIN threads' /\ threads'[g] = threads[g]]_vars
  <2> SUFFICES ASSUME IInv, [Next]_vars, issued' # issued
               PROVE  /\ \A c \in superseded.calls : at'[c] = at[c]
                      /\ \A g \in superseded.threads \cap DOMAIN threads :
                           g \in DOMAIN threads' /\ threads'[g] = threads[g]
    OBVIOUS
  <2>1. /\ at \in [Callers -> Places] /\ superseded.calls \subseteq Callers
        /\ threads \in [DOMAIN threads -> ThreadStates]
        /\ note \in [Callers -> Nat]
    BY InvParts DEF TypeOK
  <2>2. LateIsOld /\ auth.generation \in Nat
    BY InvParts
  <2>3. ASSUME NEW c \in Callers, at[c] \in Working, auth.generation = note[c],
               at' = [at EXCEPT ![c] = at'[c]]
        PROVE  \A d \in superseded.calls : at'[d] = at[d]
    <3>1. c \notin superseded.calls
      BY <2>2, <2>3 DEF LateIsOld
    <3>2. QED
      BY <2>1, <2>3, <3>1
  <2>4. ASSUME NEW g \in DOMAIN threads, auth.generation = g,
               threads' = [threads EXCEPT ![g] = "ending"]
        PROVE  \A h \in superseded.threads \cap DOMAIN threads :
                  h \in DOMAIN threads' /\ threads'[h] = threads[h]
    <3>1. g \notin superseded.threads
      BY <2>2, <2>4 DEF LateIsOld
    <3>2. QED
      BY <2>1, <2>4, <3>1
  <2>5. QED
    BY <2>3, <2>4, BringsIn
<1>2. QED
  BY <1>1, InvariantHolds, PTL DEF Spec, NoLateSignIn

\* What openai_oauth_create and the first attach leave is a keyring.
LEMMA KeyringStarts == Init => K!KeyringInit
BY NoSessionAssumption DEF Init, K!KeyringInit, Attachable

\* What the credentials are: nothing else of the manager is Keyring's.
Credentials == <<auth.session, auth.token, vault>>

\* Every step but these eight leaves the session, the token and the vaults alone.
LEMMA CredentialsAside ==
  ASSUME IInv, [Next]_vars
  PROVE  \/ UNCHANGED Credentials
         \/ \E c \in Callers :
              \/ AttachCloses(c) \/ AttachLoads(c) \/ LogoutEnds(c)
              \/ DestroyEnds(c) \/ RefreshGranted(c) \/ RefreshRejected(c)
              \/ PollKeeps(c)
         \/ \E g \in DOMAIN threads : ThreadKeeps(g)
<1> USE InvParts DEF Credentials, Changes, Fields, PendingFields
<1>1. ASSUME NEW c \in Callers, Calling(c) PROVE UNCHANGED Credentials
  <2>1. ASSUME NEW o \in {"attach", "logout", "cancel"}, NEW s \in Attachable,
               BeginLifecycle(c, o, s)
        PROVE  UNCHANGED Credentials
    <3>1. UNCHANGED vault
      BY <2>1 DEF BeginLifecycle
    <3>2. QED
      BY <2>1, <3>1, BeginLifecycleChanges
  <2>2. CASE BeginDestroy(c)
    <3>1. UNCHANGED vault
      BY <2>2 DEF BeginDestroy
    <3>2. QED
      BY <2>2, <3>1, BeginDestroyChanges
  <2>3. ASSUME NEW o \in {"start", "device"}, Reap(c, o)
        PROVE  UNCHANGED Credentials
    <3>1. UNCHANGED vault
      BY <2>3 DEF Reap
    <3>2. QED
      BY <2>3, <3>1, ReapChanges
  <2>4. CASE PollBegins(c)
    <3>1. UNCHANGED vault
      BY <2>4 DEF PollBegins, PollNames
    <3>2. QED
      BY <2>4, <3>1, PollBeginsChanges
  <2>5. CASE PollExpired(c) \/ TokenHeld(c) \/ TokenWaits(c)
    BY <2>5 DEF PollExpired, PollNames, TokenHeld, TokenWaits
  <2>6. CASE RefreshBegins(c)
    <3>1. UNCHANGED vault
      BY <2>6 DEF RefreshBegins
    <3>2. QED
      BY <2>6, <3>1, RefreshBeginsChanges
  <2>7. QED
    BY <1>1, <2>1, <2>2, <2>3, <2>4, <2>5, <2>6, NoSessionAssumption
       DEF Calling, Attachable
<1>2. ASSUME NEW c \in Callers, Going(c), ~AttachCloses(c), ~AttachLoads(c),
             ~LogoutEnds(c), ~DestroyEnds(c), ~RefreshGranted(c),
             ~RefreshRejected(c), ~PollKeeps(c)
      PROVE  UNCHANGED Credentials
  <2>1. CASE Join(c) \/ DrainSleeps(c) \/ LoginRefused(c) \/ StartSleeps(c)
             \/ PollAnswered(c) \/ PollTrades(c) \/ WaiterWakes(c)
             \/ RefreshAnswered(c)
    BY <2>1 DEF Join, DrainSleeps, LoginRefused, StartSleeps, PollAnswered,
       PollTrades, WaiterWakes, RefreshAnswered
  <2>2. CASE CancelEnds(c)
    <3>1. UNCHANGED vault
      BY <2>2 DEF CancelEnds
    <3>2. QED
      BY <2>2, <3>1, CancelEndsChanges
  <2>3. CASE StartSpawns(c)
    <3>1. UNCHANGED vault
      BY <2>3 DEF StartSpawns
    <3>2. QED
      BY <2>3, <3>1, StartSpawnsChanges
  <2>4. CASE StartUnspawned(c)
    <3>1. UNCHANGED vault
      BY <2>4 DEF StartUnspawned
    <3>2. QED
      BY <2>4, <3>1, StartUnspawnedChanges
  <2>5. CASE StartReady(c)
    <3>1. UNCHANGED vault
      BY <2>5 DEF StartReady
    <3>2. QED
      BY <2>5, <3>1, StartReadyChanges
  <2>6. CASE StartFails(c)
    <3>1. UNCHANGED vault
      BY <2>6 DEF StartFails
    <3>2. QED
      BY <2>6, <3>1, StartFailsChanges
  <2>7. CASE DeviceAsks(c)
    <3>1. UNCHANGED vault
      BY <2>7 DEF DeviceAsks
    <3>2. QED
      BY <2>7, <3>1, DeviceAsksChanges
  <2>8. CASE DeviceAnswered(c)
    <3>1. UNCHANGED vault
      BY <2>8 DEF DeviceAnswered
    <3>2. QED
      BY <2>8, <3>1, DeviceAnsweredChanges
  <2>9. CASE DeviceRefused(c)
    <3>1. UNCHANGED vault
      BY <2>9 DEF DeviceRefused
    <3>2. QED
      BY <2>9, <3>1, DeviceRefusedChanges
  <2>10. CASE OperationFinishes(c)
    <3>1. UNCHANGED vault
      BY <2>10 DEF OperationFinishes
    <3>2. QED
      BY <2>10, <3>1, OperationFinishesChanges
  <2>11. CASE PollCloses(c)
    <3>1. UNCHANGED vault
      BY <2>11 DEF PollCloses
    <3>2. QED
      BY <2>11, <3>1, PollClosesChanges
  <2>12. CASE PollReleases(c)
    <3>1. UNCHANGED vault
      BY <2>12 DEF PollReleases
    <3>2. QED
      BY <2>12, <3>1, PollReleasesChanges
  <2>13. CASE RefreshLost(c)
    <3>1. UNCHANGED vault
      BY <2>13 DEF RefreshLost
    <3>2. QED
      BY <2>13, <3>1, RefreshLostChanges
  <2>14. QED
    BY <1>2, <2>1, <2>2, <2>3, <2>4, <2>5, <2>6, <2>7, <2>8, <2>9, <2>10,
       <2>11, <2>12, <2>13 DEF Going
<1>3. ASSUME NEW c \in Callers, Spurious(c) PROVE UNCHANGED Credentials
  BY <1>3 DEF Spurious
<1>4. ASSUME NEW g \in DOMAIN threads, ThreadGoes(g), ~ThreadKeeps(g)
      PROVE  UNCHANGED Credentials
  <2>1. CASE ThreadBinds(g)
    <3>1. UNCHANGED vault
      BY <2>1 DEF ThreadBinds
    <3>2. QED
      BY <2>1, <3>1, ThreadBindsChanges
  <2>2. CASE ThreadLeaves(g)
    BY <2>2 DEF ThreadLeaves
  <2>3. CASE ThreadAccepts(g)
    <3>1. UNCHANGED vault
      BY <2>3 DEF ThreadAccepts
    <3>2. QED
      BY <2>3, <3>1, ThreadAcceptsChanges
  <2>4. CASE ThreadTrades(g)
    BY <2>4 DEF ThreadTrades
  <2>5. CASE ThreadFinishes(g)
    <3>1. UNCHANGED vault
      BY <2>5 DEF ThreadFinishes
    <3>2. QED
      BY <2>5, <3>1, ThreadFinishesChanges
  <2>6. QED
    BY <1>4, <2>1, <2>2, <2>3, <2>4, <2>5 DEF ThreadGoes
<1>5. QED
  BY <1>1, <1>2, <1>3, <1>4 DEF Next, vars

\* Every critical section maps to a step of Keyring or leaves its state alone.
LEMMA KeyringSteps ==
  ASSUME IInv, [Next]_vars
  PROVE  [K!KeyringNext]_Credentials
<1>1. /\ auth.session \in Attachable /\ auth.token \in Nat /\ OneLifecycle
      /\ vault \in [Sessions -> Nat] /\ issued \in Nat /\ TypeOK
  BY InvParts DEF TypeOK
<1>2. asked \in [Callers -> [op : Ops, with : Attachable]]
  BY <1>1 DEF TypeOK
<1>3. ASSUME NEW c \in Callers, AttachCloses(c)
      PROVE  K!Close
  BY <1>1, <1>3, AttachClosesChanges DEF K!Close, AttachCloses
<1>4. ASSUME NEW c \in Callers, AttachLoads(c)
      PROVE  UNCHANGED Credentials \/ \E s \in Sessions : K!Open(s)
  <2>1. auth.session = NoSession /\ auth.token = 0 /\ UNCHANGED vault
    BY <1>1, <1>4 DEF AttachLoads, OneLifecycle
  <2>2. asked[c].with \in Attachable
    BY <1>2
  <2>3. CASE auth'.session = auth.session /\ auth'.token = auth.token
    BY <2>1, <2>3 DEF Credentials
  <2>4. CASE /\ auth'.session = asked[c].with
             /\ \/ auth'.token = auth.token
                \/ auth'.session \in Sessions
                   /\ auth'.token = vault[auth'.session]
    BY <2>1, <2>2, <2>4, NoSessionAssumption DEF Attachable, Credentials,
       K!Open
  <2>5. QED
    BY <1>1, <1>4, <2>3, <2>4, AttachLoadsChanges
<1>5. ASSUME NEW c \in Callers, LogoutEnds(c)
      PROVE  UNCHANGED Credentials \/ K!SignOut
  <2>1. auth'.session = auth.session
    BY <1>1, <1>5, LogoutEndsChanges DEF Changes, Fields, PendingFields
  <2>2. CASE auth'.token = auth.token /\ UNCHANGED vault
    BY <2>1, <2>2 DEF Credentials
  <2>3. CASE /\ auth.session # NoSession /\ auth'.token = 0
             /\ vault' = [s \in Sessions |-> IF s = auth.session THEN 0 ELSE vault[s]]
    BY <1>1, <2>1, <2>3 DEF Attachable, K!SignOut
  <2>4. QED
    BY <1>1, <1>5, <2>2, <2>3, LogoutEndsChanges
<1>6. ASSUME NEW c \in Callers, DestroyEnds(c)
      PROVE  K!Close
  BY <1>1, <1>6, DestroyEndsChanges DEF K!Close, DestroyEnds
<1>7. ASSUME NEW c \in Callers, RefreshGranted(c)
      PROVE  UNCHANGED Credentials \/ K!SignIn
  <2>1. auth'.session = auth.session
    BY <1>1, <1>7, RefreshGrantedChanges DEF Changes, Fields
  <2>2. QED
    BY <1>1, <1>7, <2>1, RefreshGrantedChanges DEF Attachable, Credentials,
       K!SignIn
<1>8. ASSUME NEW c \in Callers, RefreshRejected(c)
      PROVE  UNCHANGED Credentials \/ K!SignOut \/ K!Close
  <2>1. auth'.session = auth.session
    BY <1>1, <1>8, RefreshRejectedChanges DEF Changes, Fields
  <2>2. CASE UNCHANGED vault /\ auth'.token = auth.token
    BY <2>1, <2>2 DEF Credentials
  <2>3. CASE /\ auth'.token = 0
             /\ vault' = [s \in Sessions |-> IF s = auth.session THEN 0 ELSE vault[s]]
    <3>1. CASE auth.session = NoSession
      BY <1>1, <2>1, <2>3, <3>1, NoSessionAssumption DEF K!Close
    <3>2. CASE auth.session # NoSession
      BY <1>1, <2>1, <2>3, <3>2 DEF Attachable, K!SignOut
    <3>3. QED
      BY <3>1, <3>2
  <2>4. QED
    BY <1>1, <1>8, <2>2, <2>3, RefreshRejectedChanges
<1>9. ASSUME NEW g, Completes(g)
      PROVE  K!SignIn
  <2>1. /\ Changes(auth, auth', {"token", "token_version"})
        /\ auth'.token = issued + 1
    BY <1>1, <1>9, CompletesChanges
  <2>2. auth'.session = auth.session
    BY <2>1 DEF Changes, Fields
  <2>3. /\ auth.session # NoSession
        /\ vault' = [vault EXCEPT ![auth.session] = issued + 1]
    BY <1>9 DEF Completes
  <2>4. QED
    BY <1>1, <2>1, <2>2, <2>3 DEF Attachable, K!SignIn
<1>10. ASSUME NEW c \in Callers, PollKeeps(c)
       PROVE  UNCHANGED Credentials \/ K!SignIn
  BY <1>9, <1>10 DEF PollKeeps, Credentials
<1>11. ASSUME NEW g \in DOMAIN threads, ThreadKeeps(g)
       PROVE  UNCHANGED Credentials \/ K!SignIn
  BY <1>9, <1>11 DEF ThreadKeeps, Credentials
<1>12. QED
  BY <1>3, <1>4, <1>5, <1>6, <1>7, <1>8, <1>10, <1>11, CredentialsAside
     DEF K!KeyringNext

\* The manager implements Keyring: tokens held are stored, and signing out of
\* memory and vault goes together (commit_credentials_locked, openai_oauth_logout).
THEOREM KeepsKeyring == Spec => CredentialsKept
<1>1. Init => K!KeyringInit
  BY KeyringStarts
<1>2. IInv /\ [Next]_vars => [K!KeyringNext]_Credentials
  BY KeyringSteps
<1>3. Credentials = K!keyringVars
  BY DEF Credentials, K!keyringVars
<1>4. QED
  BY <1>1, <1>2, <1>3, InvariantHolds, PTL DEF Spec, CredentialsKept,
     K!KeyringSpec, Credentials, K!keyringVars
=============================================================================
