------------------------- MODULE PasswordMigration -------------------------
(***************************************************************************)
(* The password change of the session vault and its crash recovery:        *)
(* migration_change_password and migration_check_and_recover               *)
(* (src/session/migration.c), the opening of the vault by init_encryption  *)
(* (src/session/session_manager.c) and the handler that proves the current *)
(* password before it starts a change (handle_change_password).            *)
(*                                                                         *)
(* One action is one operation on the disk, which survives a crash as soon *)
(* as it is done (the code syncs the directory or the file after each; the *)
(* operations not yet synced are undone by the file system as a suffix,    *)
(* which is a crash at an earlier step).  Every file operation may fail.   *)
(* A key is derived from a password and a salt; the pepper is created once *)
(* with the vault, no change touches it, and it is left out.               *)
(***************************************************************************)
CONSTANTS Passwords,    \* what users type
          Salts,        \* what RAND_bytes returns
          SessionRows,  \* rows of agent_sessions
          OauthRows,    \* rows of provider_oauth
          None,         \* an absent file, row, key or record
          Torn,         \* a file created but not yet written
          IOErrors      \* can a file operation fail?

Rows == SessionRows \cup OauthRows
Key  == [pw : Passwords, salt : Salts]

ASSUME ConstantsAssumption ==
  /\ None # Torn
  /\ None \notin Passwords
  /\ None \notin Salts /\ Torn \notin Salts
  /\ None \notin Key   /\ Torn \notin Key
  /\ None # "pending"
  /\ IOErrors \in BOOLEAN

VARIABLES
  marker,       \* contents of .changing_pwd
  salt,         \* contents of the file salt
  oldSalt,      \* contents of salt.old
  verifier,     \* .verifier: the key it was made with
  verifierNew,  \* .verifier.new
  rows,         \* committed rows: the key each one is encrypted under
  stateSalt,    \* the committed row of password_migration_state
  txn,          \* rows as the open transaction sees them
  live,         \* enc_key of the manager the server runs with
  pc,           \* the next operation, "rest" between requests
  caller,       \* whose code runs: see the callers below
  cand,         \* the password the running request was given
  newPw,        \* the new password of the running change
  newKey,       \* new_key of migration_perform_change
  returned,     \* what the last change returned
  vaultKey,     \* history: the key of the committed data
  age           \* history: "first" up to the end of the first change

files   == <<marker, salt, oldSalt, verifier, verifierNew>>
db      == <<rows, stateSalt, txn>>
request == <<caller, cand, newPw, newKey>>
ghosts  == <<vaultKey, age>>
vars    == <<files, db, live, pc, request, returned, ghosts>>

File(S) == S \cup {None, Torn}

TypeOK ==
  /\ marker \in {None, "pending"}
  /\ salt \in File(Salts) /\ oldSalt \in Salts \cup {None}
  /\ verifier \in File(Key) /\ verifierNew \in File(Key)
  /\ rows \in [Rows -> Key \cup {None}]
  /\ stateSalt \in Salts \cup {None}
  /\ txn \in [Rows -> Key \cup {None}]
  /\ live \in Key \cup {None}
  /\ pc \in {"rest", "recover", "verify",
             "makeVerifier", "writeVerifier", "promote", "dropOldSalt",
             "restoreSalt", "dropNewVerifier", "dropMarker", "syncRecovery",
             "mark", "syncMark", "setAside", "syncAside", "makeSalt",
             "writeSalt", "dropStaleVerifier", "makeNewVerifier",
             "writeNewVerifier", "begin", "migrate", "commit", "activate",
             "syncActivate", "tidyOldSalt", "tidyMarker",
             "undoSalt", "undoVerifier", "undoVerifierOnly", "undoMarker", "syncUndo"}
  /\ caller \in {"unlock", "change", "perform", "activate"}
  /\ cand \in Passwords /\ newPw \in Passwords
  /\ newKey \in Key \cup {None}
  /\ returned \in {"none", "ok", "failed", "incomplete"}
  /\ vaultKey \in Key
  /\ age \in {"first", "later"}

\* A closed vault that was set up under some password and holds some rows.
SetUp(k) ==
  /\ marker = None /\ salt = k.salt /\ oldSalt = None
  /\ verifier = k /\ verifierNew = None
  /\ rows \in [Rows -> {k, None}]
  /\ age = "first"

\* A directory left by a program that kept no password_migration_state and
\* stopped between its commit and its switch of verifiers.
LegacyInterrupted(k) ==
  /\ marker = "pending" /\ salt = k.salt
  /\ \E o \in Key : /\ o.salt # k.salt
                    /\ oldSalt = o.salt /\ verifier = o
  /\ verifierNew \in {None, k}
  /\ rows \in [Rows -> {k, None}] /\ \E r \in SessionRows : rows[r] = k
  /\ age = "later"

Init ==
  /\ vaultKey \in Key
  /\ SetUp(vaultKey) \/ LegacyInterrupted(vaultKey)
  /\ stateSalt = None /\ txn = rows /\ live = None
  /\ pc = "rest" /\ caller = "unlock"
  /\ cand \in Passwords /\ newPw = cand /\ newKey = None
  /\ returned = "none"

-----------------------------------------------------------------------------
(* Requests, and the manager at rest.                                      *)

\* session_manager_create_ex: init_encryption recovers before it verifies.
\* While a manager is live the server still does this to check a password.
UnlockVault(p) ==
  /\ pc = "rest"
  /\ pc' = "recover" /\ caller' = "unlock" /\ cand' = p
  /\ UNCHANGED <<files, db, live, newPw, newKey, returned, ghosts>>

\* handle_change_password: a throwaway manager proves the current password.
AskChange(p, q) ==
  /\ pc = "rest" /\ live # None
  /\ pc' = "recover" /\ caller' = "change" /\ cand' = p /\ newPw' = q
  /\ returned' = "none"
  /\ UNCHANGED <<files, db, live, newKey, ghosts>>

\* save_session_core_locked, save_provider_oauth and the deletes.
WriteRow(r, v) ==
  /\ pc = "rest" /\ live # None /\ v \in {live, None}
  /\ rows' = [rows EXCEPT ![r] = v] /\ txn' = rows'
  /\ UNCHANGED <<files, stateSalt, live, pc, request, returned, ghosts>>

\* The process stops: SQLite drops the open transaction at the next open.
Crash ==
  /\ live' = None /\ pc' = "rest" /\ txn' = rows
  /\ caller' = "unlock" /\ newKey' = None /\ returned' = "none"
  /\ UNCHANGED <<files, rows, stateSalt, cand, newPw, ghosts>>

-----------------------------------------------------------------------------
(* Outcomes of a file operation, of the recovery and of a change.  The     *)
(* recovery runs for "unlock", for the probe of a "change" and to          *)
(* "activate" a verifier; "perform" is migration_perform_change itself.    *)

MayFail == IOErrors = TRUE

Answer(r) == pc' = "rest" /\ returned' = r

\* migration_check_and_recover returns 0 or -1 to its caller.
Recovered ==
  IF caller = "activate" THEN Answer("ok")
                         ELSE pc' = "verify" /\ UNCHANGED returned
\* Mutant of RecoveryFails: -2 and 0 swapped for a recovery that failed.
RecoveryFailsOk ==
  IF caller = "activate" THEN Answer("ok")
  ELSE pc' = "rest" /\ UNCHANGED returned
\* Mutant of RecoveryFails: a change that is committed is reported as failed.
RecoveryFailsFailed ==
  IF caller = "activate" THEN Answer("failed")
  ELSE pc' = "rest" /\ UNCHANGED returned
RecoveryFails ==
  IF caller = "activate" THEN Answer("incomplete")
  ELSE pc' = "rest" /\ UNCHANGED returned

Goto(l) == pc' = l /\ UNCHANGED returned

-----------------------------------------------------------------------------
(* migration_check_and_recover                                             *)

Derive(p, s) == [pw |-> p, salt |-> s]

\* legacy_key_evidence for one salt file: do the rows, or without any the
\* verifier, belong to the key that the password p gives with it?
KeyFits(p, s) ==
  IF \E r \in SessionRows : rows[r] # None
  THEN \E r \in SessionRows : rows[r] = Derive(p, s)
  ELSE verifier = Derive(p, s)

\* Mutant of Verdict: without a record nothing was committed, whatever the
\* rows say.
VerdictByRecord(p) ==
  IF stateSalt = salt THEN "commit" ELSE "abort"

\* The direction the recovery takes when a marker and a salt are there.
Verdict(p) ==
  IF stateSalt # None \/ oldSalt = None
  THEN IF stateSalt = salt THEN "commit" ELSE "abort"
  ELSE IF salt = Torn \/ (KeyFits(p, salt) <=> KeyFits(p, oldSalt)) THEN "fail"
  ELSE IF KeyFits(p, salt) THEN "commit" ELSE "abort"

Decide ==
  /\ pc = "recover"
  /\ IF marker = None THEN Recovered
     ELSE IF salt = None
     THEN IF oldSalt # None THEN Goto("undoSalt") ELSE RecoveryFails
     ELSE \/ Verdict(cand) = "fail" /\ RecoveryFails
          \/ Verdict(cand) = "abort" /\ Goto("restoreSalt")
          \/ /\ Verdict(cand) = "commit"
             /\ IF stateSalt = None /\ verifierNew = None
                THEN Goto("makeVerifier") ELSE Goto("promote")
          \/ MayFail /\ RecoveryFails
  /\ UNCHANGED <<files, db, live, request, ghosts>>

\* encryption_create_verifier, for a commit that left no verifier behind.
MakeVerifier ==
  /\ pc = "makeVerifier"
  /\ \/ verifierNew' = Torn /\ Goto("writeVerifier")
     \/ MayFail /\ UNCHANGED verifierNew /\ RecoveryFails
  /\ UNCHANGED <<marker, salt, oldSalt, verifier, db, live, request, ghosts>>

WriteVerifier ==
  /\ pc = "writeVerifier"
  /\ \/ verifierNew' = Derive(cand, salt) /\ Goto("promote")
     \/ /\ MayFail                    \* the file is removed, if it can be
        /\ verifierNew' \in {None, Torn, Derive(cand, salt)}
        /\ RecoveryFails
  /\ UNCHANGED <<marker, salt, oldSalt, verifier, db, live, request, ghosts>>

\* Mutant of Promote: a commit is cleaned up like an abort.
PromoteNothing ==
  /\ pc = "promote"
  /\ verifierNew' = None /\ Goto("dropOldSalt")
  /\ UNCHANGED <<marker, salt, oldSalt, verifier, db, live, request, ghosts>>

\* migration_finalize_recovery, committed.
Promote ==
  /\ pc = "promote"
  /\ \/ /\ verifierNew = None /\ Goto("dropOldSalt")
        /\ UNCHANGED <<verifier, verifierNew>>
     \/ /\ verifierNew # None
        /\ verifier' = verifierNew /\ verifierNew' = None
        /\ Goto("dropOldSalt")
     \/ /\ verifierNew # None /\ MayFail /\ RecoveryFails
        /\ UNCHANGED <<verifier, verifierNew>>
  /\ UNCHANGED <<marker, salt, oldSalt, db, live, request, ghosts>>

DropOldSalt ==
  /\ pc = "dropOldSalt"
  /\ \/ oldSalt' = None /\ Goto("dropMarker")
     \/ MayFail /\ UNCHANGED oldSalt /\ RecoveryFails
  /\ UNCHANGED <<marker, salt, verifier, verifierNew, db, live, request, ghosts>>

\* migration_finalize_recovery, not committed.
RestoreSalt ==
  /\ pc = "restoreSalt"
  /\ \/ /\ oldSalt # None
        /\ salt' = oldSalt /\ oldSalt' = None
        /\ Goto("dropNewVerifier")
     \/ /\ oldSalt # None /\ MayFail /\ RecoveryFails
        /\ UNCHANGED <<salt, oldSalt>>
     \/ /\ oldSalt = None /\ salt # None
        /\ Goto("dropNewVerifier") /\ UNCHANGED <<salt, oldSalt>>
  /\ UNCHANGED <<marker, verifier, verifierNew, db, live, request, ghosts>>

DropNewVerifier ==
  /\ pc = "dropNewVerifier"
  /\ \/ verifierNew' = None /\ Goto("dropMarker")
     \/ MayFail /\ UNCHANGED verifierNew /\ RecoveryFails
  /\ UNCHANGED <<marker, salt, oldSalt, verifier, db, live, request, ghosts>>

DropMarker ==
  /\ pc = "dropMarker"
  /\ \/ marker' = None /\ Goto("syncRecovery")
     \/ MayFail /\ UNCHANGED marker /\ RecoveryFails
  /\ UNCHANGED <<salt, oldSalt, verifier, verifierNew, db, live, request, ghosts>>

SyncRecovery ==
  /\ pc = "syncRecovery"
  /\ Recovered \/ (MayFail /\ RecoveryFails)
  /\ UNCHANGED <<files, db, live, request, ghosts>>

\* The rest of init_encryption: derive the key, check the verifier.  The
\* manager becomes the live one, or was only a probe and is freed again.
Verify ==
  /\ pc = "verify"
  /\ \/ /\ salt # Torn /\ verifier = Derive(cand, salt)
        /\ live' = IF live = None THEN verifier ELSE live
        /\ IF caller = "change" THEN Goto("mark") /\ caller' = "perform"
                                ELSE Goto("rest") /\ UNCHANGED caller
     \/ /\ MayFail \/ salt = Torn \/ verifier # Derive(cand, salt)
        /\ Goto("rest") /\ UNCHANGED <<live, caller>>
  /\ UNCHANGED <<files, db, cand, newPw, newKey, ghosts>>

-----------------------------------------------------------------------------
(* migration_perform_change                                                *)

\* A step of the change that touches no file but may fail.
Sync(at, next, otherwise) ==
  /\ pc = at
  /\ Goto(next) \/ (MayFail /\ Goto(otherwise))
  /\ UNCHANGED <<files, db, live, request, ghosts>>

\* create_marker is exclusive: a marker left behind refuses the change.
Mark ==
  /\ pc = "mark"
  /\ \/ /\ marker' = "pending"
        /\ IF marker = None THEN Goto("syncMark") ELSE Answer("failed")
     \/ MayFail /\ marker' \in {marker, "pending"} /\ Answer("failed")
  /\ age' = IF stateSalt = None THEN age ELSE "later"
  /\ UNCHANGED <<salt, oldSalt, verifier, verifierNew, db, live, request, vaultKey>>

SyncMark ==
  /\ pc = "syncMark"
  /\ Goto("setAside") \/ (MayFail /\ Answer("failed"))
  /\ UNCHANGED <<files, db, live, request, ghosts>>

SetAside ==
  /\ pc = "setAside"
  /\ \/ oldSalt' = salt /\ salt' = None /\ Goto("syncAside")
     \/ MayFail /\ UNCHANGED <<salt, oldSalt>> /\ Goto("undoSalt")
  /\ UNCHANGED <<marker, verifier, verifierNew, db, live, request, ghosts>>

SyncAside == Sync("syncAside", "makeSalt", "undoSalt")

MakeSalt ==
  /\ pc = "makeSalt"
  /\ \/ salt' = Torn /\ Goto("writeSalt")
     \/ MayFail /\ UNCHANGED salt /\ Goto("undoSalt")
  /\ UNCHANGED <<marker, oldSalt, verifier, verifierNew, db, live, request, ghosts>>

\* Random bytes: a salt that nothing on disk or in memory was made with.
KeysAround == {vaultKey, verifier, verifierNew, live} \cap Key
Fresh == Salts \ ({salt, oldSalt, stateSalt} \cup {k.salt : k \in KeysAround})

\* Mutant of WriteSalt: the length of the new salt is not looked at.
WriteSaltUnchecked ==
  /\ pc = "writeSalt"
  /\ \E s \in Fresh : salt' \in {s, Torn}
  /\ newKey' = Derive(newPw, salt') /\ Goto("dropStaleVerifier")
  /\ UNCHANGED <<marker, oldSalt, verifier, verifierNew, db, live,
                 caller, cand, newPw, ghosts>>

\* The salt is written and synced, and new_key is derived from it.
WriteSalt ==
  /\ pc = "writeSalt"
  /\ \E s \in Fresh :
       \/ /\ salt' = s /\ newKey' = Derive(newPw, s)
          /\ Goto("dropStaleVerifier")
       \/ /\ MayFail /\ salt' \in {None, Torn, s} /\ UNCHANGED newKey
          /\ Goto("undoSalt")
  /\ UNCHANGED <<marker, oldSalt, verifier, verifierNew, db, live,
                 caller, cand, newPw, ghosts>>

DropStaleVerifier ==
  /\ pc = "dropStaleVerifier"
  /\ \/ verifierNew' = None /\ Goto("makeNewVerifier")
     \/ MayFail /\ UNCHANGED verifierNew /\ Goto("undoSalt")
  /\ UNCHANGED <<marker, salt, oldSalt, verifier, db, live, request, ghosts>>

MakeNewVerifier ==
  /\ pc = "makeNewVerifier"
  /\ \/ verifierNew' = Torn /\ Goto("writeNewVerifier")
     \/ MayFail /\ UNCHANGED verifierNew /\ Goto("undoSalt")
  /\ UNCHANGED <<marker, salt, oldSalt, verifier, db, live, request, ghosts>>

WriteNewVerifier ==
  /\ pc = "writeNewVerifier"
  /\ \/ verifierNew' = newKey /\ Goto("begin")
     \/ /\ MayFail /\ verifierNew' \in {None, Torn, newKey}
        /\ Goto("undoSalt")
  /\ UNCHANGED <<marker, salt, oldSalt, verifier, db, live, request, ghosts>>

Begin == Sync("begin", "migrate", "undoSalt")

Rollback == txn' = rows /\ Goto("undoSalt")

\* migrate_sessions, then migrate_provider_oauth, one row at a time: the row
\* must decrypt under the old key.
Todo == LET old == {r \in Rows : txn[r] \notin {None, newKey}}
        IN  IF old \cap SessionRows # {} THEN old \cap SessionRows ELSE old

\* Mutant of MigrateRow: a row that fails ends the loop, not the change.
MigrateRowBreaks ==
  /\ pc = "migrate"
  /\ \E r \in Todo :
       \/ /\ txn[r] = live
          /\ txn' = [txn EXCEPT ![r] = newKey] /\ Goto("migrate")
       \/ (MayFail \/ txn[r] # live) /\ Goto("commit") /\ UNCHANGED txn
  /\ UNCHANGED <<files, rows, stateSalt, live, request, ghosts>>

MigrateRow ==
  /\ pc = "migrate"
  /\ \E r \in Todo :
       \/ /\ txn[r] = live
          /\ txn' = [txn EXCEPT ![r] = newKey] /\ Goto("migrate")
       \/ (MayFail \/ txn[r] # live) /\ Rollback
  /\ UNCHANGED <<files, rows, stateSalt, live, request, ghosts>>

RowsMigrated ==
  /\ pc = "migrate" /\ Todo = {} /\ Goto("commit")
  /\ UNCHANGED <<files, db, live, request, ghosts>>

\* Mutant of Commit: the manager keeps the new key when COMMIT fails.
CommitKeepsNewKey ==
  /\ pc = "commit"
  /\ live' = newKey
  /\ \/ /\ rows' = txn /\ stateSalt' = salt /\ UNCHANGED txn
        /\ vaultKey' = newKey /\ Goto("activate")
     \/ MayFail /\ Rollback /\ UNCHANGED <<rows, stateSalt, vaultKey>>
  /\ UNCHANGED <<files, request, age>>

\* record_committed_salt and COMMIT; the manager takes the new key.
Commit ==
  /\ pc = "commit"
  /\ \/ /\ rows' = txn /\ stateSalt' = salt /\ UNCHANGED txn
        /\ live' = newKey /\ vaultKey' = newKey
        /\ Goto("activate")
     \/ MayFail /\ Rollback /\ UNCHANGED <<rows, stateSalt, live, vaultKey>>
  /\ UNCHANGED <<files, request, age>>

\* The verifier could not be switched: recover in the process itself.
RetryByRecovery ==
  Goto("recover") /\ caller' = "activate" /\ cand' = newPw

Activate ==
  /\ pc = "activate"
  /\ \/ /\ verifier' = verifierNew /\ verifierNew' = None
        /\ Goto("syncActivate") /\ UNCHANGED <<caller, cand>>
     \/ MayFail /\ RetryByRecovery /\ UNCHANGED <<verifier, verifierNew>>
  /\ UNCHANGED <<marker, salt, oldSalt, db, live, newPw, newKey, ghosts>>

SyncActivate ==
  /\ pc = "syncActivate"
  /\ \/ Goto("tidyOldSalt") /\ UNCHANGED <<caller, cand>>
     \/ MayFail /\ RetryByRecovery
  /\ UNCHANGED <<files, db, live, newPw, newKey, ghosts>>

\* Artifacts that cannot be removed are only warned about.
TidyOldSalt ==
  /\ pc = "tidyOldSalt"
  /\ \/ oldSalt' = None /\ Goto("tidyMarker")
     \/ MayFail /\ UNCHANGED oldSalt /\ Answer("ok")
  /\ UNCHANGED <<marker, salt, verifier, verifierNew, db, live, request, ghosts>>

TidyMarker ==
  /\ pc = "tidyMarker"
  /\ marker' = None \/ (MayFail /\ UNCHANGED marker)
  /\ Answer("ok")
  /\ UNCHANGED <<salt, oldSalt, verifier, verifierNew, db, live, request, ghosts>>

-----------------------------------------------------------------------------
(* restore_old_files, for a failed change and for a recovery without salt. *)

Undone     == IF caller = "perform" THEN Answer("failed") ELSE Recovered
\* Mutant of UndoFails: the result of restore_old_files is not looked at.
UndoFailsIgnored == Undone
UndoFails == IF caller = "perform" THEN Answer("failed") ELSE RecoveryFails

\* The salt goes back.  If it cannot, the new verifier is removed all the
\* same, but not the marker.
UndoSalt ==
  /\ pc = "undoSalt"
  /\ \/ /\ oldSalt # None /\ salt' = oldSalt /\ oldSalt' = None
        /\ Goto("undoVerifier")
     \/ /\ MayFail \/ oldSalt = None
        /\ UNCHANGED <<salt, oldSalt>> /\ Goto("undoVerifierOnly")
  /\ UNCHANGED <<marker, verifier, verifierNew, db, live, request, ghosts>>

UndoVerifier ==
  /\ \/ pc = "undoVerifier" /\ verifierNew' = None /\ Goto("undoMarker")
     \/ pc = "undoVerifier" /\ MayFail /\ UNCHANGED verifierNew /\ UndoFails
     \/ pc = "undoVerifierOnly" /\ verifierNew' = None /\ UndoFails
     \/ pc = "undoVerifierOnly" /\ MayFail /\ UNCHANGED verifierNew /\ UndoFails
  /\ UNCHANGED <<marker, salt, oldSalt, verifier, db, live, request, ghosts>>

UndoMarker ==
  /\ pc = "undoMarker"
  /\ \/ marker' = None /\ Goto("syncUndo")
     \/ MayFail /\ UNCHANGED marker /\ UndoFails
  /\ UNCHANGED <<salt, oldSalt, verifier, verifierNew, db, live, request, ghosts>>

SyncUndo ==
  /\ pc = "syncUndo"
  /\ Undone \/ (MayFail /\ UndoFails)
  /\ UNCHANGED <<files, db, live, request, ghosts>>

-----------------------------------------------------------------------------
Recovery ==
  \/ Decide \/ MakeVerifier \/ WriteVerifier \/ Promote \/ DropOldSalt
  \/ RestoreSalt \/ DropNewVerifier \/ DropMarker \/ SyncRecovery \/ Verify
Change ==
  \/ Mark \/ SyncMark \/ SetAside \/ SyncAside \/ MakeSalt \/ WriteSalt
  \/ DropStaleVerifier \/ MakeNewVerifier \/ WriteNewVerifier
  \/ Begin \/ MigrateRow \/ RowsMigrated \/ Commit
  \/ Activate \/ SyncActivate \/ TidyOldSalt \/ TidyMarker
UndoChange == UndoSalt \/ UndoVerifier \/ UndoMarker \/ SyncUndo

Next ==
  \/ \E p \in Passwords : UnlockVault(p)
  \/ \E p, q \in Passwords : AskChange(p, q)
  \/ \E r \in Rows, v \in Key \cup {None} : WriteRow(r, v)
  \/ Recovery \/ Change \/ UndoChange
  \/ Crash

MigrationSpec == Init /\ [][Next]_vars

\* Directories that this program set up itself.
OwnSpec == Init /\ age = "first" /\ [][Next]_vars

-----------------------------------------------------------------------------
(* Properties                                                              *)

\* All or nothing in the database: outside the open transaction every row is
\* under the one key of the committed data, whatever step of a change the
\* process dies in, and the recorded salt is the one of that key.
NeverHalfMigrated ==
  /\ \A r \in Rows : rows[r] \in {None, vaultKey}
  /\ stateSalt \in {None, vaultKey.salt}

\* The salt of the committed data is never lost: without it no password can
\* ever decrypt the rows again.
SaltSurvives == vaultKey.salt \in {salt, oldSalt}

\* Whoever is let in got the key of the committed data: what is written next
\* never goes under a key that an aborted change invented.
LiveKeyIsVaultKey == live \in {None, vaultKey}

\* init_encryption takes a missing salt for a first run and makes new key
\* material over a vault; a recovery that reports success leaves a salt.
NoSpuriousFirstRun == pc = "verify" => salt # None

\* With no request running and no marker left, the files open the data:
\* until a change is begun on a database that records an earlier one, and
\* unless a program without that record left the directory (age "later").
QuietVaultConsistent ==
  (pc = "rest" /\ marker = None /\ age = "first") =>
     salt = vaultKey.salt /\ verifier = vaultKey

\* What migration_change_password returns is what happened: after 0 both
\* files and the manager have the new key, as the data do.
OkStep ==
  returned' = "ok" /\ returned # "ok" =>
     /\ vaultKey' = newKey /\ live' = newKey
     /\ verifier' = newKey /\ salt' = newKey.salt
OkMeansActivated == [][OkStep]_vars

\* What the recovery reports (migration_check_and_recover) and what a change
\* answers (migration_change_password) can be relied on.
AnswersHonest == [][OkStep /\ NoSpuriousFirstRun']_vars

-----------------------------------------------------------------------------
(* The change as its caller sees it, see PasswordChange.                   *)
Changing == pc # "rest" /\ caller # "unlock"
Took == \/ pc \in {"activate", "syncActivate", "tidyOldSalt", "tidyMarker"}
        \/ Changing /\ caller = "activate"

Abstract == INSTANCE PasswordChange WITH
  pw     <- vaultKey.pw,
  opened <- IF live = None THEN None ELSE live.pw,
  asked  <- IF Changing THEN newPw ELSE None,
  took   <- Took,
  answer <- returned

\* Every change and every opening of the vault is one of PasswordChange.
ImplementsPasswordChange == Abstract!Spec

-----------------------------------------------------------------------------
(* Stronger claims that the code does not keep; see the README.            *)

\* migration.h: "the on-disk salt/verifier pair always ends up consistent
\* with the DB's committed salt", after any number of changes.
QuietVaultOpens ==
  (pc = "rest" /\ marker = None) => salt = vaultKey.salt /\ verifier = vaultKey

\* migration.h: "With a marker, the migration is finalized in whichever
\* direction it had progressed", once the right password is given.  It fails
\* after a stop between the creation and the write of a first change's salt
\* (section 5 of README.md).
RecoveryDecides ==
  (pc = "rest" /\ marker # None /\ salt # None) => Verdict(vaultKey.pw) # "fail"
=============================================================================
