------------------------------ MODULE VaultLock ------------------------------
(***************************************************************************)
(* The vault: first setup, unlocking, locking and the session check of     *)
(* every request, after security/views.py, database.py, state.py,          *)
(* vault.py, middleware.py, bootstrap.py and the database backend.         *)
(*                                                                         *)
(*   settings  SecuritySettings, in pk order: the VaultKey as wrapped by   *)
(*             the password and as wrapped by the recovery key             *)
(*   db, tmp   the main database, and the copy made to encrypt it: the key *)
(*             a file is encrypted with, or that it is none                *)
(*   attached  which of the two each request has attached as its copy: a   *)
(*             file that is moved or removed while it is open stays so     *)
(*   memory    the VaultKey in the memory of the process                   *)
(*   migrated  whether this process has run the migrations                 *)
(*   cookie    the session each browser holds: it is a signed cookie, so a *)
(*             request works on the copy it came with and its response     *)
(*             replaces what the browser holds                             *)
(*   shown     the recovery key each browser displayed last                *)
(*                                                                         *)
(* overlapped is a history variable: whether two setups have been          *)
(* encrypting at the same time.  No step depends on it.                    *)
(*                                                                         *)
(* The server is threaded.  A setup is cut at every look at a file or at   *)
(* the key in memory and at every write to them; request[r].step is the    *)
(* next step.                                                              *)
(***************************************************************************)
EXTENDS Integers, Sequences

CONSTANTS
  Browsers,         \* the browsers of the user
  Requests,         \* the requests that may be under way
  BrowserOf,        \* the browser that sends each of them
  Passwords,        \* the passwords that may be typed
  SetupPasswords,   \* those of them that each request may set the vault up with
  MaxKeys,          \* bound on the keys known anywhere
  MaxDisturbances   \* bound on locks by hand, idle periods and stops

ASSUME VaultAssumption ==
  /\ BrowserOf \in [Requests -> Browsers]
  /\ SetupPasswords \in [Requests -> SUBSET Passwords]
  /\ MaxKeys \in Nat /\ MaxDisturbances \in Nat

VARIABLES settings, db, tmp, attached, memory, migrated, cookie, shown, request, disturbed, overlapped

files   == <<settings, db, tmp, attached>>
process == <<memory, migrated>>
history == <<disturbed, overlapped>>
vaultVars == <<files, process, cookie, shown, request, history>>

Keys == 1..MaxKeys
NoKey == 0          \* a plaintext database, a locked process
NoFile == -1        \* nothing at the path
ZeroKey == -2       \* 32 zero bytes, the key while it is being cleared
EmptyFile == -3     \* a file of no bytes

(* What can encrypt a file or be wrapped. *)
KeyValues == Keys \cup {ZeroKey}

Wrapped(secrets, keys) == [secret: secrets, key: keys]
SecuritySettings == [password: Wrapped(Passwords, Keys), recovery: Wrapped(Keys, KeyValues)]
Sessions == [unlocked: BOOLEAN, activity: {"none", "recent", "old"}]

Idle == [step |-> "idle"]
CopySteps == {"taking", "checking", "removing", "connecting", "attaching", "exporting", "moving"}
SetupSteps == {"creating", "opening", "looking", "migrating"} \cup CopySteps

(* key is the VaultKey the request has taken from memory, source what it has
   found the main database to be when it connected to it. *)
Setups == [step: SetupSteps, session: Sessions, password: Passwords, generated: Keys,
           key: KeyValues \cup {NoKey}, source: KeyValues \cup {NoKey, EmptyFile, NoFile}]

RequestStates ==
  {Idle}
  \cup Setups
  \cup [step: {"unlocking"}, session: Sessions]
  \cup [step: {"screen", "lock", "zeroing", "clearing"}, session: Sessions]
  \cup [step: {"regenerate", "rewrapping"}, session: Sessions, generated: Keys,
        key: KeyValues \cup {NoKey}]

Attachments == {"nothing", "copy", "database"}

InSetup(r) == request[r].step \in SetupSteps
Encrypting(r) == request[r].step \in CopySteps

(* A key that has just been generated: one that is known nowhere. *)
KnownKeys ==
  UNION {{settings[i].password.key, settings[i].recovery.secret} : i \in DOMAIN settings}
  \cup {shown[b] : b \in Browsers}
  \cup {request[r].generated : r \in {s \in Requests : "generated" \in DOMAIN request[s]}}

GenerateKey == CHOOSE k \in Keys : k \notin KnownKeys /\ \A j \in Keys \ KnownKeys : k <= j

Goto(r, step) == request' = [request EXCEPT ![r].step = step]

(* The response ends the request; its session becomes the browser's. *)
Respond(r, session) ==
  /\ cookie' = [cookie EXCEPT ![BrowserOf[r]] = session]
  /\ request' = [request EXCEPT ![r] = Idle]

(* An error that nobody catches: the response is a 500, which leaves the
   session of the browser as it was. *)
ServerError(r) == request' = [request EXCEPT ![r] = Idle] /\ UNCHANGED cookie

(* Mutant: the row made last. *)
LatestSettings == settings[Len(settings)]

(* SecuritySettings.get(): the first row, also when a race has made two. *)
CurrentSettings == settings[1]

Configured == Len(settings) > 0

(* What is_plaintext_or_new takes for neither plaintext nor empty. *)
Encrypted == db \in KeyValues

-------------------------------------------------------------------------------
(* First access. *)

(* SetupView: no settings row is found, neither by the view nor by
   VaultService.setup, which generates the keys and derives the others. *)
StartSetup(r, password) ==
  /\ request[r] = Idle
  /\ ~ Configured
  /\ ~ Keys \subseteq KnownKeys
  /\ request' = [request EXCEPT ![r] =
       [step |-> "creating", session |-> cookie[BrowserOf[r]],
        password |-> password, generated |-> GenerateKey,
        key |-> NoKey, source |-> NoFile]]
  /\ UNCHANGED <<files, process, cookie, shown, history>>

CreateSettings(r) ==
  LET key == request[r].generated
  IN  /\ request[r].step = "creating"
      /\ settings' = Append(settings,
           [password |-> [secret |-> request[r].password, key |-> key],
            recovery |-> [secret |-> key, key |-> key]])
      /\ Goto(r, "opening")
      /\ UNCHANGED <<db, tmp, attached, process, cookie, shown, history>>

(* The VaultKey goes to memory once the password has unwrapped it. *)
OpenVault(r) ==
  /\ request[r].step = "opening"
  /\ IF request[r].password = CurrentSettings.password.secret
     THEN memory' = CurrentSettings.password.key /\ Goto(r, "looking") /\ UNCHANGED cookie
     ELSE ServerError(r) /\ UNCHANGED memory
  /\ UNCHANGED <<files, migrated, shown, history>>

PassOver(r) == Goto(r, "migrating") /\ UNCHANGED overlapped

StartEncrypting(r) ==
  /\ Goto(r, "taking")
  /\ overlapped' = (overlapped \/ \E q \in Requests : Encrypting(q))

(* Mutant: a temporary file is taken for an encryption that is done. *)
LookAtDatabaseAndCopy(r) ==
  /\ request[r].step = "looking"
  /\ IF Encrypted \/ tmp # NoFile THEN PassOver(r) ELSE StartEncrypting(r)
  /\ UNCHANGED <<files, process, cookie, shown, disturbed>>

(* _encrypt_main_database: a file that is not plaintext, or that is empty, is
   left as it is. *)
LookAtDatabase(r) ==
  /\ request[r].step = "looking"
  /\ IF Encrypted \/ db = EmptyFile THEN PassOver(r) ELSE StartEncrypting(r)
  /\ UNCHANGED <<files, process, cookie, shown, disturbed>>

(* The key that will encrypt the copy is what is in memory now. *)
TakeKey(r) ==
  /\ request[r].step = "taking"
  /\ request' = [request EXCEPT ![r].step = "checking", ![r].key = memory]
  /\ UNCHANGED <<files, process, cookie, shown, history>>

(* rekey_main_database: an older copy is looked for and removed; there may
   be none any more. *)
CheckCopy(r) ==
  /\ request[r].step = "checking"
  /\ Goto(r, IF tmp = NoFile THEN "connecting" ELSE "removing")
  /\ UNCHANGED <<files, process, cookie, shown, history>>

RemoveCopy(r) ==
  /\ request[r].step = "removing"
  /\ IF tmp = NoFile
     THEN ServerError(r) /\ UNCHANGED <<tmp, attached>>
     ELSE /\ tmp' = NoFile
          /\ attached' = [q \in Requests |->
               IF attached[q] = "copy" THEN "nothing" ELSE attached[q]]
          /\ Goto(r, "connecting") /\ UNCHANGED cookie
  /\ UNCHANGED <<settings, db, process, shown, history>>

(* The connection stays with the file it has opened, also when another one
   takes its place. *)
ConnectSource(r) ==
  /\ request[r].step = "connecting"
  /\ request' = [request EXCEPT ![r].step = "attaching", ![r].source = db]
  /\ UNCHANGED <<files, process, cookie, shown, history>>

(* ATTACH opens the copy, or makes an empty one, before it finds that the
   source is encrypted; without a key the statement is not even built. *)
AttachCopy(r) ==
  /\ request[r].step = "attaching"
  /\ tmp' = IF tmp = NoFile /\ request[r].key # NoKey THEN EmptyFile ELSE tmp
  /\ IF request[r].key = NoKey \/ request[r].source \in KeyValues
     THEN ServerError(r) /\ UNCHANGED attached
     ELSE /\ attached' = [attached EXCEPT ![r] = "copy"]
          /\ Goto(r, "exporting") /\ UNCHANGED cookie
  /\ UNCHANGED <<settings, db, process, shown, history>>

(* What is attached is filled, wherever it is by now; it was empty. *)
FillAttached(r) ==
  \/ /\ attached[r] = "copy" /\ tmp = EmptyFile
     /\ tmp' = request[r].key /\ UNCHANGED db
  \/ /\ attached[r] = "database" /\ db = EmptyFile
     /\ db' = request[r].key /\ UNCHANGED tmp

Detach(r) == attached' = [attached EXCEPT ![r] = "nothing"]

(* sqlcipher_export: neither a file that has been removed nor a source that
   is still empty leaves anything at either path. *)
ExportCopy(r) ==
  /\ request[r].step = "exporting"
  /\ \/ FillAttached(r)
     \/ (attached[r] = "nothing" \/ request[r].source = EmptyFile) /\ UNCHANGED <<db, tmp>>
  /\ Detach(r) /\ Goto(r, "moving")
  /\ UNCHANGED <<settings, process, cookie, shown, history>>

(* It fails when another setup has filled the file or the disk is full; then
   the file may be filled in part. *)
ExportFails(r) ==
  /\ request[r].step = "exporting"
  /\ FillAttached(r) \/ UNCHANGED <<db, tmp>>
  /\ Detach(r) /\ ServerError(r)
  /\ UNCHANGED <<settings, process, shown, history>>

MoveCopy ==
  /\ db' = tmp /\ tmp' = NoFile
  /\ attached' = [q \in Requests |-> IF attached[q] = "copy" THEN "database" ELSE "nothing"]

(* Mutant: a copy that is gone is not an error. *)
ReplaceDatabaseBlindly(r) ==
  /\ request[r].step = "moving"
  /\ MoveCopy /\ Goto(r, "migrating")
  /\ UNCHANGED <<settings, process, cookie, shown, history>>

(* Whatever file is at the path of the copy takes the place of the database:
   this setup's, another one's that is still empty, or none any more. *)
ReplaceDatabase(r) ==
  /\ request[r].step = "moving"
  /\ IF tmp = NoFile
     THEN ServerError(r) /\ UNCHANGED <<db, tmp, attached>>
     ELSE MoveCopy /\ Goto(r, "migrating") /\ UNCHANGED cookie
  /\ UNCHANGED <<settings, process, shown, history>>

(* Mutant: the key is required of a plaintext database too. *)
CanMigrateEncrypted == migrated \/ memory = db

(* bootstrap_pos_unlock: the first time in the life of the process the main
   database is opened with the key in memory, which an encrypted file has to
   be encrypted with, and migrated, which makes an empty one plaintext. *)
CanMigrate == migrated \/ ~ Encrypted \/ memory = db

Migrate ==
  /\ migrated' = TRUE
  /\ db' = IF ~ migrated /\ db = EmptyFile THEN NoKey ELSE db

(* After that the response displays the recovery key. *)
FinishSetup(r) ==
  /\ request[r].step = "migrating"
  /\ IF CanMigrate
     THEN /\ Migrate
          /\ shown' = [shown EXCEPT ![BrowserOf[r]] = request[r].generated]
          /\ Respond(r, [request[r].session EXCEPT !.unlocked = TRUE])
     ELSE ServerError(r) /\ UNCHANGED <<db, migrated, shown>>
  /\ UNCHANGED <<settings, tmp, attached, memory, history>>

-------------------------------------------------------------------------------
(* Unlocking and locking. *)

(* UnlockView: the password, or the recovery key that the browser displayed,
   unwraps the VaultKey, which goes to memory.  Any other credential is
   answered by the lock screen and changes nothing. *)
StartUnlock(r, wrapped, secret) ==
  /\ request[r] = Idle
  /\ wrapped.secret = secret
  /\ memory' = wrapped.key
  /\ request' = [request EXCEPT ![r] =
                   [step |-> "unlocking", session |-> cookie[BrowserOf[r]]]]
  /\ UNCHANGED <<files, migrated, cookie, shown, history>>

UnlockWithPassword(r) ==
  /\ Configured
  /\ \E p \in Passwords : StartUnlock(r, CurrentSettings.password, p)

UnlockWithRecovery(r) ==
  /\ Configured
  /\ StartUnlock(r, CurrentSettings.recovery, shown[BrowserOf[r]])

(* bootstrap_pos_unlock, then the session is marked and its clock reset.  A
   key that was cleared in the meantime is an error that nobody catches. *)
FinishUnlock(r) ==
  /\ request[r].step = "unlocking"
  /\ IF CanMigrate
     THEN /\ Migrate
          /\ Respond(r, [request[r].session EXCEPT !.unlocked = TRUE, !.activity = "recent"])
     ELSE ServerError(r) /\ UNCHANGED <<db, migrated>>
  /\ UNCHANGED <<settings, tmp, attached, memory, shown, history>>

(* VaultLockMiddleware lets a request through: the session is unlocked, the
   key is in memory and the last activity is not too old. *)
Admitted(r) ==
  LET session == cookie[BrowserOf[r]]
  IN  /\ request[r] = Idle
      /\ session.unlocked /\ memory # NoKey /\ session.activity # "old"

Active(r) == [cookie[BrowserOf[r]] EXCEPT !.activity = "recent"]

(* It takes the mark off a session whose process has lost the key or that
   has been inactive for too long; the VaultKey stays where it is. *)
TurnAway(r) ==
  LET session == cookie[BrowserOf[r]]
  IN  /\ request[r] = Idle
      /\ session.unlocked /\ (memory = NoKey \/ session.activity = "old")
      /\ Respond(r, [session EXCEPT !.unlocked = FALSE])
      /\ UNCHANGED <<files, process, shown, history>>

AskScreen(r) ==
  /\ Admitted(r)
  /\ request' = [request EXCEPT ![r] = [step |-> "screen", session |-> Active(r)]]
  /\ UNCHANGED <<files, process, cookie, shown, history>>

(* A screen reads the main database: a connection to an encrypted file is
   refused without its key, an empty file has no tables, and the response is
   an error. *)
ViewScreen(r) ==
  /\ request[r].step = "screen"
  /\ IF (Encrypted /\ memory # db) \/ db = EmptyFile
     THEN ServerError(r)
     ELSE Respond(r, request[r].session)
  /\ UNCHANGED <<files, process, shown, history>>

AskLock(r) ==
  /\ Admitted(r)
  /\ disturbed < MaxDisturbances
  /\ disturbed' = disturbed + 1
  /\ request' = [request EXCEPT ![r] = [step |-> "lock", session |-> Active(r)]]
  /\ UNCHANGED <<files, process, cookie, shown, overlapped>>

(* LockNowView, clear_vault_key: a key that is there is overwritten by zeros
   before the reference goes, and other threads can take the zeros. *)
LockNow(r) ==
  /\ request[r].step = "lock"
  /\ Goto(r, IF memory = NoKey THEN "clearing" ELSE "zeroing")
  /\ UNCHANGED <<files, process, cookie, shown, history>>

ZeroMemory(r) ==
  /\ request[r].step = "zeroing"
  /\ IF memory = NoKey
     THEN ServerError(r) /\ UNCHANGED memory
     ELSE memory' = ZeroKey /\ Goto(r, "clearing") /\ UNCHANGED cookie
  /\ UNCHANGED <<files, migrated, shown, history>>

ClearMemory(r) ==
  /\ request[r].step = "clearing"
  /\ memory' = NoKey
  /\ Respond(r, [request[r].session EXCEPT !.unlocked = FALSE])
  /\ UNCHANGED <<files, migrated, shown, history>>

AskRecovery(r) ==
  /\ Admitted(r)
  /\ ~ Keys \subseteq KnownKeys
  /\ request' = [request EXCEPT ![r] = [step |-> "regenerate", session |-> Active(r),
                                        generated |-> GenerateKey, key |-> NoKey]]
  /\ UNCHANGED <<files, process, cookie, shown, history>>

(* RegenerateRecoveryView takes the key in memory ... *)
RegenerateRecovery(r) ==
  /\ request[r].step = "regenerate"
  /\ IF memory = NoKey
     THEN Respond(r, request[r].session)
     ELSE /\ request' = [request EXCEPT ![r].step = "rewrapping", ![r].key = memory]
          /\ UNCHANGED cookie
  /\ UNCHANGED <<files, process, shown, history>>

(* ... and a new recovery key wraps it. *)
RewrapKey(r) ==
  LET recovery == request[r].generated
  IN  /\ request[r].step = "rewrapping"
      /\ settings' = [settings EXCEPT ![1].recovery = [secret |-> recovery, key |-> request[r].key]]
      /\ shown' = [shown EXCEPT ![BrowserOf[r]] = recovery]
      /\ Respond(r, request[r].session)
      /\ UNCHANGED <<db, tmp, attached, process, history>>

-------------------------------------------------------------------------------
(* The surroundings. *)

(* Ten minutes without a request: the sessions grow old. *)
GoIdle ==
  /\ disturbed < MaxDisturbances
  /\ \A r \in Requests : request[r] = Idle
  /\ disturbed' = disturbed + 1
  /\ cookie' = [b \in Browsers |->
       IF cookie[b].activity = "recent" THEN [cookie[b] EXCEPT !.activity = "old"]
                                        ELSE cookie[b]]
  /\ UNCHANGED <<files, process, shown, request, overlapped>>

(* The process stops and is started again: what it had in memory is lost,
   files and cookies stay.  entrypoint.sh migrates a main database that is
   empty. *)
Restart ==
  /\ disturbed < MaxDisturbances
  /\ disturbed' = disturbed + 1
  /\ memory' = NoKey /\ migrated' = FALSE
  /\ db' = IF db = EmptyFile THEN NoKey ELSE db
  /\ attached' = [r \in Requests |-> "nothing"]
  /\ request' = [r \in Requests |-> Idle]
  /\ UNCHANGED <<settings, tmp, cookie, shown, overlapped>>

Init ==
  /\ settings = <<>> /\ db = NoKey /\ tmp = NoFile
  /\ attached = [r \in Requests |-> "nothing"]
  /\ memory = NoKey /\ migrated = FALSE
  /\ cookie = [b \in Browsers |-> [unlocked |-> FALSE, activity |-> "none"]]
  /\ shown = [b \in Browsers |-> 0]
  /\ request = [r \in Requests |-> Idle]
  /\ disturbed = 0 /\ overlapped = FALSE

SetupStep(r) ==
  \/ CreateSettings(r) \/ OpenVault(r) \/ LookAtDatabase(r)
  \/ TakeKey(r) \/ CheckCopy(r) \/ RemoveCopy(r) \/ ConnectSource(r) \/ AttachCopy(r)
  \/ ExportCopy(r) \/ ExportFails(r) \/ ReplaceDatabase(r) \/ FinishSetup(r)

View(r) ==
  \/ ViewScreen(r)
  \/ LockNow(r) \/ ZeroMemory(r) \/ ClearMemory(r)
  \/ RegenerateRecovery(r) \/ RewrapKey(r)

Next ==
  \/ \E r \in Requests : \E p \in SetupPasswords[r] : StartSetup(r, p)
  \/ \E r \in Requests : SetupStep(r)
  \/ \E r \in Requests : UnlockWithPassword(r) \/ UnlockWithRecovery(r) \/ FinishUnlock(r)
  \/ \E r \in Requests : AskScreen(r) \/ AskLock(r) \/ AskRecovery(r) \/ TurnAway(r)
  \/ \E r \in Requests : View(r)
  \/ GoIdle
  \/ Restart

Spec == Init /\ [][Next]_vaultVars

(* The server goes on with what it has begun.  The user sets the vault up,
   and in every browser keeps opening screens and typing the password
   whenever the browser is free to; nobody has to lock, to idle or to stop
   the process. *)
Of(b) == {r \in Requests : BrowserOf[r] = b}

Fairness ==
  /\ \A r \in Requests : WF_vaultVars(SetupStep(r) \/ FinishUnlock(r) \/ View(r))
  /\ WF_vaultVars(\E r \in Requests : \E p \in SetupPasswords[r] : StartSetup(r, p))
  /\ \A b \in Browsers :
       /\ SF_vaultVars(\E r \in Of(b) : AskScreen(r) \/ TurnAway(r))
       /\ SF_vaultVars(\E r \in Of(b) : UnlockWithPassword(r))

FairSpec == Spec /\ Fairness

-------------------------------------------------------------------------------
(* Type invariant. *)
VaultTypeOK ==
  /\ settings \in Seq(SecuritySettings)
  /\ db \in KeyValues \cup {NoKey, EmptyFile} /\ tmp \in KeyValues \cup {EmptyFile, NoFile}
  /\ attached \in [Requests -> Attachments]
  /\ memory \in KeyValues \cup {NoKey} /\ migrated \in BOOLEAN
  /\ cookie \in [Browsers -> Sessions]
  /\ shown \in [Browsers -> Keys \cup {NoKey}]
  /\ request \in [Requests -> RequestStates]
  /\ disturbed \in 0..MaxDisturbances /\ overlapped \in BOOLEAN

(* One VaultKey: whatever two setups at once have written, the database, its
   copy, the memory and the recovery key of the settings in force have the
   key that their password unwraps, or the zeros that a lock puts in memory
   before it clears it and that another request may have taken. *)
OneVaultKey ==
  LET vaultKeys == {CurrentSettings.password.key, ZeroKey}
      inUse     == {db, tmp, memory} \cap KeyValues
  IN  /\ Configured => CurrentSettings.recovery.key \in vaultKeys
      /\ inUse # {} => Configured /\ inUse \subseteq vaultKeys

(* The zeros stay in memory and never get into a file or a recovery key.  It
   fails: a new recovery key, or the export of a setup, that takes the key
   while a lock is under way takes the zeros. *)
OnlyVaultKey ==
  /\ Configured => CurrentSettings.recovery.key = CurrentSettings.password.key
  /\ ZeroKey \notin {db, tmp}

(* A setup that is about to tell the user that the vault is ready, with its
   recovery key, has left an encrypted database.  It fails: a second setup
   removes the copy of the first and makes an empty one, and the first moves
   that over the database. *)
SetupEncrypts == \A r \in Requests : request[r].step = "migrating" => Encrypted

(* As long as no two setups have encrypted at the same time, a setup that
   reports the vault ready has encrypted the database: whatever is locked,
   stopped and left behind by the setup before, and however the setups
   interleave otherwise. *)
LoneSetupsEncrypt ==
  \/ overlapped
  \/ /\ \A r, q \in Requests : Encrypting(r) /\ Encrypting(q) => r = q
     /\ SetupEncrypts

(* The zeros of a lock have got where only another unlocking, or nothing,
   gets them out. *)
Damaged ==
  Configured /\ \/ CurrentSettings.recovery.key # CurrentSettings.password.key
                \/ Encrypted /\ db # CurrentSettings.password.key

(* A user who keeps trying with the password is let in, again and again,
   after any idle time, lock and restart: no session is left in a state in
   which every unlocking is undone by the inactivity check that follows.
   Only the zeros of a lock can keep the user out. *)
LetIn ==
  \A b \in Browsers : []<>(Damaged \/ \E r \in Of(b) : request[r].step = "screen")

(* With no setup under way, no session is unlocked over a plaintext database.
   It fails: a setup that ends between its settings row and the encryption
   leaves a vault that counts as configured, and unlocking never encrypts. *)
UnlockedOnlyEncrypted ==
  (\A r \in Requests : ~ InSetup(r)) =>
    \A b \in Browsers : cookie[b].unlocked => Encrypted
==============================================================================
