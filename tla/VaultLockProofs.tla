---------------------------- MODULE VaultLockProofs ----------------------------
(***************************************************************************)
(* The keys of the vault for any number of browsers, of requests at once,  *)
(* of locks, idle periods and stops: the key of the first settings row, or *)
(* the zeros of a lock, are all that reach the memory, the copy and the    *)
(* database; and a setup that encrypts alone leaves an encrypted database. *)
(***************************************************************************)
EXTENDS VaultLock, SequenceTheorems, WellFoundedInduction, TLAPS

USE DEF NoKey, NoFile, ZeroKey, EmptyFile

-------------------------------------------------------------------------------
(* The inductive invariant.  OneVaultKey is not inductive alone: a key that a
   request has taken from memory is written later, and OpenVault takes its
   key from the first row, which has to be there. *)

InForce(key) ==
  key \in KeyValues => Configured /\ key \in {CurrentSettings.password.key, ZeroKey}

RecoveryInForce ==
  Configured => CurrentSettings.recovery.key \in {CurrentSettings.password.key, ZeroKey}

KeySteps == SetupSteps \cup {"regenerate", "rewrapping"}

SoundRequest(state) ==
  /\ state.step \in KeySteps => InForce(state.key)
  /\ state.step \in {"exporting", "rewrapping"} => state.key # NoKey

OpensAfterCreation == \A r \in Requests : request[r].step = "opening" => Configured

VaultSafety ==
  /\ VaultTypeOK
  /\ InForce(db) /\ InForce(tmp) /\ InForce(memory)
  /\ RecoveryInForce
  /\ \A r \in Requests : SoundRequest(request[r])
  /\ OpensAfterCreation

(* What a request goes on to in a step of its own. *)
GoesOn(r) ==
  \E new \in RequestStates :
    /\ request' = [request EXCEPT ![r] = new]
    /\ SoundRequest(new)
    /\ new.step = "opening" => Configured'

LEMMA SafetyIsOneVaultKey == VaultSafety => OneVaultKey
BY DEF VaultSafety, InForce, RecoveryInForce, OneVaultKey

(* The key of the first row, where there is one. *)
LEMMA FirstRow ==
  ASSUME settings \in Seq(SecuritySettings), Configured
  PROVE  /\ 1 \in DOMAIN settings /\ settings[1] \in SecuritySettings
         /\ CurrentSettings.password.key \in Keys
         /\ CurrentSettings.recovery.key \in KeyValues
<1>1. 1 \in DOMAIN settings /\ settings[1] \in SecuritySettings
  BY ElementOfSeq, LenProperties DEF Configured
<1>. QED BY <1>1 DEF CurrentSettings, SecuritySettings, Wrapped

(* There is a least key among those that are known nowhere. *)
LEMMA GeneratedKey ==
  ASSUME ~ Keys \subseteq KnownKeys
  PROVE  GenerateKey \in Keys
<1>. DEFINE T == Keys \ KnownKeys
<1>1. T # {} /\ T \subseteq Nat
  BY VaultAssumption DEF Keys
<1>2. PICK k \in T : \A j \in T : ~ (<<j, k>> \in OpToRel(<, Nat))
  BY <1>1, NatLessThanWellFounded, WFMin
<1>3. \A j \in T : <<j, k>> \in OpToRel(<, Nat) <=> j < k
  BY <1>1 DEF OpToRel
<1>4. ASSUME NEW j \in T
      PROVE  k <= j
  <2>1. ~ (j < k) /\ j \in Nat /\ k \in Nat
    BY <1>1, <1>2, <1>3
  <2>. QED BY <2>1
<1>. QED BY <1>4 DEF GenerateKey

(* What the fields of a request are in each of its steps. *)
LEMMA RequestFields ==
  ASSUME VaultTypeOK, NEW r \in Requests
  PROVE  /\ request[r] \in RequestStates
         /\ request[r].step \in SetupSteps => request[r] \in Setups
         /\ request[r].step # "idle" => request[r].session \in Sessions
         /\ request[r].step \in {"regenerate", "rewrapping"} =>
              request[r] \in [step: {"regenerate", "rewrapping"}, session: Sessions,
                              generated: Keys, key: KeyValues \cup {NoKey}]
<1>1. request[r] \in RequestStates
  BY DEF VaultTypeOK
<1>. QED BY <1>1 DEF RequestStates, Setups, SetupSteps, CopySteps, Idle

(* The step of a request, and what the vault is left with, are what the
   invariant asks for. *)
LEMMA StepSafe ==
  ASSUME VaultSafety, NEW r \in Requests, VaultTypeOK', GoesOn(r),
         Configured => Configured' /\ CurrentSettings'.password.key = CurrentSettings.password.key,
         RecoveryInForce',
         InForce(db)', InForce(tmp)', InForce(memory)'
  PROVE  VaultSafety'
<1>1. PICK new \in RequestStates :
        /\ request' = [request EXCEPT ![r] = new]
        /\ SoundRequest(new)
        /\ new.step = "opening" => Configured'
  BY DEF GoesOn
<1>2. \A k : InForce(k) => (k \in KeyValues => Configured' /\ k \in {CurrentSettings'.password.key, ZeroKey})
  BY DEF InForce
<1>3. request \in [Requests -> RequestStates]
  BY DEF VaultSafety, VaultTypeOK
<1>4. request'[r] = new /\ \A q \in Requests \ {r} : request'[q] = request[q]
  BY <1>1, <1>3
<1>5. ASSUME NEW q \in Requests
      PROVE  SoundRequest(request[q])'
  <2>1. SoundRequest(request'[q])
    BY <1>1, <1>4 DEF VaultSafety
  <2>. QED BY <2>1, <1>2 DEF SoundRequest, InForce
<1>6. OpensAfterCreation'
  BY <1>1, <1>4 DEF VaultSafety, OpensAfterCreation
<1>. QED BY <1>5, <1>6 DEF VaultSafety

(* The same where the settings stay. *)
LEMMA PlainStepSafe ==
  ASSUME VaultSafety, NEW r \in Requests, settings' = settings, VaultTypeOK', GoesOn(r),
         InForce(db'), InForce(tmp'), InForce(memory')
  PROVE  VaultSafety'
<1>1. Configured' = Configured /\ CurrentSettings' = CurrentSettings
  BY DEF Configured, CurrentSettings
<1>2. RecoveryInForce'
  BY <1>1 DEF VaultSafety, RecoveryInForce
<1>3. InForce(db)' /\ InForce(tmp)' /\ InForce(memory)'
  BY <1>1 DEF InForce
<1>. QED BY <1>1, <1>2, <1>3, StepSafe

(* Going to another step of a setup. *)
LEMMA GotoSound ==
  ASSUME VaultSafety, NEW r \in Requests, request[r].step \in SetupSteps,
         NEW s \in SetupSteps, Goto(r, s),
         s = "opening" => Configured', s = "exporting" => request[r].key # NoKey
  PROVE  /\ GoesOn(r)
         /\ request' \in [Requests -> RequestStates]
<1>. DEFINE new == [request[r] EXCEPT !.step = s]
<1>1. request[r] \in Setups /\ SoundRequest(request[r]) /\ VaultTypeOK
  BY RequestFields DEF VaultSafety
<1>2. new \in Setups /\ new.step = s /\ new.key = request[r].key
  BY <1>1 DEF Setups
<1>3. request' = [request EXCEPT ![r] = new]
  BY DEF Goto
<1>4. new \in RequestStates
  BY <1>2 DEF RequestStates
<1>5. SoundRequest(new)
  <2>1. InForce(request[r].key)
    BY <1>1 DEF SoundRequest, KeySteps
  <2>2. s # "rewrapping"
    BY DEF SetupSteps, CopySteps
  <2>. HIDE DEF new
  <2>. QED BY <1>2, <2>1, <2>2 DEF SoundRequest
<1>. HIDE DEF new
<1>. QED BY <1>1, <1>2, <1>3, <1>4, <1>5 DEF GoesOn, VaultTypeOK

(* A request that ends. *)
LEMMA EndSound ==
  ASSUME VaultTypeOK, NEW r \in Requests, request' = [request EXCEPT ![r] = Idle]
  PROVE  GoesOn(r) /\ request' \in [Requests -> RequestStates]
<1>1. Idle \in RequestStates /\ Idle.step = "idle"
  BY DEF RequestStates, Idle
<1>2. SoundRequest(Idle)
  BY <1>1 DEF SoundRequest, KeySteps, SetupSteps, CopySteps
<1>. QED BY <1>1, <1>2 DEF GoesOn, VaultTypeOK

(* A response ends a request. *)
LEMMA ResponseSafe ==
  ASSUME VaultSafety, NEW r \in Requests,
         settings' = settings, attached' = attached, disturbed' = disturbed,
         overlapped' = overlapped, tmp' = tmp,
         db' = db \/ db' = NoKey, memory' = memory \/ memory' = NoKey, migrated' \in BOOLEAN,
         shown' \in [Browsers -> Keys \cup {NoKey}],
         ServerError(r) \/ (\E session \in Sessions : Respond(r, session))
  PROVE  VaultSafety'
<1>1. VaultTypeOK /\ request' = [request EXCEPT ![r] = Idle]
  BY DEF VaultSafety, Respond, ServerError
<1>2. cookie' \in [Browsers -> Sessions]
  BY <1>1 DEF Respond, ServerError, VaultTypeOK
<1>3. GoesOn(r) /\ request' \in [Requests -> RequestStates]
  BY <1>1, EndSound
<1>4. VaultTypeOK'
  BY <1>1, <1>2, <1>3 DEF VaultTypeOK
<1>5. InForce(NoKey)
  BY VaultAssumption DEF InForce, KeyValues, Keys
<1>6. InForce(db') /\ InForce(tmp') /\ InForce(memory')
  BY <1>5 DEF VaultSafety
<1>. QED BY <1>3, <1>4, <1>6, PlainStepSafe

LEMMA InitVaultSafe == Init => VaultSafety
<1>. SUFFICES ASSUME Init PROVE VaultSafety
  OBVIOUS
<1>1. settings = <<>> /\ settings \in Seq(SecuritySettings) /\ Len(settings) = 0
  BY DEF Init
<1>2. VaultTypeOK
  <2>1. request \in [Requests -> RequestStates]
    BY DEF Init, RequestStates
  <2>2. cookie \in [Browsers -> Sessions]
    BY DEF Init, Sessions
  <2>3. shown \in [Browsers -> Keys \cup {NoKey}] /\ disturbed \in 0..MaxDisturbances
    BY VaultAssumption DEF Init
  <2>4. attached \in [Requests -> Attachments]
    BY DEF Init, Attachments
  <2>. QED BY <1>1, <2>1, <2>2, <2>3, <2>4 DEF Init, VaultTypeOK
<1>3. InForce(db) /\ InForce(tmp) /\ InForce(memory) /\ RecoveryInForce
  BY <1>1, VaultAssumption DEF Init, InForce, RecoveryInForce, Configured, KeyValues, Keys
<1>4. \A r \in Requests : SoundRequest(request[r]) /\ request[r].step # "opening"
  BY DEF Init, SoundRequest, KeySteps, SetupSteps, CopySteps, Idle
<1>. QED BY <1>2, <1>3, <1>4 DEF VaultSafety, OpensAfterCreation

-------------------------------------------------------------------------------
(* First access. *)

LEMMA StartSetupSafe ==
  ASSUME VaultSafety, NEW r \in Requests, NEW p \in SetupPasswords[r], StartSetup(r, p)
  PROVE  VaultSafety'
<1>1. VaultTypeOK /\ GenerateKey \in Keys /\ p \in Passwords
  BY GeneratedKey, VaultAssumption DEF VaultSafety, StartSetup
<1>. DEFINE new == [step |-> "creating", session |-> cookie[BrowserOf[r]],
                    password |-> p, generated |-> GenerateKey,
                    key |-> NoKey, source |-> NoFile]
<1>2. new \in Setups
  BY <1>1, VaultAssumption DEF VaultTypeOK, Setups, SetupSteps
<1>3. request' = [request EXCEPT ![r] = new] /\ new.step = "creating" /\ new.key = NoKey
  BY DEF StartSetup
<1>. HIDE DEF new
<1>4. UNCHANGED <<settings, db, tmp, attached, memory, migrated, cookie, shown, disturbed, overlapped>>
  BY DEF StartSetup, files, process, history
<1>5. new \in RequestStates /\ SoundRequest(new)
  BY <1>2, <1>3, VaultAssumption DEF RequestStates, SoundRequest, InForce, KeyValues, Keys
<1>6. GoesOn(r)
  BY <1>3, <1>5 DEF GoesOn
<1>7. VaultTypeOK'
  BY <1>1, <1>3, <1>4, <1>5 DEF VaultTypeOK
<1>8. InForce(db') /\ InForce(tmp') /\ InForce(memory')
  BY <1>4 DEF VaultSafety
<1>. QED BY <1>4, <1>6, <1>7, <1>8, PlainStepSafe

(* A first row brings the key in force; a second one changes nothing. *)
LEMMA CreateSettingsSafe ==
  ASSUME VaultSafety, NEW r \in Requests, CreateSettings(r)
  PROVE  VaultSafety'
<1>. DEFINE key == request[r].generated
            row == [password |-> [secret |-> request[r].password, key |-> key],
                    recovery |-> [secret |-> key, key |-> key]]
<1>1. VaultTypeOK /\ settings \in Seq(SecuritySettings)
  BY DEF VaultSafety, VaultTypeOK
<1>2. request[r].step = "creating" /\ Goto(r, "opening") /\ settings' = Append(settings, row)
      /\ UNCHANGED <<db, tmp, attached, memory, migrated, cookie, shown, disturbed, overlapped>>
  BY DEF CreateSettings, process, history
<1>3. row \in SecuritySettings
  <2>1. request[r] \in Setups
    BY <1>1, <1>2, RequestFields DEF SetupSteps
  <2>. QED BY <2>1 DEF Setups, SecuritySettings, Wrapped, KeyValues
<1>4. row.recovery.key = row.password.key
  OBVIOUS
<1>. HIDE DEF row
<1>5. /\ settings' \in Seq(SecuritySettings) /\ Len(settings') = Len(settings) + 1
      /\ Configured => settings'[1] = settings[1]
      /\ ~ Configured => settings'[1] = row
  BY <1>1, <1>2, <1>3, AppendProperties, LenProperties DEF Configured
<1>6. Configured'
  BY <1>1, <1>5, LenProperties DEF Configured
<1>7. GoesOn(r) /\ request' \in [Requests -> RequestStates]
  BY <1>2, <1>6, GotoSound DEF SetupSteps
<1>8. VaultTypeOK'
  BY <1>1, <1>2, <1>5, <1>7 DEF VaultTypeOK
<1>9. Configured => Configured' /\ CurrentSettings'.password.key = CurrentSettings.password.key
  BY <1>5, <1>6 DEF CurrentSettings
<1>10. RecoveryInForce'
  <2>1. CASE Configured
    BY <1>5, <2>1 DEF VaultSafety, RecoveryInForce, CurrentSettings
  <2>2. CASE ~ Configured
    BY <1>4, <1>5, <2>2 DEF RecoveryInForce, CurrentSettings
  <2>. QED BY <2>1, <2>2
<1>11. InForce(db)' /\ InForce(tmp)' /\ InForce(memory)'
  BY <1>2, <1>9 DEF VaultSafety, InForce
<1>. QED BY <1>7, <1>8, <1>9, <1>10, <1>11, StepSafe

LEMMA OpenVaultSafe ==
  ASSUME VaultSafety, NEW r \in Requests, OpenVault(r)
  PROVE  VaultSafety'
<1>1. VaultTypeOK /\ request[r].step = "opening" /\ Configured
  BY DEF VaultSafety, OpensAfterCreation, OpenVault
<1>2. UNCHANGED <<settings, db, tmp, attached, migrated, shown, disturbed, overlapped, cookie>>
  BY DEF OpenVault, files, history, ServerError
<1>3. CurrentSettings.password.key \in Keys
  BY <1>1, FirstRow DEF VaultTypeOK
<1>4. CASE request[r].password = CurrentSettings.password.secret
  <2>1. memory' = CurrentSettings.password.key /\ Goto(r, "looking")
    BY <1>4 DEF OpenVault
  <2>2. GoesOn(r) /\ request' \in [Requests -> RequestStates]
    BY <1>1, <2>1, GotoSound DEF SetupSteps
  <2>3. VaultTypeOK'
    BY <1>1, <1>2, <1>3, <2>1, <2>2 DEF VaultTypeOK, KeyValues
  <2>4. InForce(db') /\ InForce(tmp') /\ InForce(memory')
    BY <1>1, <1>2, <2>1 DEF VaultSafety, InForce
  <2>. QED BY <1>2, <2>2, <2>3, <2>4, PlainStepSafe
<1>5. CASE request[r].password # CurrentSettings.password.secret
  BY <1>1, <1>2, <1>5, ResponseSafe DEF OpenVault, VaultTypeOK
<1>. QED BY <1>4, <1>5

LEMMA LookAtDatabaseSafe ==
  ASSUME VaultSafety, NEW r \in Requests, LookAtDatabase(r)
  PROVE  VaultSafety'
<1>1. VaultTypeOK /\ request[r].step = "looking"
      /\ UNCHANGED <<settings, db, tmp, attached, memory, migrated, cookie, shown, disturbed>>
      /\ (overlapped' = overlapped \/ overlapped' \in BOOLEAN)
  BY DEF VaultSafety, LookAtDatabase, PassOver, StartEncrypting, files, process
<1>2. PICK s \in SetupSteps : Goto(r, s) /\ s \notin {"opening", "exporting"}
  BY DEF LookAtDatabase, PassOver, StartEncrypting, SetupSteps, CopySteps
<1>3. GoesOn(r) /\ request' \in [Requests -> RequestStates]
  BY <1>1, <1>2, GotoSound DEF SetupSteps
<1>4. VaultTypeOK'
  BY <1>1, <1>3 DEF VaultTypeOK
<1>5. InForce(db') /\ InForce(tmp') /\ InForce(memory')
  BY <1>1 DEF VaultSafety
<1>. QED BY <1>1, <1>3, <1>4, <1>5, PlainStepSafe

(* The key that is taken is the key in force, the zeros or none. *)
LEMMA TakeKeySafe ==
  ASSUME VaultSafety, NEW r \in Requests, TakeKey(r)
  PROVE  VaultSafety'
<1>. DEFINE new == [request[r] EXCEPT !.step = "checking", !.key = memory]
<1>1. VaultTypeOK /\ request[r].step = "taking"
      /\ UNCHANGED <<settings, db, tmp, attached, memory, migrated, cookie, shown, disturbed, overlapped>>
  BY DEF VaultSafety, TakeKey, files, process, history
<1>2. request[r] \in Setups
  BY <1>1, RequestFields DEF SetupSteps, CopySteps
<1>3. new \in Setups /\ new.step = "checking" /\ new.key = memory
  BY <1>1, <1>2 DEF VaultTypeOK, Setups, SetupSteps, CopySteps
<1>4. request' = [request EXCEPT ![r] = new]
  BY DEF TakeKey
<1>. HIDE DEF new
<1>5. new \in RequestStates /\ SoundRequest(new)
  BY <1>3 DEF RequestStates, SoundRequest, VaultSafety
<1>6. GoesOn(r)
  BY <1>3, <1>4, <1>5 DEF GoesOn
<1>7. VaultTypeOK'
  BY <1>1, <1>4, <1>5 DEF VaultTypeOK
<1>8. InForce(db') /\ InForce(tmp') /\ InForce(memory')
  BY <1>1 DEF VaultSafety
<1>. QED BY <1>1, <1>6, <1>7, <1>8, PlainStepSafe

(* A step of the copy: it writes no key but the one it has taken, to the copy
   or to what has become the database, and may move the copy. *)
LEMMA CopyStepSafe ==
  ASSUME VaultSafety, NEW r \in Requests, request[r].step \in SetupSteps,
         UNCHANGED <<settings, memory, migrated, cookie, shown, disturbed, overlapped>>,
         attached' \in [Requests -> Attachments],
         db' \in {db, tmp, request[r].key}, tmp' \in {tmp, NoFile, EmptyFile, request[r].key},
         db' \in KeyValues \cup {NoKey, EmptyFile}, tmp' \in KeyValues \cup {EmptyFile, NoFile},
         GoesOn(r), request' \in [Requests -> RequestStates]
  PROVE  VaultSafety'
<1>1. VaultTypeOK'
  BY DEF VaultSafety, VaultTypeOK
<1>2. InForce(NoFile) /\ InForce(EmptyFile)
  BY VaultAssumption DEF InForce, KeyValues, Keys
<1>3. InForce(request[r].key)
  BY DEF VaultSafety, SoundRequest, KeySteps
<1>4. InForce(db') /\ InForce(tmp') /\ InForce(memory')
  BY <1>2, <1>3 DEF VaultSafety
<1>. QED BY <1>1, <1>4, PlainStepSafe

LEMMA CheckCopySafe ==
  ASSUME VaultSafety, NEW r \in Requests, CheckCopy(r)
  PROVE  VaultSafety'
<1>1. VaultTypeOK /\ request[r].step = "checking"
      /\ UNCHANGED <<settings, db, tmp, attached, memory, migrated, cookie, shown, disturbed, overlapped>>
  BY DEF VaultSafety, CheckCopy, files, process, history
<1>2. PICK s \in SetupSteps : Goto(r, s) /\ s \notin {"opening", "exporting"}
  BY DEF CheckCopy, SetupSteps, CopySteps
<1>3. GoesOn(r) /\ request' \in [Requests -> RequestStates]
  BY <1>1, <1>2, GotoSound DEF SetupSteps, CopySteps
<1>. QED BY <1>1, <1>3, CopyStepSafe DEF VaultTypeOK, SetupSteps, CopySteps

(* Where a step either goes on or fails. *)
LEMMA GoesOnOrFails ==
  ASSUME VaultSafety, NEW r \in Requests, request[r].step \in SetupSteps,
         NEW s \in SetupSteps \ {"opening"},
         ServerError(r) \/ (Goto(r, s) /\ UNCHANGED cookie /\
                            (s = "exporting" => request[r].key # NoKey))
  PROVE  GoesOn(r) /\ request' \in [Requests -> RequestStates] /\ cookie' = cookie
<1>1. CASE ServerError(r)
  BY <1>1, EndSound DEF ServerError, VaultSafety
<1>2. CASE Goto(r, s) /\ UNCHANGED cookie /\ (s = "exporting" => request[r].key # NoKey)
  BY <1>2, GotoSound
<1>. QED BY <1>1, <1>2

LEMMA RemoveCopySafe ==
  ASSUME VaultSafety, NEW r \in Requests, RemoveCopy(r)
  PROVE  VaultSafety'
<1>1. VaultTypeOK /\ request[r].step = "removing"
      /\ UNCHANGED <<settings, db, memory, migrated, shown, disturbed, overlapped>>
      /\ tmp' \in {tmp, NoFile}
  BY DEF VaultSafety, RemoveCopy, process, history
<1>2. "connecting" \in SetupSteps \ {"opening"} /\ request[r].step \in SetupSteps
  BY <1>1 DEF SetupSteps, CopySteps
<1>3. GoesOn(r) /\ request' \in [Requests -> RequestStates] /\ cookie' = cookie
  BY <1>2, GoesOnOrFails DEF RemoveCopy
<1>4. attached' \in [Requests -> Attachments]
  BY <1>1 DEF RemoveCopy, VaultTypeOK, Attachments
<1>. QED BY <1>1, <1>2, <1>3, <1>4, CopyStepSafe DEF VaultTypeOK

LEMMA ConnectSourceSafe ==
  ASSUME VaultSafety, NEW r \in Requests, ConnectSource(r)
  PROVE  VaultSafety'
<1>. DEFINE new == [request[r] EXCEPT !.step = "attaching", !.source = db]
<1>1. VaultTypeOK /\ request[r].step = "connecting"
      /\ UNCHANGED <<settings, db, tmp, attached, memory, migrated, cookie, shown, disturbed, overlapped>>
  BY DEF VaultSafety, ConnectSource, files, process, history
<1>2. request[r] \in Setups /\ InForce(request[r].key)
  BY <1>1, RequestFields DEF SetupSteps, CopySteps, VaultSafety, SoundRequest, KeySteps
<1>3. new \in Setups /\ new.step = "attaching" /\ new.key = request[r].key
  BY <1>1, <1>2 DEF VaultTypeOK, Setups, SetupSteps, CopySteps
<1>4. request' = [request EXCEPT ![r] = new]
  BY DEF ConnectSource
<1>. HIDE DEF new
<1>5. new \in RequestStates /\ SoundRequest(new)
  BY <1>2, <1>3 DEF RequestStates, SoundRequest
<1>6. GoesOn(r) /\ request' \in [Requests -> RequestStates]
  BY <1>1, <1>3, <1>4, <1>5 DEF GoesOn, VaultTypeOK
<1>. QED BY <1>1, <1>6, CopyStepSafe DEF VaultTypeOK, SetupSteps, CopySteps

LEMMA AttachCopySafe ==
  ASSUME VaultSafety, NEW r \in Requests, AttachCopy(r)
  PROVE  VaultSafety'
<1>1. VaultTypeOK /\ request[r].step = "attaching"
      /\ UNCHANGED <<settings, db, memory, migrated, shown, disturbed, overlapped>>
      /\ tmp' \in {tmp, EmptyFile}
  BY DEF VaultSafety, AttachCopy, process, history
<1>2. "exporting" \in SetupSteps \ {"opening"} /\ request[r].step \in SetupSteps
  BY <1>1 DEF SetupSteps, CopySteps
<1>3. GoesOn(r) /\ request' \in [Requests -> RequestStates] /\ cookie' = cookie
  BY <1>2, GoesOnOrFails DEF AttachCopy
<1>4. attached' \in [Requests -> Attachments]
  BY <1>1 DEF AttachCopy, VaultTypeOK, Attachments
<1>. QED BY <1>1, <1>2, <1>3, <1>4, CopyStepSafe DEF VaultTypeOK

(* The files hold what they held or the key that the request has taken. *)
LEMMA FillSafe ==
  ASSUME VaultSafety, NEW r \in Requests, request[r].step = "exporting",
         FillAttached(r) \/ UNCHANGED <<db, tmp>>, Detach(r)
  PROVE  /\ db' \in {db, request[r].key} /\ tmp' \in {tmp, request[r].key}
         /\ db' \in KeyValues \cup {NoKey, EmptyFile} /\ tmp' \in KeyValues \cup {EmptyFile, NoFile}
         /\ attached' \in [Requests -> Attachments]
<1>1. VaultTypeOK /\ request[r].key \in KeyValues
  <2>1. request[r] \in Setups
    BY RequestFields DEF VaultSafety, SetupSteps, CopySteps
  <2>2. request[r].key # NoKey
    BY DEF VaultSafety, SoundRequest
  <2>. QED BY <2>1, <2>2 DEF Setups, VaultSafety
<1>. QED BY <1>1 DEF FillAttached, Detach, VaultTypeOK, Attachments

LEMMA ExportSafe ==
  ASSUME VaultSafety, NEW r \in Requests, ExportCopy(r) \/ ExportFails(r)
  PROVE  VaultSafety'
<1>1. request[r].step = "exporting"
      /\ UNCHANGED <<settings, memory, migrated, shown, disturbed, overlapped>>
      /\ (FillAttached(r) \/ UNCHANGED <<db, tmp>>) /\ Detach(r)
  BY DEF ExportCopy, ExportFails, process, history
<1>2. "moving" \in SetupSteps \ {"opening"} /\ request[r].step \in SetupSteps
  BY <1>1 DEF SetupSteps, CopySteps
<1>3. GoesOn(r) /\ request' \in [Requests -> RequestStates] /\ cookie' = cookie
  BY <1>2, GoesOnOrFails DEF ExportCopy, ExportFails
<1>4. /\ db' \in {db, request[r].key} /\ tmp' \in {tmp, request[r].key}
      /\ db' \in KeyValues \cup {NoKey, EmptyFile} /\ tmp' \in KeyValues \cup {EmptyFile, NoFile}
      /\ attached' \in [Requests -> Attachments]
  BY <1>1, FillSafe
<1>. QED BY <1>1, <1>2, <1>3, <1>4, CopyStepSafe

LEMMA ReplaceDatabaseSafe ==
  ASSUME VaultSafety, NEW r \in Requests, ReplaceDatabase(r)
  PROVE  VaultSafety'
<1>1. VaultTypeOK /\ request[r].step = "moving"
      /\ UNCHANGED <<settings, memory, migrated, shown, disturbed, overlapped>>
      /\ \/ UNCHANGED <<db, tmp, attached>>
         \/ tmp # NoFile /\ MoveCopy
  BY DEF VaultSafety, ReplaceDatabase, process, history
<1>2. "migrating" \in SetupSteps \ {"opening"} /\ request[r].step \in SetupSteps
  BY <1>1 DEF SetupSteps, CopySteps
<1>3. GoesOn(r) /\ request' \in [Requests -> RequestStates] /\ cookie' = cookie
  BY <1>2, GoesOnOrFails DEF ReplaceDatabase
<1>4. attached' \in [Requests -> Attachments] /\ db' \in {db, tmp} /\ tmp' \in {tmp, NoFile}
      /\ db' \in KeyValues \cup {NoKey, EmptyFile} /\ tmp' \in KeyValues \cup {EmptyFile, NoFile}
  BY <1>1 DEF VaultTypeOK, MoveCopy, Attachments
<1>. QED BY <1>1, <1>2, <1>3, <1>4, CopyStepSafe

LEMMA FinishSetupSafe ==
  ASSUME VaultSafety, NEW r \in Requests, FinishSetup(r)
  PROVE  VaultSafety'
<1>1. VaultTypeOK /\ request[r].step = "migrating"
      /\ UNCHANGED <<settings, tmp, attached, memory, disturbed, overlapped>>
  BY DEF VaultSafety, FinishSetup, history
<1>2. request[r].generated \in Keys /\ request[r].session \in Sessions
  BY <1>1, RequestFields DEF SetupSteps, Setups
<1>3. [request[r].session EXCEPT !.unlocked = TRUE] \in Sessions
  BY <1>2 DEF Sessions
<1>4. shown' \in [Browsers -> Keys \cup {NoKey}] /\ migrated' \in BOOLEAN
      /\ (db' = db \/ db' = NoKey)
      /\ (ServerError(r) \/ Respond(r, [request[r].session EXCEPT !.unlocked = TRUE]))
  BY <1>1, <1>2 DEF VaultTypeOK, FinishSetup, Migrate
<1>. QED BY <1>1, <1>3, <1>4, ResponseSafe

-------------------------------------------------------------------------------
(* Unlocking and locking. *)

(* What is unwrapped is the key in force or the zeros. *)
LEMMA StartUnlockSafe ==
  ASSUME VaultSafety, NEW r \in Requests, NEW wrapped, NEW secret,
         wrapped.key \in KeyValues, InForce(wrapped.key), StartUnlock(r, wrapped, secret)
  PROVE  VaultSafety'
<1>1. VaultTypeOK /\ memory' = wrapped.key
      /\ UNCHANGED <<settings, db, tmp, attached, migrated, cookie, shown, disturbed, overlapped>>
  BY DEF VaultSafety, StartUnlock, files, history
<1>. DEFINE new == [step |-> "unlocking", session |-> cookie[BrowserOf[r]]]
<1>2. request' = [request EXCEPT ![r] = new] /\ new.step = "unlocking"
  BY DEF StartUnlock
<1>3. new \in RequestStates
  BY <1>1, VaultAssumption DEF VaultTypeOK, RequestStates
<1>. HIDE DEF new
<1>4. SoundRequest(new)
  BY <1>2 DEF SoundRequest, KeySteps, SetupSteps, CopySteps
<1>5. GoesOn(r)
  BY <1>2, <1>3, <1>4 DEF GoesOn
<1>6. VaultTypeOK'
  BY <1>1, <1>2, <1>3 DEF VaultTypeOK
<1>7. InForce(db') /\ InForce(tmp') /\ InForce(memory')
  BY <1>1 DEF VaultSafety
<1>. QED BY <1>1, <1>5, <1>6, <1>7, PlainStepSafe

LEMMA UnlockSafe ==
  ASSUME VaultSafety, NEW r \in Requests,
         UnlockWithPassword(r) \/ UnlockWithRecovery(r)
  PROVE  VaultSafety'
<1>1. Configured /\ settings \in Seq(SecuritySettings)
  BY DEF UnlockWithPassword, UnlockWithRecovery, VaultSafety, VaultTypeOK
<1>2. CurrentSettings.password.key \in KeyValues /\ CurrentSettings.recovery.key \in KeyValues
  BY <1>1, FirstRow DEF KeyValues
<1>3. InForce(CurrentSettings.password.key) /\ InForce(CurrentSettings.recovery.key)
  BY <1>1 DEF VaultSafety, RecoveryInForce, InForce
<1>4. CASE UnlockWithPassword(r)
  BY <1>2, <1>3, <1>4, StartUnlockSafe DEF UnlockWithPassword
<1>5. CASE UnlockWithRecovery(r)
  BY <1>2, <1>3, <1>5, StartUnlockSafe DEF UnlockWithRecovery
<1>. QED BY <1>4, <1>5

LEMMA FinishUnlockSafe ==
  ASSUME VaultSafety, NEW r \in Requests, FinishUnlock(r)
  PROVE  VaultSafety'
<1>. DEFINE session == [request[r].session EXCEPT !.unlocked = TRUE, !.activity = "recent"]
<1>1. VaultTypeOK /\ request[r].step = "unlocking"
      /\ UNCHANGED <<settings, tmp, attached, memory, shown, disturbed, overlapped>>
  BY DEF VaultSafety, FinishUnlock, history
<1>2. session \in Sessions
  BY <1>1, RequestFields DEF Sessions
<1>3. shown' \in [Browsers -> Keys \cup {NoKey}] /\ migrated' \in BOOLEAN
      /\ (db' = db \/ db' = NoKey)
      /\ (ServerError(r) \/ Respond(r, session))
  BY <1>1 DEF VaultTypeOK, FinishUnlock, Migrate
<1>. QED BY <1>1, <1>2, <1>3, ResponseSafe

LEMMA TurnAwaySafe ==
  ASSUME VaultSafety, NEW r \in Requests, TurnAway(r)
  PROVE  VaultSafety'
<1>1. VaultTypeOK
      /\ UNCHANGED <<settings, db, tmp, attached, memory, migrated, shown, disturbed, overlapped>>
  BY DEF VaultSafety, TurnAway, files, process, history
<1>2. [cookie[BrowserOf[r]] EXCEPT !.unlocked = FALSE] \in Sessions
  <2>1. cookie[BrowserOf[r]] \in Sessions
    BY <1>1, VaultAssumption DEF VaultTypeOK
  <2>. QED BY <2>1 DEF Sessions
<1>3. shown' \in [Browsers -> Keys \cup {NoKey}] /\ migrated' \in BOOLEAN
  BY <1>1 DEF VaultTypeOK
<1>. QED BY <1>1, <1>2, <1>3, ResponseSafe DEF TurnAway

(* A request that the middleware lets through. *)
LEMMA AskSafe ==
  ASSUME VaultSafety, NEW r \in Requests, AskScreen(r) \/ AskLock(r) \/ AskRecovery(r)
  PROVE  VaultSafety'
<1>1. VaultTypeOK
      /\ UNCHANGED <<settings, db, tmp, attached, memory, migrated, cookie, shown, overlapped>>
  BY DEF VaultSafety, AskScreen, AskLock, AskRecovery, files, process, history
<1>2. Active(r) \in Sessions
  <2>1. cookie[BrowserOf[r]] \in Sessions
    BY <1>1, VaultAssumption DEF VaultTypeOK
  <2>. QED BY <2>1 DEF Sessions, Active
<1>3. PICK new \in RequestStates :
        /\ request' = [request EXCEPT ![r] = new]
        /\ \/ new.step \in {"screen", "lock"}
           \/ new.step = "regenerate" /\ new.key = NoKey
  <2>. DEFINE screen == [step |-> "screen", session |-> Active(r)]
              lock == [step |-> "lock", session |-> Active(r)]
              recovery == [step |-> "regenerate", session |-> Active(r),
                           generated |-> GenerateKey, key |-> NoKey]
  <2>1. /\ screen \in RequestStates /\ lock \in RequestStates
        /\ AskRecovery(r) => recovery \in RequestStates
    BY <1>2, GeneratedKey DEF AskRecovery, RequestStates
  <2>2. /\ AskScreen(r) => request' = [request EXCEPT ![r] = screen]
        /\ AskLock(r) => request' = [request EXCEPT ![r] = lock]
        /\ AskRecovery(r) => request' = [request EXCEPT ![r] = recovery]
    BY DEF AskScreen, AskLock, AskRecovery
  <2>3. screen.step = "screen" /\ lock.step = "lock"
        /\ recovery.step = "regenerate" /\ recovery.key = NoKey
    OBVIOUS
  <2>. HIDE DEF screen, lock, recovery
  <2>. QED BY <2>1, <2>2, <2>3
<1>4. disturbed' \in 0..MaxDisturbances
  BY VaultAssumption DEF VaultSafety, VaultTypeOK, AskScreen, AskLock, AskRecovery, history
<1>5. SoundRequest(new)
  BY <1>3, VaultAssumption
     DEF SoundRequest, KeySteps, SetupSteps, CopySteps, InForce, KeyValues, Keys
<1>6. GoesOn(r)
  BY <1>3, <1>5 DEF GoesOn
<1>7. VaultTypeOK'
  BY <1>1, <1>3, <1>4 DEF VaultTypeOK
<1>8. InForce(db') /\ InForce(tmp') /\ InForce(memory')
  BY <1>1 DEF VaultSafety
<1>. QED BY <1>1, <1>6, <1>7, <1>8, PlainStepSafe

LEMMA ViewScreenSafe ==
  ASSUME VaultSafety, NEW r \in Requests, ViewScreen(r)
  PROVE  VaultSafety'
<1>1. VaultTypeOK /\ request[r].step = "screen"
      /\ UNCHANGED <<settings, db, tmp, attached, memory, migrated, shown, disturbed, overlapped>>
  BY DEF VaultSafety, ViewScreen, files, process, history
<1>2. request[r].session \in Sessions
  BY <1>1, RequestFields
<1>3. shown' \in [Browsers -> Keys \cup {NoKey}] /\ migrated' \in BOOLEAN
  BY <1>1 DEF VaultTypeOK
<1>. QED BY <1>1, <1>2, <1>3, ResponseSafe DEF ViewScreen

(* Going to another step of a lock. *)
LEMMA LockStepSound ==
  ASSUME VaultSafety, NEW r \in Requests, request[r].step \in {"lock", "zeroing"},
         NEW s \in {"zeroing", "clearing"}, Goto(r, s)
  PROVE  GoesOn(r) /\ request' \in [Requests -> RequestStates]
<1>. DEFINE new == [request[r] EXCEPT !.step = s]
<1>1. VaultTypeOK /\ request[r] \in RequestStates
  BY RequestFields DEF VaultSafety
<1>2. request[r] \in [step: {"screen", "lock", "zeroing", "clearing"}, session: Sessions]
  BY <1>1 DEF RequestStates, Setups, SetupSteps, CopySteps, Idle
<1>3. new \in RequestStates /\ new.step = s
  BY <1>2 DEF RequestStates
<1>4. request' = [request EXCEPT ![r] = new]
  BY DEF Goto
<1>. HIDE DEF new
<1>5. SoundRequest(new)
  BY <1>3 DEF SoundRequest, KeySteps, SetupSteps, CopySteps
<1>. QED BY <1>1, <1>3, <1>4, <1>5 DEF GoesOn, VaultTypeOK

LEMMA LockNowSafe ==
  ASSUME VaultSafety, NEW r \in Requests, LockNow(r)
  PROVE  VaultSafety'
<1>1. VaultTypeOK /\ request[r].step = "lock"
      /\ UNCHANGED <<settings, db, tmp, attached, memory, migrated, cookie, shown, disturbed, overlapped>>
  BY DEF VaultSafety, LockNow, files, process, history
<1>2. GoesOn(r) /\ request' \in [Requests -> RequestStates]
  BY <1>1, LockStepSound DEF LockNow
<1>3. VaultTypeOK'
  BY <1>1, <1>2 DEF VaultTypeOK
<1>4. InForce(db') /\ InForce(tmp') /\ InForce(memory')
  BY <1>1 DEF VaultSafety
<1>. QED BY <1>1, <1>2, <1>3, <1>4, PlainStepSafe

(* There is a key to overwrite, so the vault has its settings. *)
LEMMA ZeroMemorySafe ==
  ASSUME VaultSafety, NEW r \in Requests, ZeroMemory(r)
  PROVE  VaultSafety'
<1>1. VaultTypeOK /\ request[r].step = "zeroing"
      /\ UNCHANGED <<settings, db, tmp, attached, migrated, shown, disturbed, overlapped>>
  BY DEF VaultSafety, ZeroMemory, files, history
<1>2. CASE memory = NoKey
  <2>1. shown' \in [Browsers -> Keys \cup {NoKey}] /\ migrated' \in BOOLEAN
    BY <1>1 DEF VaultTypeOK
  <2>2. ServerError(r) /\ memory' = memory
    BY <1>2 DEF ZeroMemory
  <2>. QED BY <1>1, <2>1, <2>2, ResponseSafe
<1>3. CASE memory # NoKey
  <2>1. memory' = ZeroKey /\ Goto(r, "clearing") /\ cookie' = cookie
    BY <1>3 DEF ZeroMemory
  <2>2. GoesOn(r) /\ request' \in [Requests -> RequestStates]
    BY <1>1, <2>1, LockStepSound
  <2>3. VaultTypeOK'
    BY <1>1, <2>1, <2>2 DEF VaultTypeOK, KeyValues
  <2>4. Configured
    BY <1>1, <1>3 DEF VaultSafety, InForce, VaultTypeOK
  <2>5. InForce(db') /\ InForce(tmp') /\ InForce(memory')
    BY <1>1, <2>1, <2>4 DEF VaultSafety, InForce
  <2>. QED BY <1>1, <2>2, <2>3, <2>5, PlainStepSafe
<1>. QED BY <1>2, <1>3

LEMMA ClearMemorySafe ==
  ASSUME VaultSafety, NEW r \in Requests, ClearMemory(r)
  PROVE  VaultSafety'
<1>1. VaultTypeOK /\ request[r].step = "clearing" /\ memory' = NoKey
      /\ UNCHANGED <<settings, db, tmp, attached, migrated, shown, disturbed, overlapped>>
  BY DEF VaultSafety, ClearMemory, files, history
<1>2. [request[r].session EXCEPT !.unlocked = FALSE] \in Sessions
  BY <1>1, RequestFields DEF Sessions
<1>3. shown' \in [Browsers -> Keys \cup {NoKey}] /\ migrated' \in BOOLEAN
  BY <1>1 DEF VaultTypeOK
<1>. QED BY <1>1, <1>2, <1>3, ResponseSafe DEF ClearMemory

LEMMA RegenerateRecoverySafe ==
  ASSUME VaultSafety, NEW r \in Requests, RegenerateRecovery(r)
  PROVE  VaultSafety'
<1>1. VaultTypeOK /\ request[r].step = "regenerate"
      /\ UNCHANGED <<settings, db, tmp, attached, memory, migrated, shown, disturbed, overlapped>>
  BY DEF VaultSafety, RegenerateRecovery, files, process, history
<1>2. CASE memory = NoKey
  <2>1. Respond(r, request[r].session) /\ request[r].session \in Sessions
    BY <1>1, <1>2, RequestFields DEF RegenerateRecovery
  <2>2. shown' \in [Browsers -> Keys \cup {NoKey}] /\ migrated' \in BOOLEAN
    BY <1>1 DEF VaultTypeOK
  <2>. QED BY <1>1, <2>1, <2>2, ResponseSafe
<1>3. CASE memory # NoKey
  <2>. DEFINE new == [request[r] EXCEPT !.step = "rewrapping", !.key = memory]
  <2>1. request' = [request EXCEPT ![r] = new] /\ cookie' = cookie
    BY <1>3 DEF RegenerateRecovery
  <2>2. /\ new \in [step: {"regenerate", "rewrapping"}, session: Sessions,
                    generated: Keys, key: KeyValues \cup {NoKey}]
        /\ new.step = "rewrapping" /\ new.key = memory
    BY <1>1, RequestFields DEF VaultTypeOK
  <2>. HIDE DEF new
  <2>3. new \in RequestStates /\ SoundRequest(new)
    BY <1>3, <2>2 DEF RequestStates, SoundRequest, VaultSafety
  <2>4. GoesOn(r)
    BY <2>1, <2>2, <2>3 DEF GoesOn
  <2>5. VaultTypeOK'
    BY <1>1, <2>1, <2>3 DEF VaultTypeOK
  <2>6. InForce(db') /\ InForce(tmp') /\ InForce(memory')
    BY <1>1 DEF VaultSafety
  <2>. QED BY <1>1, <2>4, <2>5, <2>6, PlainStepSafe
<1>. QED BY <1>2, <1>3

(* The new recovery key wraps the key that was taken. *)
LEMMA RewrapKeySafe ==
  ASSUME VaultSafety, NEW r \in Requests, RewrapKey(r)
  PROVE  VaultSafety'
<1>. DEFINE wrap == [secret |-> request[r].generated, key |-> request[r].key]
            row == [settings[1] EXCEPT !.recovery = wrap]
<1>1. VaultTypeOK /\ request[r].step = "rewrapping" /\ Respond(r, request[r].session)
      /\ UNCHANGED <<db, tmp, attached, memory, migrated, disturbed, overlapped>>
      /\ settings' = [settings EXCEPT ![1] = row]
      /\ shown' = [shown EXCEPT ![BrowserOf[r]] = request[r].generated]
  BY DEF VaultSafety, RewrapKey, process, history
<1>2. request[r].session \in Sessions /\ request[r].generated \in Keys
      /\ request[r].key \in KeyValues
  BY <1>1, RequestFields DEF VaultSafety, SoundRequest
<1>3. Configured /\ request[r].key \in {CurrentSettings.password.key, ZeroKey}
  BY <1>1, <1>2 DEF VaultSafety, SoundRequest, KeySteps, InForce
<1>4. settings \in Seq(SecuritySettings) /\ 1 \in 1..Len(settings)
      /\ settings[1] \in SecuritySettings
  BY <1>1, <1>3, ElementOfSeq, LenProperties DEF VaultTypeOK, Configured
<1>5. row \in SecuritySettings /\ row.password = settings[1].password
      /\ row.recovery.key = request[r].key
  BY <1>2, <1>4 DEF SecuritySettings, Wrapped
<1>. HIDE DEF row
<1>6. settings' \in Seq(SecuritySettings) /\ Len(settings') = Len(settings)
      /\ settings'[1] = row
  BY <1>1, <1>4, <1>5, ExceptSeq
<1>7. shown' \in [Browsers -> Keys \cup {NoKey}] /\ cookie' \in [Browsers -> Sessions]
  BY <1>1, <1>2 DEF VaultTypeOK, Respond
<1>8. GoesOn(r) /\ request' \in [Requests -> RequestStates]
  BY <1>1, EndSound DEF Respond
<1>9. VaultTypeOK'
  BY <1>1, <1>6, <1>7, <1>8 DEF VaultTypeOK
<1>10. Configured' /\ CurrentSettings'.password.key = CurrentSettings.password.key
       /\ CurrentSettings'.recovery.key = request[r].key
  BY <1>3, <1>5, <1>6 DEF CurrentSettings, Configured
<1>11. RecoveryInForce'
  BY <1>3, <1>10 DEF RecoveryInForce
<1>12. InForce(db)' /\ InForce(tmp)' /\ InForce(memory)'
  BY <1>1, <1>3, <1>10 DEF VaultSafety, InForce
<1>. QED BY <1>8, <1>9, <1>10, <1>11, <1>12, StepSafe

-------------------------------------------------------------------------------
(* The surroundings. *)

(* A step of no request, after which they are what they were or all idle. *)
LEMMA SurroundingsSafe ==
  ASSUME VaultSafety, VaultTypeOK', settings' = settings, tmp' = tmp,
         db' = db \/ db' = NoKey, memory' = memory \/ memory' = NoKey,
         request' = request \/ request' = [r \in Requests |-> Idle]
  PROVE  VaultSafety'
<1>1. Configured' = Configured /\ CurrentSettings' = CurrentSettings
  BY DEF Configured, CurrentSettings
<1>2. RecoveryInForce'
  BY <1>1 DEF VaultSafety, RecoveryInForce
<1>3. InForce(NoKey)
  BY VaultAssumption DEF InForce, KeyValues, Keys
<1>4. InForce(db)' /\ InForce(tmp)' /\ InForce(memory)'
  BY <1>1, <1>3 DEF VaultSafety, InForce
<1>5. ASSUME NEW r \in Requests
      PROVE  SoundRequest(request[r])' /\ (request'[r].step = "opening" => Configured')
  <2>1. CASE request' = request
    BY <1>1, <2>1 DEF VaultSafety, SoundRequest, InForce, OpensAfterCreation
  <2>2. CASE request' = [q \in Requests |-> Idle]
    BY <2>2 DEF SoundRequest, KeySteps, SetupSteps, CopySteps, Idle
  <2>. QED BY <2>1, <2>2
<1>. QED BY <1>2, <1>4, <1>5 DEF VaultSafety, OpensAfterCreation

LEMMA GoIdleSafe == VaultSafety /\ GoIdle => VaultSafety'
<1>. SUFFICES ASSUME VaultSafety, GoIdle PROVE VaultSafety'
  OBVIOUS
<1>1. VaultTypeOK
      /\ UNCHANGED <<settings, db, tmp, attached, memory, migrated, shown, request, overlapped>>
      /\ disturbed' = disturbed + 1 /\ disturbed < MaxDisturbances
  BY DEF VaultSafety, GoIdle, files, process
<1>2. ASSUME NEW b \in Browsers
      PROVE  [cookie[b] EXCEPT !.activity = "old"] \in Sessions
  <2>1. cookie[b] \in Sessions
    BY <1>1 DEF VaultTypeOK
  <2>. QED BY <2>1 DEF Sessions
<1>3. cookie' \in [Browsers -> Sessions]
  BY <1>1, <1>2 DEF GoIdle, VaultTypeOK
<1>4. VaultTypeOK'
  BY <1>1, <1>3, VaultAssumption DEF VaultTypeOK
<1>. QED BY <1>1, <1>4, SurroundingsSafe

LEMMA RestartSafe == VaultSafety /\ Restart => VaultSafety'
<1>. SUFFICES ASSUME VaultSafety, Restart PROVE VaultSafety'
  OBVIOUS
<1>1. VaultTypeOK /\ UNCHANGED <<settings, tmp, cookie, shown, overlapped>>
      /\ memory' = NoKey /\ migrated' = FALSE /\ request' = [r \in Requests |-> Idle]
      /\ (db' = db \/ db' = NoKey) /\ attached' = [r \in Requests |-> "nothing"]
      /\ disturbed' = disturbed + 1 /\ disturbed < MaxDisturbances
  BY DEF VaultSafety, Restart
<1>2. request' \in [Requests -> RequestStates] /\ attached' \in [Requests -> Attachments]
  BY <1>1 DEF RequestStates, Attachments
<1>3. VaultTypeOK'
  <2>1. disturbed' \in 0..MaxDisturbances
    BY <1>1, VaultAssumption DEF VaultTypeOK
  <2>2. memory' \in KeyValues \cup {NoKey} /\ migrated' \in BOOLEAN
    BY <1>1
  <2>. QED BY <1>1, <1>2, <2>1, <2>2 DEF VaultTypeOK
<1>. QED BY <1>1, <1>3, SurroundingsSafe

LEMMA NextVaultSafe == VaultSafety /\ [Next]_vaultVars => VaultSafety'
<1>. SUFFICES ASSUME VaultSafety, [Next]_vaultVars PROVE VaultSafety'
  OBVIOUS
<1>1. CASE \E r \in Requests : \E p \in SetupPasswords[r] : StartSetup(r, p)
  BY <1>1, StartSetupSafe
<1>2. CASE \E r \in Requests : SetupStep(r)
  BY <1>2, CreateSettingsSafe, OpenVaultSafe, LookAtDatabaseSafe, TakeKeySafe, CheckCopySafe,
     RemoveCopySafe, ConnectSourceSafe, AttachCopySafe, ExportSafe, ReplaceDatabaseSafe,
     FinishSetupSafe DEF SetupStep
<1>3. CASE \E r \in Requests : UnlockWithPassword(r) \/ UnlockWithRecovery(r) \/ FinishUnlock(r)
  BY <1>3, UnlockSafe, FinishUnlockSafe
<1>4. CASE \E r \in Requests : AskScreen(r) \/ AskLock(r) \/ AskRecovery(r) \/ TurnAway(r)
  BY <1>4, AskSafe, TurnAwaySafe
<1>5. CASE \E r \in Requests : View(r)
  BY <1>5, ViewScreenSafe, LockNowSafe, ZeroMemorySafe, ClearMemorySafe,
     RegenerateRecoverySafe, RewrapKeySafe DEF View
<1>6. CASE GoIdle \/ Restart
  BY <1>6, GoIdleSafe, RestartSafe
<1>7. CASE UNCHANGED vaultVars
  <2>1. UNCHANGED <<settings, db, tmp, attached, memory, migrated, cookie, shown, request,
                    disturbed, overlapped>>
    BY <1>7 DEF vaultVars, files, process, history
  <2>2. VaultTypeOK'
    BY <2>1 DEF VaultSafety, VaultTypeOK
  <2>. QED BY <2>1, <2>2, SurroundingsSafe
<1>. QED BY <1>1, <1>2, <1>3, <1>4, <1>5, <1>6, <1>7 DEF Next

THEOREM VaultAlwaysSafe == Spec => []VaultSafety
<1>1. Init => VaultSafety
  BY InitVaultSafe
<1>2. VaultSafety /\ [Next]_vaultVars => VaultSafety'
  BY NextVaultSafe
<1>. QED BY <1>1, <1>2, PTL DEF Spec

(* The rows, files, keys, cookies and requests keep their types. *)
THEOREM VaultTyped == Spec => []VaultTypeOK
<1>1. VaultSafety => VaultTypeOK
  BY DEF VaultSafety
<1>. QED BY <1>1, VaultAlwaysSafe, PTL

(* Whatever setups race, and whatever is locked, restarted or regenerated in
   the meantime, the files, the memory and the recovery key have the key that
   the password in force unwraps, or the zeros that a lock leaves for a
   moment. *)
THEOREM VaultHasOneKey == Spec => []OneVaultKey
<1>1. VaultSafety => OneVaultKey
  BY SafetyIsOneVaultKey
<1>. QED BY <1>1, VaultAlwaysSafe, PTL

-------------------------------------------------------------------------------
(* The zeros. *)

(* No request is about to take the zeros of a lock for the key. *)
TakesNoZeros ==
  \A r \in Requests : request[r].step \in {"taking", "regenerate"} => memory # ZeroKey

(* OnlyVaultKey is not inductive alone either: a key that has been taken is
   written later. *)
NoZerosTaken ==
  /\ OnlyVaultKey
  /\ \A r \in Requests : request[r].step \in KeySteps => request[r].key # ZeroKey

(* A step that takes no key and writes none but the one it has taken. *)
LEMMA NoneTaken ==
  ASSUME NoZerosTaken, NEW r \in Requests, VaultTypeOK, settings' = settings,
         \/ db' = db /\ tmp' = tmp
         \/ request[r].step \in KeySteps /\ db' \in {db, tmp, NoKey, request[r].key}
            /\ tmp' \in {tmp, NoFile, EmptyFile, request[r].key},
         \E new : /\ request' = [request EXCEPT ![r] = new]
                  /\ new.step \in KeySteps => new.key # ZeroKey
  PROVE  NoZerosTaken'
<1>1. OnlyVaultKey'
  BY DEF NoZerosTaken, OnlyVaultKey, Configured, CurrentSettings
<1>2. \A q \in Requests : request'[q].step \in KeySteps => request'[q].key # ZeroKey
  BY DEF NoZerosTaken, VaultTypeOK
<1>. QED BY <1>1, <1>2 DEF NoZerosTaken

(* A response that changes no file but an empty one. *)
LEMMA NoneTakenAtTheEnd ==
  ASSUME NoZerosTaken, NEW r \in Requests, VaultTypeOK, settings' = settings, tmp' = tmp,
         db' = db \/ db' = NoKey, request' = [request EXCEPT ![r] = Idle]
  PROVE  NoZerosTaken'
<1>1. OnlyVaultKey'
  BY DEF NoZerosTaken, OnlyVaultKey, Configured, CurrentSettings
<1>2. Idle.step \notin KeySteps
  BY DEF Idle, KeySteps, SetupSteps, CopySteps
<1>3. \A q \in Requests : request'[q].step \in KeySteps => request'[q].key # ZeroKey
  BY <1>2 DEF NoZerosTaken, VaultTypeOK
<1>. QED BY <1>1, <1>3 DEF NoZerosTaken

(* Going on, or failing, with the key that the request has. *)
LEMMA SameKey ==
  ASSUME NoZerosTaken, NEW r \in Requests, VaultTypeOK, request[r].step \in SetupSteps,
         NEW s \in SetupSteps, Goto(r, s) \/ ServerError(r)
  PROVE  \E new : /\ request' = [request EXCEPT ![r] = new]
                  /\ new.step \in KeySteps => new.key # ZeroKey
<1>1. request[r] \in Setups
  BY RequestFields
<1>2. CASE Goto(r, s)
  <2>1. [request[r] EXCEPT !.step = s].key # ZeroKey
    BY <1>1 DEF NoZerosTaken, Setups, KeySteps
  <2>. QED BY <1>2, <2>1 DEF Goto
<1>3. CASE ServerError(r)
  <2>1. Idle.step \notin KeySteps
    BY DEF Idle, KeySteps, SetupSteps, CopySteps
  <2>. QED BY <1>3, <2>1 DEF ServerError
<1>. QED BY <1>2, <1>3

LEMMA SetupTakesNone ==
  ASSUME NoZerosTaken, VaultSafety, TakesNoZeros, NEW r \in Requests, SetupStep(r)
  PROVE  NoZerosTaken'
<1>1. VaultTypeOK
  BY DEF VaultSafety
<1>2. CASE CreateSettings(r)
  <2>0. UNCHANGED <<db, tmp>>
    BY <1>2 DEF CreateSettings
  <2>1. PICK row : settings' = Append(settings, row) /\ row.recovery.key = row.password.key
    BY <1>2 DEF CreateSettings
  <2>2. settings \in Seq(SecuritySettings)
    BY <1>1 DEF VaultTypeOK
  <2>3. settings'[1] = IF Configured THEN settings[1] ELSE row
    BY <2>1, <2>2 DEF Configured
  <2>4. OnlyVaultKey'
    BY <2>0, <2>1, <2>3 DEF NoZerosTaken, OnlyVaultKey, CurrentSettings
  <2>5. PICK new : request' = [request EXCEPT ![r] = new] /\ (new.step \in KeySteps => new.key # ZeroKey)
    BY <1>1, <1>2, SameKey DEF CreateSettings, SetupSteps
  <2>6. \A q \in Requests : request'[q].step \in KeySteps => request'[q].key # ZeroKey
    BY <1>1, <2>5 DEF NoZerosTaken, VaultTypeOK
  <2>. QED BY <2>4, <2>6 DEF NoZerosTaken
<1>3. CASE OpenVault(r) \/ LookAtDatabase(r) \/ CheckCopy(r)
  <2>1. request[r].step \in SetupSteps /\ UNCHANGED <<settings, db, tmp>>
    BY <1>3 DEF OpenVault, LookAtDatabase, CheckCopy, SetupSteps, CopySteps, files
  <2>2. \E s \in SetupSteps : Goto(r, s) \/ ServerError(r)
    BY <1>3 DEF OpenVault, LookAtDatabase, PassOver, StartEncrypting, CheckCopy, SetupSteps, CopySteps
  <2>. QED BY <1>1, <2>1, <2>2, SameKey, NoneTaken
<1>4. CASE TakeKey(r)
  <2>1. request' = [request EXCEPT ![r] = [request[r] EXCEPT !.step = "checking", !.key = memory]]
        /\ request[r].step = "taking" /\ UNCHANGED <<settings, db, tmp>>
    BY <1>4 DEF TakeKey, files
  <2>2. request[r] \in Setups /\ memory # ZeroKey
    BY <1>1, <2>1, RequestFields DEF TakesNoZeros, SetupSteps, CopySteps
  <2>3. [request[r] EXCEPT !.step = "checking", !.key = memory].key # ZeroKey
    BY <2>2 DEF Setups
  <2>. QED BY <1>1, <2>1, <2>3, NoneTaken
<1>5. CASE ConnectSource(r)
  <2>1. request' = [request EXCEPT ![r] = [request[r] EXCEPT !.step = "attaching", !.source = db]]
        /\ request[r].step = "connecting" /\ UNCHANGED <<settings, db, tmp>>
    BY <1>5 DEF ConnectSource, files
  <2>2. request[r] \in Setups
    BY <1>1, <2>1, RequestFields DEF SetupSteps, CopySteps
  <2>3. [request[r] EXCEPT !.step = "attaching", !.source = db].key # ZeroKey
    BY <2>1, <2>2 DEF Setups, NoZerosTaken, KeySteps, SetupSteps, CopySteps
  <2>. QED BY <1>1, <2>1, <2>3, NoneTaken
<1>6. CASE RemoveCopy(r) \/ AttachCopy(r) \/ ExportCopy(r) \/ ExportFails(r) \/ ReplaceDatabase(r)
  <2>1. request[r].step \in SetupSteps /\ settings' = settings
        /\ db' \in {db, tmp, NoKey, request[r].key}
        /\ tmp' \in {tmp, NoFile, EmptyFile, request[r].key}
    BY <1>6 DEF RemoveCopy, AttachCopy, ExportCopy, ExportFails, ReplaceDatabase, FillAttached,
                MoveCopy, SetupSteps, CopySteps
  <2>2. \E s \in SetupSteps : Goto(r, s) \/ ServerError(r)
    BY <1>6 DEF RemoveCopy, AttachCopy, ExportCopy, ExportFails, ReplaceDatabase, SetupSteps, CopySteps
  <2>. QED BY <1>1, <2>1, <2>2, SameKey, NoneTaken DEF KeySteps
<1>7. CASE FinishSetup(r)
  <2>1. request' = [request EXCEPT ![r] = Idle] /\ (db' = db \/ db' = NoKey)
        /\ UNCHANGED <<settings, tmp>>
    BY <1>7 DEF FinishSetup, Migrate, Respond, ServerError
  <2>. QED BY <1>1, <2>1, NoneTakenAtTheEnd
<1>. QED BY <1>2, <1>3, <1>4, <1>5, <1>6, <1>7 DEF SetupStep

LEMMA OthersTakeNone ==
  ASSUME NoZerosTaken, VaultSafety, TakesNoZeros, NEW r \in Requests,
         \/ \E p \in SetupPasswords[r] : StartSetup(r, p)
         \/ UnlockWithPassword(r) \/ UnlockWithRecovery(r) \/ FinishUnlock(r)
         \/ AskScreen(r) \/ AskLock(r) \/ AskRecovery(r) \/ TurnAway(r) \/ View(r)
  PROVE  NoZerosTaken'
<1>1. VaultTypeOK
  BY DEF VaultSafety
<1>2. CASE \/ \E p \in SetupPasswords[r] : StartSetup(r, p)
           \/ UnlockWithPassword(r) \/ UnlockWithRecovery(r)
           \/ AskScreen(r) \/ AskLock(r) \/ AskRecovery(r)
  <2>1. UNCHANGED <<settings, db, tmp>>
    BY <1>2 DEF StartSetup, UnlockWithPassword, UnlockWithRecovery, StartUnlock, AskScreen,
                AskLock, AskRecovery, files
  <2>2. \E new : /\ request' = [request EXCEPT ![r] = new]
                 /\ new.step \in KeySteps => new.key # ZeroKey
    <3>. DEFINE session == cookie[BrowserOf[r]]
                setup(p) == [step |-> "creating", session |-> session, password |-> p,
                             generated |-> GenerateKey, key |-> NoKey, source |-> NoFile]
                ask(step) == [step |-> step, session |-> Active(r)]
                unlock == [step |-> "unlocking", session |-> session]
                recovery == [step |-> "regenerate", session |-> Active(r),
                             generated |-> GenerateKey, key |-> NoKey]
    <3>1. \/ \E p : request' = [request EXCEPT ![r] = setup(p)]
          \/ request' = [request EXCEPT ![r] = ask("screen")]
          \/ request' = [request EXCEPT ![r] = ask("lock")]
          \/ request' = [request EXCEPT ![r] = unlock]
          \/ request' = [request EXCEPT ![r] = recovery]
      BY <1>2 DEF StartSetup, UnlockWithPassword, UnlockWithRecovery, StartUnlock, AskScreen,
                  AskLock, AskRecovery
    <3>2. /\ \A p : setup(p).key # ZeroKey
          /\ recovery.key # ZeroKey
          /\ ask("screen").step \notin KeySteps /\ ask("lock").step \notin KeySteps
          /\ unlock.step \notin KeySteps
      BY DEF KeySteps, SetupSteps, CopySteps
    <3>. HIDE DEF setup, ask, unlock, recovery
    <3>. QED BY <3>1, <3>2
  <2>. QED BY <1>1, <2>1, <2>2, NoneTaken
<1>3. CASE FinishUnlock(r) \/ TurnAway(r) \/ ViewScreen(r) \/ ClearMemory(r)
  <2>1. request' = [request EXCEPT ![r] = Idle] /\ (db' = db \/ db' = NoKey)
        /\ UNCHANGED <<settings, tmp>>
    BY <1>3 DEF FinishUnlock, Migrate, TurnAway, ViewScreen, ClearMemory, Respond, ServerError, files
  <2>. QED BY <1>1, <2>1, NoneTakenAtTheEnd
<1>4. CASE LockNow(r) \/ ZeroMemory(r)
  <2>1. UNCHANGED <<settings, db, tmp>> /\ request[r].step \in {"lock", "zeroing"}
        /\ \/ ServerError(r)
           \/ \E s \in {"zeroing", "clearing"} : Goto(r, s)
    BY <1>4 DEF LockNow, ZeroMemory, files
  <2>2. request[r] \in [step: {"screen", "lock", "zeroing", "clearing"}, session: Sessions]
    BY <1>1, <2>1, RequestFields DEF RequestStates, Setups, SetupSteps, CopySteps, Idle
  <2>3. \A s \in {"zeroing", "clearing"} : [request[r] EXCEPT !.step = s].step \notin KeySteps
    BY <2>2 DEF KeySteps, SetupSteps, CopySteps
  <2>4. Idle.step \notin KeySteps
    BY DEF Idle, KeySteps, SetupSteps, CopySteps
  <2>5. \E new : /\ request' = [request EXCEPT ![r] = new]
                 /\ new.step \in KeySteps => new.key # ZeroKey
    BY <2>1, <2>3, <2>4 DEF Goto, ServerError
  <2>. QED BY <1>1, <2>1, <2>5, NoneTaken
<1>5. CASE RegenerateRecovery(r)
  <2>1. UNCHANGED <<settings, db, tmp>> /\ request[r].step = "regenerate"
    BY <1>5 DEF RegenerateRecovery, files
  <2>2. CASE memory = NoKey
    <3>1. request' = [request EXCEPT ![r] = Idle]
      BY <1>5, <2>2 DEF RegenerateRecovery, Respond
    <3>. QED BY <1>1, <2>1, <3>1, NoneTakenAtTheEnd
  <2>3. CASE memory # NoKey
    <3>1. request' = [request EXCEPT ![r] = [request[r] EXCEPT !.step = "rewrapping", !.key = memory]]
      BY <1>5, <2>3 DEF RegenerateRecovery
    <3>2. [request[r] EXCEPT !.step = "rewrapping", !.key = memory].key = memory
      BY <1>1, <2>1, RequestFields
    <3>3. memory # ZeroKey
      BY <2>1 DEF TakesNoZeros
    <3>. QED BY <1>1, <2>1, <3>1, <3>2, <3>3, NoneTaken
  <2>. QED BY <2>2, <2>3
<1>6. CASE RewrapKey(r)
  <2>1. /\ settings' = [settings EXCEPT ![1].recovery =
                          [secret |-> request[r].generated, key |-> request[r].key]]
        /\ UNCHANGED <<db, tmp>> /\ request' = [request EXCEPT ![r] = Idle]
        /\ request[r].step = "rewrapping"
    BY <1>6 DEF RewrapKey, Respond
  <2>2. request[r].key = CurrentSettings.password.key /\ Configured
    <3>1. request[r].key \in KeyValues /\ InForce(request[r].key) /\ request[r].key # ZeroKey
      BY <1>1, <2>1, RequestFields DEF VaultSafety, SoundRequest, KeySteps, NoZerosTaken
    <3>. QED BY <3>1 DEF InForce
  <2>3. settings[1] \in SecuritySettings /\ 1 \in DOMAIN settings
    BY <1>1, <2>2, FirstRow DEF VaultTypeOK
  <2>4. settings'[1] = [settings[1] EXCEPT !.recovery =
                          [secret |-> request[r].generated, key |-> request[r].key]]
    BY <2>1, <2>3
  <2>5. settings'[1].recovery.key = settings'[1].password.key
    BY <2>2, <2>3, <2>4 DEF SecuritySettings, CurrentSettings
  <2>6. OnlyVaultKey'
    BY <2>1, <2>5 DEF NoZerosTaken, OnlyVaultKey, CurrentSettings
  <2>7. Idle.step \notin KeySteps
    BY DEF Idle, KeySteps, SetupSteps, CopySteps
  <2>8. \A q \in Requests : request'[q].step \in KeySteps => request'[q].key # ZeroKey
    BY <1>1, <2>1, <2>7 DEF NoZerosTaken, VaultTypeOK
  <2>. QED BY <2>6, <2>8 DEF NoZerosTaken
<1>. QED BY <1>2, <1>3, <1>4, <1>5, <1>6 DEF View

LEMMA NextTakesNone ==
  NoZerosTaken /\ VaultSafety /\ TakesNoZeros /\ [Next]_vaultVars => NoZerosTaken'
<1>. SUFFICES ASSUME NoZerosTaken, VaultSafety, TakesNoZeros, [Next]_vaultVars
              PROVE  NoZerosTaken'
  OBVIOUS
<1>1. CASE \E r \in Requests : SetupStep(r)
  BY <1>1, SetupTakesNone
<1>2. CASE \E r \in Requests :
             \/ \E p \in SetupPasswords[r] : StartSetup(r, p)
             \/ UnlockWithPassword(r) \/ UnlockWithRecovery(r) \/ FinishUnlock(r)
             \/ AskScreen(r) \/ AskLock(r) \/ AskRecovery(r) \/ TurnAway(r) \/ View(r)
  BY <1>2, OthersTakeNone
<1>3. CASE GoIdle \/ Restart
  <2>1. UNCHANGED <<settings, tmp>> /\ (db' = db \/ db' = NoKey)
        /\ (request' = request \/ request' = [r \in Requests |-> Idle])
    BY <1>3 DEF GoIdle, Restart, files
  <2>2. OnlyVaultKey'
    BY <2>1 DEF NoZerosTaken, OnlyVaultKey, Configured, CurrentSettings
  <2>3. \A r \in Requests : request'[r].step \in KeySteps => request'[r].key # ZeroKey
    BY <2>1 DEF NoZerosTaken, KeySteps, SetupSteps, CopySteps, Idle
  <2>. QED BY <2>2, <2>3 DEF NoZerosTaken
<1>4. CASE UNCHANGED vaultVars
  BY <1>4 DEF vaultVars, files, NoZerosTaken, OnlyVaultKey, Configured, CurrentSettings
<1>. QED BY <1>1, <1>2, <1>3, <1>4 DEF Next

(* As long as no request takes the key between the two writes of a lock, the
   zeros get into no file and no recovery key: whatever setups race, the
   recovery key of the settings unwraps what their password unwraps. *)
THEOREM LocksApartKeepOneKey == Spec /\ []TakesNoZeros => []OnlyVaultKey
<1>1. Init => NoZerosTaken
  BY DEF Init, NoZerosTaken, OnlyVaultKey, Configured, KeySteps, SetupSteps, CopySteps, Idle
<1>2. NoZerosTaken /\ VaultSafety /\ TakesNoZeros /\ [Next]_vaultVars => NoZerosTaken'
  BY NextTakesNone
<1>3. NoZerosTaken => OnlyVaultKey
  BY DEF NoZerosTaken
<1>. QED BY <1>1, <1>2, <1>3, VaultAlwaysSafe, PTL DEF Spec

-------------------------------------------------------------------------------
(* Setups that encrypt alone. *)

(* What the files are in each step of the setup that is encrypting: what is
   moved over the plaintext database is the copy that it has filled itself,
   with the key that it has taken. *)
LoneSetup(r) ==
  LET step == request[r].step
  IN  /\ step = "migrating" => Encrypted
      /\ Encrypting(r) => db = NoKey
      /\ step \in {"connecting", "attaching"} => tmp = NoFile
      /\ step \in {"attaching", "exporting"} => request[r].source = NoKey
      /\ step = "exporting" =>
           attached[r] = "copy" /\ tmp = EmptyFile /\ request[r].key \in KeyValues
      /\ step = "moving" => tmp \in KeyValues

Apart == \A r, q \in Requests : Encrypting(r) /\ Encrypting(q) => r = q

LoneSafety == ~ overlapped => db # EmptyFile /\ Apart /\ \A r \in Requests : LoneSetup(r)

LEMMA LoneSafetySuffices == LoneSafety => LoneSetupsEncrypt
BY DEF LoneSafety, LoneSetup, Apart, LoneSetupsEncrypt, SetupEncrypts

(* A step of a request that is not encrypting and does not begin to. *)
LEMMA AsideIsLone ==
  ASSUME LoneSafety, VaultTypeOK, NEW r \in Requests, overlapped' = overlapped,
         tmp' = tmp, attached' = attached, db' = db \/ (db = EmptyFile /\ db' = NoKey),
         \E new : /\ request' = [request EXCEPT ![r] = new]
                  /\ new.step \notin CopySteps
                  /\ new.step = "migrating" => Encrypted \/ db = EmptyFile
  PROVE  LoneSafety'
<1>. SUFFICES ASSUME ~ overlapped' PROVE (db # EmptyFile /\ Apart /\ \A q \in Requests : LoneSetup(q))'
  BY DEF LoneSafety
<1>1. db # EmptyFile /\ db' = db /\ Apart /\ \A q \in Requests : LoneSetup(q)
  BY DEF LoneSafety
<1>2. PICK new : /\ request' = [request EXCEPT ![r] = new]
                 /\ new.step \notin CopySteps
                 /\ new.step = "migrating" => Encrypted
  BY <1>1
<1>3. request'[r] = new /\ \A q \in Requests \ {r} : request'[q] = request[q]
  BY <1>2 DEF VaultTypeOK
<1>4. Apart'
  BY <1>1, <1>2, <1>3 DEF Apart, Encrypting
<1>5. LoneSetup(r)'
  BY <1>1, <1>2, <1>3 DEF LoneSetup, Encrypting, CopySteps, Encrypted
<1>6. ASSUME NEW q \in Requests \ {r}
      PROVE  LoneSetup(q)'
  BY <1>1, <1>3 DEF LoneSetup, Encrypting, Encrypted
<1>. QED BY <1>1, <1>4, <1>5, <1>6

(* A step of the one that is: it is what LoneSetup asks of it in its next
   step, and nobody else is encrypting or has to find an encrypted database. *)
LEMMA CopyIsLone ==
  ASSUME LoneSafety, VaultTypeOK, NEW r \in Requests, Encrypting(r), overlapped' = overlapped,
         NEW new, request' = [request EXCEPT ![r] = new],
         ~ overlapped => LoneSetup(r)' /\ db' # EmptyFile
  PROVE  LoneSafety'
<1>. SUFFICES ASSUME ~ overlapped' PROVE (db # EmptyFile /\ Apart /\ \A q \in Requests : LoneSetup(q))'
  BY DEF LoneSafety
<1>1. db = NoKey /\ Apart /\ LoneSetup(r)' /\ db' # EmptyFile
      /\ \A q \in Requests : LoneSetup(q)
  BY DEF LoneSafety, LoneSetup
<1>2. request'[r] = new /\ \A q \in Requests \ {r} : request'[q] = request[q]
  BY DEF VaultTypeOK
<1>3. \A q \in Requests \ {r} : ~ Encrypting(q) /\ request[q].step # "migrating"
  <2>1. NoKey \notin KeyValues
    BY VaultAssumption DEF KeyValues, Keys
  <2>2. ~ Encrypted
    BY <1>1, <2>1 DEF Encrypted
  <2>. QED BY <1>1, <2>2 DEF Apart, LoneSetup
<1>4. Apart'
  BY <1>2, <1>3 DEF Apart, Encrypting
<1>5. ASSUME NEW q \in Requests \ {r}
      PROVE  LoneSetup(q)'
  <2>1. request'[q].step \notin CopySteps \cup {"migrating"}
    BY <1>2, <1>3 DEF Encrypting
  <2>. QED BY <2>1 DEF LoneSetup, Encrypting, CopySteps
<1>. QED BY <1>1, <1>4, <1>5

(* What LoneSetup says of a request in the step that it goes to. *)
LEMMA GotoStep ==
  ASSUME VaultTypeOK, NEW r \in Requests, request[r].step \in SetupSteps,
         NEW s \in SetupSteps, Goto(r, s)
  PROVE  /\ request' = [request EXCEPT ![r] = [request[r] EXCEPT !.step = s]]
         /\ request'[r].step = s
         /\ request'[r].key = request[r].key /\ request'[r].source = request[r].source
<1>1. request[r] \in Setups
  BY RequestFields
<1>2. request' = [request EXCEPT ![r] = [request[r] EXCEPT !.step = s]]
  BY DEF Goto
<1>. QED BY <1>1, <1>2 DEF VaultTypeOK, Setups

LEMMA EndStep ==
  ASSUME VaultTypeOK, NEW r \in Requests, ServerError(r)
  PROVE  request' = [request EXCEPT ![r] = Idle] /\ LoneSetup(r)'
<1>1. request' = [request EXCEPT ![r] = Idle]
  BY DEF ServerError
<1>2. request'[r].step = "idle"
  BY <1>1 DEF VaultTypeOK, Idle
<1>. QED BY <1>1, <1>2 DEF LoneSetup, Encrypting, CopySteps

(* The look at the database is where a second setup is noticed. *)
LEMMA LookIsLone ==
  ASSUME LoneSafety, VaultTypeOK, NEW r \in Requests, LookAtDatabase(r)
  PROVE  LoneSafety'
<1>1. request[r].step = "looking" /\ UNCHANGED <<db, tmp, attached>>
  BY DEF LookAtDatabase, files
<1>2. "migrating" \in SetupSteps /\ "taking" \in SetupSteps /\ request[r].step \in SetupSteps
  BY <1>1 DEF SetupSteps, CopySteps
<1>3. CASE Encrypted \/ db = EmptyFile
  <2>1. Goto(r, "migrating") /\ overlapped' = overlapped
    BY <1>3 DEF LookAtDatabase, PassOver
  <2>2. request' = [request EXCEPT ![r] = [request[r] EXCEPT !.step = "migrating"]]
        /\ [request[r] EXCEPT !.step = "migrating"].step = "migrating"
    BY <1>2, <2>1, RequestFields DEF Goto, Setups
  <2>3. "migrating" \notin CopySteps
    BY DEF CopySteps
  <2>. QED BY <1>1, <1>3, <2>1, <2>2, <2>3, AsideIsLone
<1>4. CASE ~ (Encrypted \/ db = EmptyFile)
  <2>1. Goto(r, "taking") /\ overlapped' = (overlapped \/ \E q \in Requests : Encrypting(q))
    BY <1>4 DEF LookAtDatabase, StartEncrypting
  <2>. SUFFICES ASSUME ~ overlapped'
                PROVE  (db # EmptyFile /\ Apart /\ \A q \in Requests : LoneSetup(q))'
    BY DEF LoneSafety
  <2>2. ~ overlapped /\ \A q \in Requests : ~ Encrypting(q)
    BY <2>1
  <2>3. db # EmptyFile /\ \A q \in Requests : LoneSetup(q)
    BY <2>2 DEF LoneSafety
  <2>4. db = NoKey
    BY <1>4 DEF VaultTypeOK, Encrypted
  <2>5. request'[r].step = "taking" /\ \A q \in Requests \ {r} : request'[q] = request[q]
    BY <1>2, <2>1, GotoStep DEF VaultTypeOK
  <2>6. Apart'
    BY <2>2, <2>5 DEF Apart, Encrypting
  <2>7. LoneSetup(r)'
    BY <1>1, <2>4, <2>5 DEF LoneSetup
  <2>8. ASSUME NEW q \in Requests \ {r}
        PROVE  LoneSetup(q)'
    BY <1>1, <2>3, <2>5 DEF LoneSetup, Encrypting, Encrypted
  <2>. QED BY <1>1, <2>3, <2>6, <2>7, <2>8
<1>. QED BY <1>3, <1>4

LEMMA CopyStepIsLone ==
  ASSUME LoneSafety, VaultSafety, NEW r \in Requests,
         \/ TakeKey(r) \/ CheckCopy(r) \/ RemoveCopy(r) \/ ConnectSource(r) \/ AttachCopy(r)
         \/ ExportCopy(r) \/ ExportFails(r) \/ ReplaceDatabase(r)
  PROVE  LoneSafety' /\ (~ overlapped /\ Encrypted => db' = db)
<1>1. VaultTypeOK /\ Encrypting(r) /\ request[r].step \in SetupSteps /\ overlapped' = overlapped
  BY DEF VaultSafety, Encrypting, CopySteps, SetupSteps, TakeKey, CheckCopy, RemoveCopy,
         ConnectSource, AttachCopy, ExportCopy, ExportFails, ReplaceDatabase, history
<1>2. ~ overlapped => db = NoKey /\ LoneSetup(r)
  BY <1>1 DEF LoneSafety, LoneSetup
<1>3. ~ overlapped => ~ Encrypted
  BY <1>2, VaultAssumption DEF Encrypted, KeyValues, Keys
<1>4. request[r] \in Setups
  BY <1>1, RequestFields
<1>5. CASE TakeKey(r)
  <2>1. request' = [request EXCEPT ![r] = [request[r] EXCEPT !.step = "checking", !.key = memory]]
        /\ UNCHANGED <<db, tmp, attached>>
    BY <1>5 DEF TakeKey, files
  <2>2. request'[r].step = "checking"
    BY <1>1, <1>4, <2>1 DEF VaultTypeOK, Setups
  <2>3. ~ overlapped => LoneSetup(r)' /\ db' # EmptyFile
    BY <1>2, <2>1, <2>2 DEF LoneSetup
  <2>. QED BY <1>1, <1>3, <2>1, <2>3, CopyIsLone
<1>6. CASE ConnectSource(r)
  <2>1. request' = [request EXCEPT ![r] = [request[r] EXCEPT !.step = "attaching", !.source = db]]
        /\ UNCHANGED <<db, tmp, attached>> /\ request[r].step = "connecting"
    BY <1>6 DEF ConnectSource, files
  <2>2. request'[r].step = "attaching" /\ request'[r].source = db
    BY <1>1, <1>4, <2>1 DEF VaultTypeOK, Setups
  <2>3. ~ overlapped => LoneSetup(r)' /\ db' # EmptyFile
    BY <1>2, <2>1, <2>2 DEF LoneSetup
  <2>. QED BY <1>1, <1>3, <2>1, <2>3, CopyIsLone
<1>7. CASE \/ CheckCopy(r) \/ RemoveCopy(r) \/ AttachCopy(r)
           \/ ExportCopy(r) \/ ExportFails(r) \/ ReplaceDatabase(r)
  <2>1. CASE ServerError(r)
    <3>1. ~ overlapped => db' # EmptyFile
      <4>1. EmptyFile \notin KeyValues /\ (db = NoKey => db # EmptyFile)
        BY VaultAssumption DEF KeyValues, Keys
      <4>2. CASE CheckCopy(r) \/ RemoveCopy(r) \/ AttachCopy(r)
        BY <1>2, <4>1, <4>2 DEF CheckCopy, RemoveCopy, AttachCopy, files
      <4>3. CASE ExportCopy(r) \/ ExportFails(r)
        <5>1. request[r].step = "exporting" /\ (FillAttached(r) \/ UNCHANGED <<db, tmp>>)
          BY <4>3 DEF ExportCopy, ExportFails
        <5>. QED BY <1>2, <4>1, <5>1 DEF FillAttached, LoneSetup
      <4>4. CASE ReplaceDatabase(r)
        <5>1. request[r].step = "moving" /\ (db' = db \/ db' = tmp)
          BY <4>4 DEF ReplaceDatabase, MoveCopy
        <5>. QED BY <1>2, <4>1, <5>1 DEF LoneSetup
      <4>. QED BY <1>7, <4>2, <4>3, <4>4
    <3>2. request' = [request EXCEPT ![r] = Idle] /\ LoneSetup(r)'
      BY <1>1, <2>1, EndStep
    <3>. QED BY <1>1, <1>3, <3>1, <3>2, CopyIsLone
  <2>2. CASE CheckCopy(r) /\ ~ ServerError(r)
    <3>1. PICK s \in {"connecting", "removing"} : Goto(r, s) /\ (s = "connecting" => tmp = NoFile)
      BY <2>2 DEF CheckCopy
    <3>2. s \in SetupSteps /\ UNCHANGED <<db, tmp, attached>>
      BY <2>2 DEF CheckCopy, files, SetupSteps, CopySteps
    <3>3. request'[r].step = s /\ request' = [request EXCEPT ![r] = [request[r] EXCEPT !.step = s]]
      BY <1>1, <3>1, <3>2, GotoStep
    <3>4. ~ overlapped => LoneSetup(r)' /\ db' # EmptyFile
      BY <1>2, <3>1, <3>2, <3>3 DEF LoneSetup
    <3>. QED BY <1>1, <1>3, <3>3, <3>4, CopyIsLone
  <2>3. CASE RemoveCopy(r) /\ ~ ServerError(r)
    <3>1. Goto(r, "connecting") /\ tmp' = NoFile /\ db' = db
      BY <2>3 DEF RemoveCopy
    <3>2. "connecting" \in SetupSteps
      BY DEF SetupSteps, CopySteps
    <3>3. request'[r].step = "connecting"
          /\ request' = [request EXCEPT ![r] = [request[r] EXCEPT !.step = "connecting"]]
      BY <1>1, <3>1, <3>2, GotoStep
    <3>4. ~ overlapped => LoneSetup(r)' /\ db' # EmptyFile
      BY <1>2, <3>1, <3>3 DEF LoneSetup
    <3>. QED BY <1>1, <1>3, <3>3, <3>4, CopyIsLone
  <2>4. CASE AttachCopy(r) /\ ~ ServerError(r)
    <3>1. Goto(r, "exporting") /\ request[r].step = "attaching" /\ request[r].key # NoKey
          /\ attached' = [attached EXCEPT ![r] = "copy"] /\ db' = db
          /\ (tmp = NoFile => tmp' = EmptyFile)
      BY <2>4 DEF AttachCopy
    <3>2. "exporting" \in SetupSteps /\ request[r].key \in KeyValues /\ attached'[r] = "copy"
      BY <1>1, <1>4, <3>1 DEF SetupSteps, CopySteps, Setups, VaultTypeOK
    <3>3. request'[r].step = "exporting" /\ request'[r].key = request[r].key
          /\ request'[r].source = request[r].source
          /\ request' = [request EXCEPT ![r] = [request[r] EXCEPT !.step = "exporting"]]
      BY <1>1, <3>1, <3>2, GotoStep
    <3>4. ~ overlapped => LoneSetup(r)' /\ db' # EmptyFile
      BY <1>2, <3>1, <3>2, <3>3 DEF LoneSetup
    <3>. QED BY <1>1, <1>3, <3>3, <3>4, CopyIsLone
  <2>5. CASE ExportCopy(r) /\ ~ ServerError(r)
    <3>1. Goto(r, "moving") /\ request[r].step = "exporting"
      BY <2>5 DEF ExportCopy
    <3>2. "moving" \in SetupSteps
      BY DEF SetupSteps, CopySteps
    <3>3. request'[r].step = "moving"
          /\ request' = [request EXCEPT ![r] = [request[r] EXCEPT !.step = "moving"]]
      BY <1>1, <3>1, <3>2, GotoStep
    <3>4. ~ overlapped => db' = db /\ tmp' \in KeyValues
      BY <1>2, <2>5, <3>1 DEF LoneSetup, ExportCopy, FillAttached
    <3>5. ~ overlapped => LoneSetup(r)' /\ db' # EmptyFile
      BY <1>2, <3>3, <3>4 DEF LoneSetup
    <3>. QED BY <1>1, <1>3, <3>3, <3>5, CopyIsLone
  <2>6. CASE ReplaceDatabase(r) /\ ~ ServerError(r)
    <3>1. Goto(r, "migrating") /\ request[r].step = "moving" /\ db' = tmp
      BY <2>6 DEF ReplaceDatabase, MoveCopy
    <3>2. "migrating" \in SetupSteps
      BY DEF SetupSteps
    <3>3. request'[r].step = "migrating"
          /\ request' = [request EXCEPT ![r] = [request[r] EXCEPT !.step = "migrating"]]
      BY <1>1, <3>1, <3>2, GotoStep
    <3>4. ~ overlapped => tmp \in KeyValues
      BY <1>2, <3>1 DEF LoneSetup
    <3>5. EmptyFile \notin KeyValues
      BY VaultAssumption DEF KeyValues, Keys
    <3>6. ~ overlapped => LoneSetup(r)' /\ db' # EmptyFile
      BY <3>1, <3>3, <3>4, <3>5 DEF LoneSetup, Encrypting, CopySteps, Encrypted
    <3>. QED BY <1>1, <1>3, <3>3, <3>6, CopyIsLone
  <2>7. ~ ExportFails(r) \/ ServerError(r)
    BY DEF ExportFails
  <2>. QED BY <1>7, <2>1, <2>2, <2>3, <2>4, <2>5, <2>6, <2>7
<1>. QED BY <1>5, <1>6, <1>7

LEMMA RequestIsLone ==
  ASSUME LoneSafety, VaultSafety, NEW r \in Requests,
         \/ \E p \in SetupPasswords[r] : StartSetup(r, p)
         \/ CreateSettings(r) \/ OpenVault(r) \/ FinishSetup(r)
         \/ UnlockWithPassword(r) \/ UnlockWithRecovery(r) \/ FinishUnlock(r)
         \/ AskScreen(r) \/ AskLock(r) \/ AskRecovery(r) \/ TurnAway(r) \/ View(r)
  PROVE  LoneSafety' /\ (Encrypted => db' = db)
<1>1. VaultTypeOK
  BY DEF VaultSafety
<1>2. EmptyFile \notin KeyValues
  BY VaultAssumption DEF KeyValues, Keys
<1>3. overlapped' = overlapped /\ tmp' = tmp /\ attached' = attached
      /\ (db' = db \/ (db = EmptyFile /\ db' = NoKey))
  BY DEF StartSetup, CreateSettings, OpenVault, FinishSetup, UnlockWithPassword,
         UnlockWithRecovery, StartUnlock, FinishUnlock, AskScreen, AskLock, AskRecovery, TurnAway,
         View, ViewScreen, LockNow, ZeroMemory, ClearMemory, RegenerateRecovery, RewrapKey,
         Migrate, files, history
<1>4. \E new : /\ request' = [request EXCEPT ![r] = new]
               /\ new.step \notin CopySteps /\ new.step # "migrating"
  <2>1. CASE \/ \E p \in SetupPasswords[r] : StartSetup(r, p)
             \/ UnlockWithPassword(r) \/ UnlockWithRecovery(r)
             \/ AskScreen(r) \/ AskLock(r) \/ AskRecovery(r)
    <3>. DEFINE session == cookie[BrowserOf[r]]
                setup(p) == [step |-> "creating", session |-> session, password |-> p,
                             generated |-> GenerateKey, key |-> NoKey, source |-> NoFile]
                ask(step) == [step |-> step, session |-> Active(r)]
                unlock == [step |-> "unlocking", session |-> session]
                recovery == [step |-> "regenerate", session |-> Active(r),
                             generated |-> GenerateKey, key |-> NoKey]
    <3>1. \/ \E p : request' = [request EXCEPT ![r] = setup(p)]
          \/ request' = [request EXCEPT ![r] = ask("screen")]
          \/ request' = [request EXCEPT ![r] = ask("lock")]
          \/ request' = [request EXCEPT ![r] = unlock]
          \/ request' = [request EXCEPT ![r] = recovery]
      BY <2>1 DEF StartSetup, UnlockWithPassword, UnlockWithRecovery, StartUnlock, AskScreen,
                  AskLock, AskRecovery
    <3>2. /\ \A p : setup(p).step \notin CopySteps \cup {"migrating"}
          /\ recovery.step \notin CopySteps \cup {"migrating"}
          /\ ask("screen").step \notin CopySteps \cup {"migrating"}
          /\ ask("lock").step \notin CopySteps \cup {"migrating"}
          /\ unlock.step \notin CopySteps \cup {"migrating"}
      BY DEF CopySteps
    <3>. HIDE DEF setup, ask, unlock, recovery
    <3>. QED BY <3>1, <3>2
  <2>2. CASE \E s \in {"opening", "looking", "zeroing", "clearing", "rewrapping"} :
               /\ request[r].step # "idle"
               /\ Goto(r, s)
    <3>1. PICK s \in {"opening", "looking", "zeroing", "clearing", "rewrapping"} :
            Goto(r, s) /\ request[r].step # "idle"
      BY <2>2
    <3>2. [request[r] EXCEPT !.step = s].step = s
      BY <1>1, <3>1, RequestFields DEF RequestStates, Setups, Idle
    <3>3. s \notin CopySteps /\ s # "migrating"
      BY DEF CopySteps
    <3>. QED BY <3>1, <3>2, <3>3 DEF Goto
  <2>3. CASE request' = [request EXCEPT ![r] = Idle]
    <3>1. Idle.step \notin CopySteps /\ Idle.step # "migrating"
      BY DEF Idle, CopySteps
    <3>. QED BY <2>3, <3>1
  <2>4. CASE CreateSettings(r) \/ OpenVault(r) \/ LockNow(r) \/ ZeroMemory(r)
    <3>1. request[r].step # "idle"
          /\ \/ \E s \in {"opening", "looking", "zeroing", "clearing", "rewrapping"} : Goto(r, s)
             \/ request' = [request EXCEPT ![r] = Idle]
      BY <2>4 DEF CreateSettings, OpenVault, LockNow, ZeroMemory, ServerError
    <3>. QED BY <2>2, <2>3, <3>1
  <2>5. CASE FinishSetup(r) \/ FinishUnlock(r) \/ TurnAway(r) \/ ViewScreen(r) \/ ClearMemory(r)
             \/ RewrapKey(r)
    <3>1. request' = [request EXCEPT ![r] = Idle]
      BY <2>5 DEF FinishSetup, FinishUnlock, TurnAway, ViewScreen, ClearMemory, RewrapKey,
                  Respond, ServerError
    <3>. QED BY <2>3, <3>1
  <2>6. CASE RegenerateRecovery(r)
    <3>1. \/ request' = [request EXCEPT ![r] = Idle]
          \/ request' = [request EXCEPT ![r] =
                            [request[r] EXCEPT !.step = "rewrapping", !.key = memory]]
      BY <2>6 DEF RegenerateRecovery, Respond
    <3>2. [request[r] EXCEPT !.step = "rewrapping", !.key = memory].step = "rewrapping"
      BY <1>1, <2>6, RequestFields DEF RegenerateRecovery
    <3>3. "rewrapping" \notin CopySteps
      BY DEF CopySteps
    <3>. QED BY <2>3, <3>1, <3>2, <3>3
  <2>. QED BY <2>1, <2>4, <2>5, <2>6 DEF View
<1>5. LoneSafety'
  BY <1>1, <1>3, <1>4, AsideIsLone
<1>. QED BY <1>2, <1>3, <1>5 DEF Encrypted

LEMMA SurroundingsAreLone ==
  ASSUME LoneSafety, VaultSafety, GoIdle \/ Restart
  PROVE  LoneSafety' /\ (Encrypted => db' = db)
<1>1. EmptyFile \notin KeyValues
  BY VaultAssumption DEF KeyValues, Keys
<1>2. CASE GoIdle
  BY <1>2 DEF GoIdle, LoneSafety, LoneSetup, Apart, Encrypting, Encrypted, files
<1>3. CASE Restart
  <2>1. overlapped' = overlapped /\ db' = (IF db = EmptyFile THEN NoKey ELSE db)
        /\ \A r \in Requests : request'[r].step = "idle"
    BY <1>3 DEF Restart, Idle
  <2>2. \A r \in Requests : LoneSetup(r)' /\ ~ Encrypting(r)'
    BY <2>1 DEF LoneSetup, Encrypting, CopySteps
  <2>. QED BY <1>1, <2>1, <2>2 DEF LoneSafety, Apart, Encrypted
<1>. QED BY <1>2, <1>3

LEMMA NextIsLone ==
  LoneSafety /\ VaultSafety /\ [Next]_vaultVars =>
    LoneSafety' /\ (~ overlapped /\ Encrypted => db' = db)
<1>. SUFFICES ASSUME LoneSafety, VaultSafety, [Next]_vaultVars
              PROVE  LoneSafety' /\ (~ overlapped /\ Encrypted => db' = db)
  OBVIOUS
<1>1. CASE \E r \in Requests : LookAtDatabase(r)
  BY <1>1, LookIsLone DEF LookAtDatabase, VaultSafety, files
<1>2. CASE \E r \in Requests :
             \/ TakeKey(r) \/ CheckCopy(r) \/ RemoveCopy(r) \/ ConnectSource(r) \/ AttachCopy(r)
             \/ ExportCopy(r) \/ ExportFails(r) \/ ReplaceDatabase(r)
  BY <1>2, CopyStepIsLone
<1>3. CASE \E r \in Requests :
             \/ \E p \in SetupPasswords[r] : StartSetup(r, p)
             \/ CreateSettings(r) \/ OpenVault(r) \/ FinishSetup(r)
             \/ UnlockWithPassword(r) \/ UnlockWithRecovery(r) \/ FinishUnlock(r)
             \/ AskScreen(r) \/ AskLock(r) \/ AskRecovery(r) \/ TurnAway(r) \/ View(r)
  BY <1>3, RequestIsLone
<1>4. CASE GoIdle \/ Restart
  BY <1>4, SurroundingsAreLone
<1>5. CASE UNCHANGED vaultVars
  BY <1>5 DEF vaultVars, files, process, history, LoneSafety, LoneSetup, Apart, Encrypting, Encrypted
<1>. QED BY <1>1, <1>2, <1>3, <1>4, <1>5 DEF Next, SetupStep

THEOREM AlwaysLone == Spec => []LoneSafety
<1>1. Init => LoneSafety
  BY DEF Init, LoneSafety, LoneSetup, Apart, Encrypting, CopySteps, Idle
<1>2. LoneSafety /\ VaultSafety /\ [Next]_vaultVars => LoneSafety'
  BY NextIsLone
<1>. QED BY <1>1, <1>2, VaultAlwaysSafe, PTL DEF Spec

(* A setup that reports the vault ready has encrypted the database, as long
   as no two setups have encrypted it at the same time: whatever copy was
   left, and whatever was locked, unlocked or stopped in between. *)
THEOREM SetupsEncrypt == Spec => []LoneSetupsEncrypt
<1>1. LoneSafety => LoneSetupsEncrypt
  BY LoneSafetySuffices
<1>. QED BY <1>1, AlwaysLone, PTL

(* Once a settings row is there, the same password goes on unwrapping the
   same key, also when setups race; and an encrypted database is never
   encrypted with another key, replaced or left in plaintext as long as no
   two setups have encrypted at the same time. *)
KeepsKey ==
  /\ Configured => Configured' /\ CurrentSettings.password' = CurrentSettings.password
  /\ ~ overlapped /\ Encrypted => db' = db

LEMMA StepKeepsKey == LoneSafety /\ VaultSafety /\ [Next]_vaultVars => KeepsKey
<1>. SUFFICES ASSUME LoneSafety, VaultSafety, [Next]_vaultVars PROVE KeepsKey
  OBVIOUS
<1>1. settings \in Seq(SecuritySettings) /\ (~ overlapped /\ Encrypted => db' = db)
  BY NextIsLone DEF VaultSafety, VaultTypeOK
<1>2. CASE settings' = settings
  BY <1>1, <1>2 DEF KeepsKey, Configured, CurrentSettings
<1>3. CASE \E r \in Requests : CreateSettings(r)
  <2>1. \E row : settings' = Append(settings, row)
    BY <1>3 DEF CreateSettings
  <2>2. Configured => Configured' /\ settings'[1] = settings[1]
    BY <1>1, <2>1 DEF Configured
  <2>. QED BY <1>1, <2>2 DEF KeepsKey, CurrentSettings
<1>4. CASE \E r \in Requests : RewrapKey(r)
  <2>1. PICK new : settings' = [settings EXCEPT ![1].recovery = new]
    BY <1>4 DEF RewrapKey
  <2>2. ASSUME Configured
        PROVE  Configured' /\ settings'[1].password = settings[1].password
    <3>1. 1 \in DOMAIN settings /\ settings[1] \in SecuritySettings
      BY <1>1, <2>2, FirstRow
    <3>2. settings'[1] = [settings[1] EXCEPT !.recovery = new]
      BY <2>1, <3>1
    <3>3. Len(settings') = Len(settings)
      BY <1>1, <2>1
    <3>. QED BY <2>2, <3>1, <3>2, <3>3 DEF Configured, SecuritySettings
  <2>. QED BY <1>1, <2>2 DEF KeepsKey, CurrentSettings
<1>5. CASE UNCHANGED vaultVars
  BY <1>2, <1>5 DEF vaultVars, files
<1>. QED
  BY <1>2, <1>3, <1>4, <1>5
     DEF Next, SetupStep, View, StartSetup, OpenVault, LookAtDatabase, TakeKey, CheckCopy,
         RemoveCopy, ConnectSource, AttachCopy, ExportCopy, ExportFails, ReplaceDatabase,
         FinishSetup, UnlockWithPassword, UnlockWithRecovery, StartUnlock, FinishUnlock, AskScreen,
         AskLock, AskRecovery, TurnAway, ViewScreen, LockNow, ZeroMemory, ClearMemory,
         RegenerateRecovery, GoIdle, Restart, files

THEOREM KeyOfVaultStays == Spec => [][KeepsKey]_vaultVars
<1>1. LoneSafety /\ VaultSafety /\ [Next]_vaultVars => KeepsKey
  BY StepKeepsKey
<1>. QED BY <1>1, VaultAlwaysSafe, AlwaysLone, PTL DEF Spec
================================================================================
