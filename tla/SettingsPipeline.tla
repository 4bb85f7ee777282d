-------------------------- MODULE SettingsPipeline --------------------------
(***************************************************************************)
(* How a change made in the Settings window reaches the committed          *)
(* settings, the settings file and the running services of Lexift.         *)
(*                                                                         *)
(* The reducer (lexift-core/src/state.rs) owns `settings` (committed),     *)
(* `desired` (what the window shows), the queue of waiting changes and the *)
(* flags settings_saving and credential_busy.  The controller              *)
(* (lexift-app/src/controller.rs) runs each PersistSettings command as a   *)
(* worker: write the file, dispatch RuntimeConfigChanged, apply the change *)
(* to the running services, dispatch the outcome; a failed application is  *)
(* followed by a save of the previous settings.  Credential operations     *)
(* write the same file, after waiting until no save is in flight.          *)
(*                                                                         *)
(* Data abstracted: Settings is a function from independently written      *)
(* slots to a small set of values; a SettingsChange is a field and one     *)
(* value.  Error texts, toasts and the secrets themselves are left out.    *)
(***************************************************************************)
EXTENDS Integers, Sequences, FiniteSets

CONSTANTS
    Fields,           \* the fields the user changes in this instance
    Values,           \* the values a slot can hold
    CredentialKinds,  \* the credential operations the user performs
    StoreAvailable,   \* the secure credential store exists on this platform
    MaxRequests,      \* bound: settings changes accepted
    MaxCredentials,   \* bound: credential operations accepted
    LoadedSettings    \* the settings the file may hold at start-up

Off == 0
On  == 1

AllFields == {"theme", "hotkey", "ocrHotkey", "korean",
              "enable", "llm", "options", "selection"}
AllKinds  == {"read", "connection", "secret", "deepl"}

ASSUME FieldsAssumption      == Fields \subseteq AllFields
ASSUME ValuesAssumption      == Values \subseteq Nat /\ {Off, On} \subseteq Values
ASSUME KindsAssumption       == CredentialKinds \subseteq AllKinds
ASSUME StoreAssumption       == StoreAvailable \in BOOLEAN
ASSUME MaxRequestsAssumption == MaxRequests \in Nat
ASSUME MaxCredentialsAssumption == MaxCredentials \in Nat

LlmSlots == {"enabled", "connection", "model", "secretRef"}
Slots    == {"theme", "hotkey", "ocrHotkey", "korean", "provider", "deeplRef"} \cup LlmSlots

\* The slots a running service holds a copy of; the others are read from state.
RuntimeSlots == Slots \ {"theme", "korean"}

Settings == [Slots -> Values]
Change   == [id : 1..MaxRequests, field : AllFields, value : Values]

\* Nothing at start-up compares the two shortcuts: the file may hold an equal pair.
ASSUME LoadedAssumption == LoadedSettings \subseteq Settings

Shortcuts == {"hotkey", "ocrHotkey"}

\* Switches and references are on or off; the other slots take any value.
ValuesOf(name) == IF name \in {"enable", "korean", "secret", "deepl"} THEN {Off, On} ELSE Values

SaveStages == {"write", "unsaved", "written", "apply", "applied", "rejected", "rolledBack"}
CredentialStages == {"none", "wait", "snapshot", "write", "written", "published", "failed"}

Save == [id : 1..MaxRequests, field : AllFields, value : Values, stage : SaveStages,
         target : Settings, previous : Settings]
Credential == [kind : AllKinds, value : Values, stage : CredentialStages, target : Settings]

VARIABLES
    settings,      \* committed settings in AppState
    desired,       \* desired_settings: what the Settings window shows
    queue,         \* queued_settings_changes
    saving,        \* settings_saving
    credentialBusy, \* credential_busy
    disk,          \* contents of config.toml
    live,          \* RuntimeManager.current, translator and credential reference
    saves,         \* workers of PersistSettings and ApplyRuntimeConfig
    credential,    \* worker of the credential command
    koreanReady,   \* ocr.resources.info.korean.ready
    requests,      \* settings changes accepted so far, numbers the changes
    credentials,   \* credential operations accepted so far
    rollbackLost   \* the last rollback failed and no save succeeded since

reducer == <<settings, desired, queue, saving, credentialBusy>>
vars    == <<settings, desired, queue, saving, credentialBusy, disk, live, saves,
             credential, koreanReady, requests, credentials, rollbackLost>>

----------------------------------------
(* A change and the settings it is applied to.                              *)

\* The slots SettingsChange::apply_to assigns.
Writes(field) ==
    CASE field = "enable"    -> {"enabled"}
      [] field = "llm"       -> {"connection", "model"}
      [] field = "options"   -> {"model"}
      [] field = "selection" -> {"provider", "model"}
      [] OTHER               -> {field}

\* The slots restore_desired_field_after_failure copies back.
Restores(field) ==
    CASE field = "enable"              -> {"enabled"}
      [] field \in {"llm", "options"}  -> LlmSlots
      [] field = "selection"           -> {"provider"} \cup LlmSlots
      [] OTHER                         -> {field}

ApplyTo(change, s) ==
    [x \in Slots |-> IF x \in Writes(change.field) THEN change.value ELSE s[x]]

Matches(change, s) == \A x \in Writes(change.field) : s[x] = change.value

\* Copies the slots xs of s into d.
CopySlots(xs, s, d) == [x \in Slots |-> IF x \in xs THEN s[x] ELSE d[x]]

\* validate_ocr_setting and validate_translation_change against the settings s.
Valid(change, s) ==
    /\ change.field = "korean" /\ change.value = On => koreanReady
    /\ change.field = "selection" => s["enabled"] = On

Queued(q, field) == \E i \in DOMAIN q : q[i].field = field

\* queued_settings_changes.retain: a queue holds at most one change of a field
\* (DesiredShowsLatest), so at most one goes.
WithoutField(q, field) ==
    IF Queued(q, field)
    THEN LET n == CHOOSE i \in DOMAIN q : q[i].field = field IN
         SubSeq(q, 1, n - 1) \o SubSeq(q, n + 1, Len(q))
    ELSE q

\* Mutant: a failure leaves the window on the refused value.
NoRestoreDesired(field, q, s, d) == d

RestoreDesired(field, q, s, d) ==
    IF Queued(q, field) THEN d ELSE CopySlots(Restores(field), s, d)

----------------------------------------
(* start_settings_change and start_next_settings_change: take changes from   *)
(* the front of the queue, dropping those that became invalid (their field   *)
(* of desired is restored) or that already hold, until one has to be saved.  *)

\* Mutant: a queued change is not validated again when its turn comes.
UncheckedMustSave(change, s) == ~Matches(change, s)

MustSave(change, s) == Valid(change, s) /\ ~Matches(change, s)

\* n is the position of the first change to save, Len(q) + 1 when there is none.
IsFirstToSave(n, q, s) ==
    /\ \A i \in 1..(n - 1) : ~MustSave(q[i], s)
    /\ n <= Len(q) => MustSave(q[n], s)

\* The slots restored for the changes before position n that became invalid.
DroppedSlots(q, n, s) ==
    UNION {Restores(q[i].field) : i \in
        {k \in 1..(n - 1) : /\ ~Valid(q[k], s)
                            /\ \A j \in (k + 1)..Len(q) : q[j].field # q[k].field}}

NewSave(change, s) ==
    [id |-> change.id, field |-> change.field, value |-> change.value,
     stage |-> "write", target |-> ApplyTo(change, s), previous |-> s]

\* The handler installed the settings s, desired d and workers; the changes of
\* the queue q that start now come on top.
StartChanges(s, d, q, workers) ==
    \E n \in 1..(Len(q) + 1) :
        /\ IsFirstToSave(n, q, s)
        /\ settings' = s
        /\ desired' = CopySlots(DroppedSlots(q, n, s), s, d)
        /\ queue' = SubSeq(q, n + 1, Len(q))
        /\ saves' = IF n <= Len(q) THEN workers \cup {NewSave(q[n], s)} ELSE workers

StartNextSettingsChange(s, d, workers) ==
    IF credentialBusy'
    THEN settings' = s /\ desired' = d /\ queue' = queue /\ saves' = workers
    ELSE StartChanges(s, d, queue, workers)

----------------------------------------
(* The user changes a setting.                                              *)

\* Mutant: starts the change although another one is being saved.
OverlappingRequestSettingsChange(field, value) ==
    LET change == [id |-> requests + 1, field |-> field, value |-> value]
        d      == ApplyTo(change, desired) IN
    /\ requests < MaxRequests
    /\ Valid(change, desired)
    /\ requests' = requests + 1
    /\ IF credentialBusy
       THEN /\ desired' = d
            /\ queue' = Append(WithoutField(queue, field), change)
            /\ UNCHANGED <<settings, saving, saves>>
       ELSE /\ StartChanges(settings, d, <<change>> \o queue, saves)
            /\ saving' = (saves' # saves)
    /\ UNCHANGED <<credentialBusy, disk, live, credential, koreanReady, credentials,
                   rollbackLost>>

\* Mutant: starts the change beside a credential operation.
ImpatientRequestSettingsChange(field, value) ==
    LET change == [id |-> requests + 1, field |-> field, value |-> value]
        d      == ApplyTo(change, desired) IN
    /\ requests < MaxRequests
    /\ Valid(change, desired)
    /\ requests' = requests + 1
    /\ IF saving
       THEN /\ desired' = d
            /\ queue' = Append(WithoutField(queue, field), change)
            /\ UNCHANGED <<settings, saving, saves>>
       ELSE /\ StartChanges(settings, d, <<change>> \o queue, saves)
            /\ saving' = (saves' # saves)
    /\ UNCHANGED <<credentialBusy, disk, live, credential, koreanReady, credentials,
                   rollbackLost>>

\* Mutant: keeps the superseded change of the field in the queue.
HoardingRequestSettingsChange(field, value) ==
    LET change == [id |-> requests + 1, field |-> field, value |-> value]
        d      == ApplyTo(change, desired) IN
    /\ requests < MaxRequests
    /\ Valid(change, desired)
    /\ requests' = requests + 1
    /\ IF saving \/ credentialBusy
       THEN /\ desired' = d
            /\ queue' = Append(queue, change)
            /\ UNCHANGED <<settings, saving, saves>>
       ELSE /\ StartChanges(settings, d, <<change>> \o queue, saves)
            /\ saving' = (saves' # saves)
    /\ UNCHANGED <<credentialBusy, disk, live, credential, koreanReady, credentials,
                   rollbackLost>>

\* SettingsChangeRequested: a change invalid for desired is answered at once
\* and leaves no trace; otherwise desired shows it, and it starts or waits.
RequestSettingsChange(field, value) ==
    LET change == [id |-> requests + 1, field |-> field, value |-> value]
        d      == ApplyTo(change, desired) IN
    /\ requests < MaxRequests
    /\ Valid(change, desired)
    /\ requests' = requests + 1
    /\ IF saving \/ credentialBusy
       THEN /\ desired' = d
            /\ queue' = Append(WithoutField(queue, field), change)
            /\ UNCHANGED <<settings, saving, saves>>
       ELSE /\ StartChanges(settings, d, <<change>> \o queue, saves)
            /\ saving' = (saves' # saves)
    /\ UNCHANGED <<credentialBusy, disk, live, credential, koreanReady, credentials,
                   rollbackLost>>

----------------------------------------
(* The worker of one change: persist_settings, RuntimeConfigChanged,         *)
(* apply_runtime_config and the event that reports the outcome.              *)

Step(job, stage) == saves' = (saves \ {job}) \cup {[job EXCEPT !.stage = stage]}

SaveFile(job) ==
    /\ job.stage = "write"
    /\ disk' = job.target
    /\ rollbackLost' = FALSE
    /\ Step(job, "written")
    /\ UNCHANGED <<reducer, live, credential, koreanReady, requests, credentials>>

SaveFileFails(job) ==
    /\ job.stage = "write"
    /\ Step(job, "unsaved")
    /\ UNCHANGED <<reducer, disk, live, credential, koreanReady, requests, credentials,
                   rollbackLost>>

\* The reducer remembers the committed settings as the ones to roll back to.
RuntimeConfigChanged(job) ==
    /\ job.stage = "written"
    /\ saves' = (saves \ {job})
                \cup {[job EXCEPT !.stage = "apply", !.previous = settings]}
    /\ UNCHANGED <<reducer, disk, live, credential, koreanReady, requests, credentials,
                   rollbackLost>>

\* The slots of the services RuntimeManager::apply replaces for a field.
AppliedSlots(field) ==
    CASE field \in {"hotkey", "ocrHotkey"}        -> {field}
      [] field \in {"enable", "llm", "options"}   -> LlmSlots
      [] field = "selection"                      -> {"provider"} \cup LlmSlots
      [] OTHER                                    -> {}

\* Mutant: only a change of the translation shortcut is compared with the other.
OneSidedShortcutConflict(field, config) ==
    /\ field = "hotkey"
    /\ config["hotkey"] = config["ocrHotkey"]

\* The shortcuts of a configuration must differ.
ShortcutConflict(field, config) ==
    /\ field \in {"hotkey", "ocrHotkey"}
    /\ config["hotkey"] = config["ocrHotkey"]

ApplyRuntime(job) ==
    /\ job.stage = "apply"
    /\ ~ShortcutConflict(job.field, job.target)
    /\ live' = CopySlots(AppliedSlots(job.field), job.target, live)
    /\ Step(job, "applied")
    /\ UNCHANGED <<reducer, disk, credential, koreanReady, requests, credentials,
                   rollbackLost>>

\* Mutant: the service keeps the value it refused.
LeakyApplyRuntimeFails(job) ==
    /\ job.stage = "apply"
    /\ job.field \in {"hotkey", "ocrHotkey", "selection"}
    /\ Step(job, "rejected")
    /\ live' = CopySlots(AppliedSlots(job.field), job.target, live)
    /\ UNCHANGED <<reducer, disk, credential, koreanReady, requests, credentials,
                   rollbackLost>>

\* The fields whose application can be refused: by the conflict check, by the
\* platform, or by a provider without a credential.
ApplyRuntimeFails(job) ==
    /\ job.stage = "apply"
    /\ job.field \in {"hotkey", "ocrHotkey", "selection"}
    /\ Step(job, "rejected")
    /\ UNCHANGED <<reducer, disk, live, credential, koreanReady, requests, credentials,
                   rollbackLost>>

\* Mutant: a refused change stays in the file.
NoRollBack(job) ==
    /\ job.stage = "rejected"
    /\ Step(job, "rolledBack")
    /\ UNCHANGED <<reducer, disk, live, credential, koreanReady, requests, credentials,
                   rollbackLost>>

\* store.save(previous_settings); a failure is only logged.
RollBack(job) ==
    /\ job.stage = "rejected"
    /\ \/ disk' = job.previous /\ rollbackLost' = FALSE
       \/ UNCHANGED disk /\ rollbackLost' = TRUE
    /\ Step(job, "rolledBack")
    /\ UNCHANGED <<reducer, live, credential, koreanReady, requests, credentials>>

RuntimeConfigUpdated(job) ==
    /\ job.stage = "applied"
    /\ UNCHANGED <<credentialBusy, disk, live, credential, koreanReady, requests,
                   credentials, rollbackLost>>
    /\ StartNextSettingsChange(job.target, desired, saves \ {job})
    /\ saving' = (saves' # saves \ {job})

\* Mutant: the failure handler does not start the next change.
IdleSettingsChangeFailed(job) ==
    /\ job.stage \in {"unsaved", "rolledBack"}
    /\ desired' = RestoreDesired(job.field, queue, settings, desired)
    /\ saving' = FALSE
    /\ saves' = saves \ {job}
    /\ UNCHANGED <<settings, queue, credentialBusy, disk, live, credential, koreanReady,
                   requests, credentials, rollbackLost>>

\* SettingsSaveFailed and RuntimeConfigUpdateFailed treat the field alike.
SettingsChangeFailed(job) ==
    /\ job.stage \in {"unsaved", "rolledBack"}
    /\ UNCHANGED <<credentialBusy, disk, live, credential, koreanReady, requests,
                   credentials, rollbackLost>>
    /\ StartNextSettingsChange(settings,
                               RestoreDesired(job.field, queue, settings, desired),
                               saves \ {job})
    /\ saving' = (saves' # saves \ {job})

----------------------------------------
(* Credential operations: a temporary read, a provider connection with its   *)
(* headers, the secret of an LLM provider, the DeepL key (value Off removes).*)

NoCredential == [kind |-> "read", value |-> Off, stage |-> "none", target |-> settings]

\* The slots of the settings a credential operation changes.
CredentialSlots(kind) ==
    CASE kind = "connection" -> {"connection", "secretRef"}
      [] kind = "secret"     -> {"secretRef"}
      [] kind = "deepl"      -> {"deeplRef"}
      [] OTHER               -> {}

RequestCredential(kind, value) ==
    /\ credentials < MaxCredentials
    /\ ~credentialBusy
    /\ kind = "deepl" /\ value = Off => settings["deeplRef"] = On
    /\ credentialBusy' = TRUE
    /\ credentials' = credentials + 1
    /\ desired' = IF kind = "connection" THEN [desired EXCEPT !["connection"] = value]
                  ELSE desired
    /\ credential' = [kind |-> kind, value |-> value, target |-> settings,
                      stage |-> IF StoreAvailable THEN "wait" ELSE "failed"]
    /\ UNCHANGED <<settings, queue, saving, disk, live, saves, koreanReady, requests,
                   rollbackLost>>

\* access_credential reads at once: it changes nothing and waits for nothing.
ReadCredential ==
    /\ credential.stage = "wait"
    /\ credential.kind = "read"
    /\ credential' = [credential EXCEPT !.stage = "published"]
    /\ UNCHANGED <<reducer, disk, live, saves, koreanReady, requests, credentials,
                   rollbackLost>>

\* Mutant: does not wait for the save in flight.
HastySettingsIdle ==
    /\ credential.stage = "wait"
    /\ credential.kind # "read"
    /\ credential' = [credential EXCEPT !.stage = "snapshot"]
    /\ UNCHANGED <<reducer, disk, live, saves, koreanReady, requests, credentials,
                   rollbackLost>>

\* wait_for_settings_idle returns.
SettingsIdle ==
    /\ credential.stage = "wait"
    /\ credential.kind # "read"
    /\ ~saving
    /\ credential' = [credential EXCEPT !.stage = "snapshot"]
    /\ UNCHANGED <<reducer, disk, live, saves, koreanReady, requests, credentials,
                   rollbackLost>>

\* The settings s with the operation's change.
CredentialTarget(s) ==
    [x \in Slots |-> IF x \in CredentialSlots(credential.kind) THEN credential.value
                     ELSE s[x]]

\* The worker clones the committed settings under the lock and edits the clone.
SnapshotSettings ==
    /\ credential.stage = "snapshot"
    /\ credential' = [credential EXCEPT !.stage = "write",
                                        !.target = CredentialTarget(settings)]
    /\ UNCHANGED <<reducer, disk, live, saves, koreanReady, requests, credentials,
                   rollbackLost>>

WriteCredential ==
    /\ credential.stage = "write"
    /\ credential' = [credential EXCEPT !.stage = "written"]
    /\ disk' = credential.target
    /\ rollbackLost' = FALSE
    /\ UNCHANGED <<reducer, live, saves, koreanReady, requests, credentials>>

\* The secret or the file cannot be written: the worker restores the secret.
WriteCredentialFails ==
    /\ credential.stage = "write"
    /\ credential' = [credential EXCEPT !.stage = "failed"]
    /\ UNCHANGED <<reducer, disk, live, saves, koreanReady, requests, credentials,
                   rollbackLost>>

\* The services take the new connection or reference before the event.
PublishCredential ==
    /\ credential.stage = "written"
    /\ credential' = [credential EXCEPT !.stage = "published"]
    /\ live' = CopySlots(IF credential.kind = "deepl" THEN {"deeplRef"} ELSE LlmSlots,
                         credential.target, live)
    /\ UNCHANGED <<reducer, disk, saves, koreanReady, requests, credentials, rollbackLost>>

\* What desired becomes: LlmConnectionApplied replaces the whole LLM part unless
\* a connection change waits, LlmCredentialChanged only the secure references.
DesiredAfterCredential ==
    CopySlots(IF credential.kind = "connection" /\ ~Queued(queue, "llm") THEN LlmSlots
              ELSE IF credential.kind = "deepl" THEN {"deeplRef"} ELSE {"secretRef"},
              credential.target, desired)

\* LlmConnectionApplied, LlmCredentialChanged, CredentialSaved, CredentialRemoved.
CredentialCommitted ==
    /\ credential.stage = "published"
    /\ credential.kind # "read"
    /\ credentialBusy' = FALSE
    /\ credential' = [credential EXCEPT !.stage = "none"]
    /\ StartNextSettingsChange(
           CopySlots(IF credential.kind = "deepl" THEN {"deeplRef"} ELSE LlmSlots,
                     credential.target, settings),
           DesiredAfterCredential, saves)
    /\ saving' = (saving \/ saves' # saves)
    /\ UNCHANGED <<disk, live, koreanReady, requests, credentials, rollbackLost>>

\* CredentialAccessSucceeded, CredentialAccessFailed, CredentialAccessCancelled.
CredentialAccessEnded ==
    /\ credential.stage = "published"
    /\ credential.kind = "read"
    /\ credentialBusy' = FALSE
    /\ credential' = [credential EXCEPT !.stage = "none"]
    /\ StartNextSettingsChange(settings, desired, saves)
    /\ saving' = (saving \/ saves' # saves)
    /\ UNCHANGED <<disk, live, koreanReady, requests, credentials, rollbackLost>>

\* LlmConnectionApplyFailed, CredentialSaveFailed, CredentialRemoveFailed, and the
\* access events of a platform without a credential store.
CredentialFailed ==
    /\ credential.stage = "failed"
    /\ credentialBusy' = FALSE
    /\ credential' = [credential EXCEPT !.stage = "none"]
    /\ StartNextSettingsChange(
           settings,
           IF credential.kind = "connection"
           THEN RestoreDesired("llm", queue, settings, desired) ELSE desired,
           saves)
    /\ saving' = (saving \/ saves' # saves)
    /\ UNCHANGED <<disk, live, koreanReady, requests, credentials, rollbackLost>>

\* The OCR runtime reports that the Korean extension was installed or removed.
KoreanExtensionChanged ==
    /\ koreanReady' = ~koreanReady
    /\ UNCHANGED <<reducer, disk, live, saves, credential, requests, credentials,
                   rollbackLost>>

----------------------------------------
(* Start-up loads the file and builds the services from it.                 *)
Init ==
    /\ settings \in LoadedSettings
    /\ desired = settings
    /\ disk = settings
    /\ live = settings
    /\ queue = <<>>
    /\ saving = FALSE
    /\ credentialBusy = FALSE
    /\ saves = {}
    /\ credential = NoCredential
    /\ koreanReady \in BOOLEAN
    /\ requests = 0
    /\ credentials = 0
    /\ rollbackLost = FALSE

User ==
    \/ \E field \in Fields : \E value \in ValuesOf(field) : RequestSettingsChange(field, value)
    \/ \E kind \in CredentialKinds : \E value \in ValuesOf(kind) : RequestCredential(kind, value)

SaveWorker(job) ==
    \/ SaveFile(job) \/ SaveFileFails(job)
    \/ RuntimeConfigChanged(job)
    \/ ApplyRuntime(job) \/ ApplyRuntimeFails(job)
    \/ RollBack(job)
    \/ RuntimeConfigUpdated(job) \/ SettingsChangeFailed(job)

CredentialWorker ==
    \/ ReadCredential
    \/ SettingsIdle \/ SnapshotSettings
    \/ WriteCredential \/ WriteCredentialFails
    \/ PublishCredential
    \/ CredentialCommitted \/ CredentialAccessEnded \/ CredentialFailed

Next ==
    \/ User
    \/ \E job \in saves : SaveWorker(job)
    \/ CredentialWorker
    \/ KoreanExtensionChanged

Spec == Init /\ [][Next]_vars

\* Workers are tokio tasks whose blocking calls return; the user owes nothing.
Fairness ==
    /\ \A id \in 1..MaxRequests : WF_vars(\E job \in saves : job.id = id /\ SaveWorker(job))
    /\ WF_vars(CredentialWorker)

FairSpec == Spec /\ Fairness

----------------------------------------
(* Properties.                                                               *)

\* The types of the variables.
TypeOK ==
    /\ settings \in Settings
    /\ desired \in Settings
    /\ queue \in Seq(Change)
    /\ saving \in BOOLEAN
    /\ credentialBusy \in BOOLEAN
    /\ disk \in Settings
    /\ live \in Settings
    /\ saves \subseteq Save
    /\ credential \in Credential
    /\ koreanReady \in BOOLEAN
    /\ requests \in 0..MaxRequests
    /\ credentials \in 0..MaxCredentials
    /\ rollbackLost \in BOOLEAN

\* The core runs save transactions one at a time: no worker of a change starts
\* while the worker of another change is between its file write and its commit.
SerialSaves == \A a, b \in saves : a = b

\* From its snapshot to its commit, a credential operation that writes the file
\* is alone with it, and its snapshot is not stale: it differs from the committed
\* settings in the slots of the operation only.
CredentialWritesAlone ==
    credential.kind # "read" /\ credential.stage \in {"write", "written", "published"} =>
        saves = {} /\ credential.target = CredentialTarget(settings)

\* Were the process to die now, the file read at the next start would hold the
\* committed settings or those of the one operation in flight, unless a rollback
\* could not be written and nothing was saved since.
DiskAgrees ==
    \/ disk = settings
    \/ \E job \in saves : job.stage # "write" /\ disk = job.target
    \/ credential.stage \in {"written", "published"} /\ disk = credential.target
    \/ rollbackLost

\* A service differs from the committed settings only in slots of the operation
\* whose outcome is about to be committed: a refused change leaves no trace in it.
LiveAgrees ==
    \A x \in RuntimeSlots :
        \/ live[x] = settings[x]
        \/ \E job \in saves : job.stage = "applied" /\ live[x] = job.target[x]
        \/ credential.stage = "published" /\ live[x] = credential.target[x]

\* A commit that moves the translation or the OCR shortcut, and a service that takes a new
\* one over, leave the two different, whatever was changed, refused or rolled back since the
\* change was asked for.  (An equal pair the file held at start-up stays until then.)
ShortcutsDiffer ==
    [][/\ (\E x \in Shortcuts : settings'[x] # settings[x]) =>
              settings'["hotkey"] # settings'["ocrHotkey"]
       /\ (\E x \in Shortcuts : live'[x] # live[x]) => live'["hotkey"] # live'["ocrHotkey"]]_vars

\* A commit changes the slots of the operation that ends and no other: it never
\* takes back what another operation committed meanwhile.
CommitsOneChange ==
    [][settings' # settings =>
         \/ \E job \in saves \ saves' : settings' = ApplyTo(job, settings)
         \/ \A x \in Slots \ CredentialSlots(credential.kind) :
                settings'[x] = settings[x]]_vars

\* The window shows, for every waiting change, the value that change will save,
\* and of several changes to a field only the latest waits.
DesiredShowsLatest ==
    \A i, j \in DOMAIN queue :
        /\ Matches(queue[i], desired)
        /\ queue[i].field = queue[j].field => i = j

Settled == saves = {} /\ queue = <<>> /\ ~credentialBusy

\* Once nothing is in flight or waiting, the services run with what is committed and
\* the window shows it, but for the slots of the providers, which several fields write:
\* a failed save of one of them takes back a change of another that still waits.
OwnSlotsSettle ==
    Settled => /\ \A x \in Slots \ (LlmSlots \cup {"provider"}) : desired[x] = settings[x]
               /\ \A x \in RuntimeSlots : live[x] = settings[x]

\* A save that turns automatic Korean recognition on starts only while the Korean
\* extension is installed, even when the change waited while it was removed.
KoreanChecked ==
    [][\A job \in saves' \ saves :
         job.stage = "write" /\ job.field = "korean" /\ job.value = On => koreanReady]_vars

Open(id) == (\E job \in saves : job.id = id) \/ (\E i \in DOMAIN queue : queue[i].id = id)

\* Every change the window accepted is saved, refused, superseded or dropped, and every
\* credential operation ends, although each waits for the other.
EveryChangeEnds ==
    /\ \A id \in 1..MaxRequests : Open(id) ~> ~Open(id)
    /\ credentialBusy ~> ~credentialBusy
========================================
