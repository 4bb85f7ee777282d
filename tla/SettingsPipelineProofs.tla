----------------------- MODULE SettingsPipelineProofs -----------------------
(* Theorems about SettingsPipeline, for every value of its constants.        *)
EXTENDS SettingsPipeline, SequenceTheorems, TLAPS

\* Applying a change or copying slots yields settings.
LEMMA ApplyToType ==
    ASSUME NEW change, change.value \in Values, NEW s \in Settings
    PROVE  ApplyTo(change, s) \in Settings
BY DEF ApplyTo, Settings

\* Copying slots between settings yields settings (restore, publish, commit).
LEMMA CopySlotsType ==
    ASSUME NEW xs, NEW s \in Settings, NEW d \in Settings
    PROVE  CopySlots(xs, s, d) \in Settings
BY DEF CopySlots, Settings

\* The worker of a new change starts from the committed settings.
LEMMA NewSaveType ==
    ASSUME NEW change \in Change, NEW s \in Settings
    PROVE  NewSave(change, s) \in Save
<1>1. change.value \in Values BY DEF Change
<1>2. ApplyTo(change, s) \in Settings BY <1>1, ApplyToType
<1> QED BY <1>1, <1>2 DEF NewSave, Save, Change, SaveStages

\* What starting changes does: the committed settings are the handler's, and at
\* most one worker is added.
Started(s, workers) ==
    \/ saves' = workers
    \/ \E change \in Change : saves' = workers \cup {NewSave(change, s)}

\* What start_settings_change installs, beside the settings it is given.
LEMMA StartChangesFacts ==
    ASSUME NEW s \in Settings, NEW d \in Settings, NEW q \in Seq(Change), NEW workers,
           StartChanges(s, d, q, workers)
    PROVE  settings' = s /\ desired' \in Settings /\ queue' \in Seq(Change) /\ Started(s, workers)
<1>1. PICK n \in 1..(Len(q) + 1) :
          /\ settings' = s
          /\ desired' = CopySlots(DroppedSlots(q, n, s), s, d)
          /\ queue' = SubSeq(q, n + 1, Len(q))
          /\ saves' = IF n <= Len(q) THEN workers \cup {NewSave(q[n], s)} ELSE workers
  BY DEF StartChanges
<1>2. desired' \in Settings BY <1>1, CopySlotsType
<1>3. queue' \in Seq(Change)
  <2>1. \A i \in (n + 1)..Len(q) : q[i] \in Change BY <1>1, ElementOfSeq
  <2> QED BY <1>1, <2>1, SubSeqProperties
<1>4. Started(s, workers)
  <2>1. n <= Len(q) => q[n] \in Change BY <1>1, ElementOfSeq
  <2> QED BY <1>1, <2>1 DEF Started
<1> QED BY <1>1, <1>2, <1>3, <1>4

\* What start_next_settings_change installs, whether or not a credential
\* operation is in progress.
LEMMA StartNextFacts ==
    ASSUME NEW s \in Settings, NEW d \in Settings, NEW workers, queue \in Seq(Change),
           StartNextSettingsChange(s, d, workers)
    PROVE  /\ settings' = s /\ desired' \in Settings /\ queue' \in Seq(Change)
           /\ Started(s, workers)
           /\ credentialBusy' => saves' = workers
<1>1. CASE credentialBusy' BY <1>1 DEF StartNextSettingsChange, Started
<1>2. CASE ~credentialBusy' BY <1>2, StartChangesFacts DEF StartNextSettingsChange
<1> QED BY <1>1, <1>2

----------------------------------------
(* Type correctness.                                                         *)

\* A worker that moves to another stage keeps its type.
LEMMA StepType ==
    ASSUME TypeOK, NEW job \in saves, NEW stage \in SaveStages
    PROVE  [job EXCEPT !.stage = stage] \in Save
BY DEF TypeOK, Save

\* Workers started on top of well-typed workers are well-typed.
LEMMA NewSavesType ==
    ASSUME TypeOK, NEW workers, workers \subseteq saves, NEW s \in Settings,
           Started(s, workers)
    PROVE  saves' \subseteq Save
BY NewSaveType DEF TypeOK, Started

\* Dropping the superseded change of a field leaves a queue of changes.
LEMMA WithoutFieldType ==
    ASSUME NEW q \in Seq(Change), NEW field
    PROVE  WithoutField(q, field) \in Seq(Change)
<1>1. CASE Queued(q, field)
  <2> DEFINE n == CHOOSE i \in DOMAIN q : q[i].field = field
  <2>1. n \in 1..Len(q) BY <1>1 DEF Queued
  <2> HIDE DEF n
  <2>2. \A i \in 1..Len(q) : q[i] \in Change BY ElementOfSeq
  <2>3. SubSeq(q, 1, n - 1) \in Seq(Change) /\ SubSeq(q, n + 1, Len(q)) \in Seq(Change)
    BY <2>1, <2>2, SubSeqProperties
  <2>4. SubSeq(q, 1, n - 1) \o SubSeq(q, n + 1, Len(q)) \in Seq(Change) BY <2>3, ConcatProperties
  <2> QED BY <1>1, <2>4 DEF WithoutField, n
<1>2. CASE ~Queued(q, field) BY <1>2 DEF WithoutField
<1> QED BY <1>1, <1>2

\* A request of the user (SettingsChangeRequested) keeps every type.
LEMMA TypeRequest ==
    ASSUME TypeOK, NEW field \in Fields, NEW value \in ValuesOf(field),
           RequestSettingsChange(field, value)
    PROVE  TypeOK'
<1> DEFINE change == [id |-> requests + 1, field |-> field, value |-> value]
           d      == ApplyTo(change, desired)
           kept   == WithoutField(queue, field)
<1>1. value \in Values BY ValuesAssumption DEF ValuesOf, On, Off
<1>2. change \in Change /\ requests' \in 0..MaxRequests
  BY <1>1, FieldsAssumption, MaxRequestsAssumption DEF RequestSettingsChange, Change, TypeOK
<1>3. d \in Settings BY <1>1, ApplyToType DEF TypeOK
<1>4. CASE saving \/ credentialBusy
  <2>1. kept \in Seq(Change) BY WithoutFieldType DEF TypeOK
  <2>2. Append(kept, change) \in Seq(Change) BY <1>2, <2>1, AppendProperties
  <2> QED BY <1>2, <1>3, <1>4, <2>2 DEF RequestSettingsChange, TypeOK
<1>5. CASE ~(saving \/ credentialBusy)
  <2>1. <<change>> \o queue \in Seq(Change) BY <1>2, ConcatProperties DEF TypeOK
  <2>2. StartChanges(settings, d, <<change>> \o queue, saves) /\ saving' \in BOOLEAN
    BY <1>5 DEF RequestSettingsChange
  <2>3. settings' = settings /\ desired' \in Settings /\ queue' \in Seq(Change)
        /\ Started(settings, saves)
    <3>1. settings \in Settings BY DEF TypeOK
    <3> HIDE DEF change, d
    <3> QED BY <1>3, <2>1, <2>2, <3>1, StartChangesFacts
  <2>4. saves' \subseteq Save BY <2>3, NewSavesType DEF TypeOK
  <2> QED BY <1>2, <2>2, <2>3, <2>4 DEF RequestSettingsChange, TypeOK
<1> QED BY <1>4, <1>5

\* The handlers that end an operation: s and d are the settings they install.
LEMMA TypeEnd ==
    ASSUME TypeOK, NEW s \in Settings, NEW d \in Settings, NEW workers, workers \subseteq saves,
           StartNextSettingsChange(s, d, workers)
    PROVE  /\ settings' \in Settings /\ desired' \in Settings /\ queue' \in Seq(Change)
           /\ saves' \subseteq Save
<1>1. queue \in Seq(Change) BY DEF TypeOK
<1>2. /\ settings' = s /\ desired' \in Settings /\ queue' \in Seq(Change)
      /\ Started(s, workers)
  BY <1>1, StartNextFacts
<1>3. saves' \subseteq Save BY <1>2, NewSavesType
<1> QED BY <1>2, <1>3

\* restore_desired_field_after_failure yields settings.
LEMMA RestoreType ==
    ASSUME TypeOK, NEW field
    PROVE  RestoreDesired(field, queue, settings, desired) \in Settings
BY CopySlotsType DEF RestoreDesired, TypeOK

\* A step of the worker of a change keeps every type.
LEMMA TypeSaveWorker ==
    ASSUME TypeOK, NEW job \in saves, SaveWorker(job)
    PROVE  TypeOK'
<1>1. job \in Save /\ job.target \in Settings /\ job.previous \in Settings BY DEF TypeOK, Save
<1>2. \A stage \in SaveStages : Step(job, stage) => saves' \subseteq Save
  BY StepType DEF Step, TypeOK
<1>3. CASE SaveFile(job) BY <1>1, <1>2, <1>3 DEF SaveFile, SaveStages, TypeOK, reducer
<1>4. CASE SaveFileFails(job) BY <1>2, <1>4 DEF SaveFileFails, SaveStages, TypeOK, reducer
<1>5. CASE RuntimeConfigChanged(job)
  <2>1. [job EXCEPT !.stage = "apply", !.previous = settings] \in Save
    BY <1>1 DEF Save, SaveStages, TypeOK
  <2> QED BY <1>5, <2>1 DEF RuntimeConfigChanged, TypeOK, reducer
<1>6. CASE ApplyRuntime(job)
  <2>1. live' \in Settings BY <1>1, <1>6, CopySlotsType DEF ApplyRuntime, TypeOK
  <2> QED BY <1>2, <1>6, <2>1 DEF ApplyRuntime, SaveStages, TypeOK, reducer
<1>7. CASE ApplyRuntimeFails(job) BY <1>2, <1>7 DEF ApplyRuntimeFails, SaveStages, TypeOK, reducer
<1>8. CASE RollBack(job) BY <1>1, <1>2, <1>8 DEF RollBack, SaveStages, TypeOK, reducer
<1>9. CASE RuntimeConfigUpdated(job)
  <2>1. /\ StartNextSettingsChange(job.target, desired, saves \ {job})
        /\ saving' \in BOOLEAN
        /\ UNCHANGED <<credentialBusy, disk, live, credential, koreanReady, requests,
                       credentials, rollbackLost>>
    BY <1>9 DEF RuntimeConfigUpdated
  <2>2. desired \in Settings /\ credentialBusy \in BOOLEAN BY DEF TypeOK
  <2>3. /\ settings' \in Settings /\ desired' \in Settings /\ queue' \in Seq(Change)
        /\ saves' \subseteq Save
    BY <1>1, <2>1, <2>2, TypeEnd
  <2> QED BY <2>1, <2>3 DEF TypeOK
<1>10. CASE SettingsChangeFailed(job)
  <2> DEFINE d == RestoreDesired(job.field, queue, settings, desired)
  <2>1. /\ StartNextSettingsChange(settings, d, saves \ {job}) /\ saving' \in BOOLEAN
        /\ UNCHANGED <<credentialBusy, disk, live, credential, koreanReady, requests,
                       credentials, rollbackLost>>
    BY <1>10 DEF SettingsChangeFailed
  <2>2. settings \in Settings /\ d \in Settings /\ credentialBusy \in BOOLEAN
    BY RestoreType DEF TypeOK
  <2> HIDE DEF d
  <2>3. /\ settings' \in Settings /\ desired' \in Settings /\ queue' \in Seq(Change)
        /\ saves' \subseteq Save
    BY <2>1, <2>2, TypeEnd
  <2> QED BY <2>1, <2>3 DEF TypeOK
<1> QED BY <1>3, <1>4, <1>5, <1>6, <1>7, <1>8, <1>9, <1>10 DEF SaveWorker

\* A credential request keeps every type.
LEMMA TypeCredential ==
    ASSUME TypeOK, NEW kind \in CredentialKinds, NEW value \in ValuesOf(kind),
           RequestCredential(kind, value)
    PROVE  TypeOK'
<1>1. value \in Values /\ kind \in AllKinds
  BY ValuesAssumption, KindsAssumption DEF ValuesOf, On, Off
<1>2. desired' \in Settings BY <1>1 DEF RequestCredential, TypeOK, Settings, Slots, LlmSlots
<1>3. credential' \in Credential BY <1>1 DEF RequestCredential, Credential, CredentialStages, TypeOK
<1>4. credentials' \in 0..MaxCredentials BY MaxCredentialsAssumption DEF RequestCredential, TypeOK
<1> QED BY <1>2, <1>3, <1>4 DEF RequestCredential, TypeOK

\* A step of the credential worker keeps every type.
LEMMA TypeCredentialWorker ==
    ASSUME TypeOK, CredentialWorker
    PROVE  TypeOK'
<1>1. credential \in Credential /\ credential.target \in Settings BY DEF TypeOK, Credential
<1>2. \A stage \in CredentialStages : [credential EXCEPT !.stage = stage] \in Credential
  BY <1>1 DEF Credential
<1>3. CASE ReadCredential BY <1>2, <1>3 DEF ReadCredential, CredentialStages, TypeOK, reducer
<1>4. CASE SettingsIdle BY <1>2, <1>4 DEF SettingsIdle, CredentialStages, TypeOK, reducer
<1>5. CASE SnapshotSettings
  <2>1. CredentialTarget(settings) \in Settings
    BY <1>1 DEF CredentialTarget, TypeOK, Settings, Credential
  <2>2. credential' \in Credential
    BY <1>1, <1>5, <2>1 DEF SnapshotSettings, Credential, CredentialStages
  <2> QED BY <1>5, <2>2 DEF SnapshotSettings, TypeOK, reducer
<1>6. CASE WriteCredential
  BY <1>1, <1>2, <1>6 DEF WriteCredential, CredentialStages, TypeOK, reducer
<1>7. CASE WriteCredentialFails
  BY <1>2, <1>7 DEF WriteCredentialFails, CredentialStages, TypeOK, reducer
<1>8. CASE PublishCredential
  <2>1. live' \in Settings BY <1>1, <1>8, CopySlotsType DEF PublishCredential, TypeOK
  <2> QED BY <1>2, <1>8, <2>1 DEF PublishCredential, CredentialStages, TypeOK, reducer
<1>9. CASE CredentialCommitted
  <2>1. DesiredAfterCredential \in Settings
    BY <1>1, CopySlotsType DEF DesiredAfterCredential, TypeOK
  <2>2. CopySlots(IF credential.kind = "deepl" THEN {"deeplRef"} ELSE LlmSlots,
                  credential.target, settings) \in Settings
    BY <1>1, CopySlotsType DEF TypeOK
  <2>3. credential' \in Credential BY <1>2, <1>9 DEF CredentialCommitted, CredentialStages
  <2> QED BY <1>9, <2>1, <2>2, <2>3, TypeEnd DEF CredentialCommitted, TypeOK
<1>10. CASE CredentialAccessEnded
  <2>1. credential' \in Credential BY <1>2, <1>10 DEF CredentialAccessEnded, CredentialStages
  <2> QED BY <1>10, <2>1, TypeEnd DEF CredentialAccessEnded, TypeOK
<1>11. CASE CredentialFailed
  <2> DEFINE d == IF credential.kind = "connection"
                  THEN RestoreDesired("llm", queue, settings, desired) ELSE desired
  <2>1. credential' \in Credential BY <1>2, <1>11 DEF CredentialFailed, CredentialStages
  <2>2. settings \in Settings /\ d \in Settings /\ saving \in BOOLEAN BY RestoreType DEF TypeOK
  <2>3. /\ StartNextSettingsChange(settings, d, saves) /\ saving' \in BOOLEAN
        /\ credentialBusy' = FALSE
        /\ UNCHANGED <<disk, live, koreanReady, requests, credentials, rollbackLost>>
    BY <1>11 DEF CredentialFailed
  <2> HIDE DEF d
  <2>4. /\ settings' \in Settings /\ desired' \in Settings /\ queue' \in Seq(Change)
        /\ saves' \subseteq Save
    BY <2>2, <2>3, TypeEnd
  <2> QED BY <2>1, <2>3, <2>4 DEF TypeOK
<1> QED BY <1>3, <1>4, <1>5, <1>6, <1>7, <1>8, <1>9, <1>10, <1>11 DEF CredentialWorker

\* Every variable keeps its type; the bounded counters stay within their bounds.
THEOREM TypeCorrect == Spec => []TypeOK
<1>1. Init => TypeOK
  <2> SUFFICES ASSUME Init PROVE TypeOK OBVIOUS
  <2>1. settings \in Settings BY LoadedAssumption DEF Init
  <2>2. queue \in Seq(Change) /\ saves \subseteq Save BY EmptySeq DEF Init
  <2>3. credential \in Credential
    BY <2>1, ValuesAssumption
       DEF Init, NoCredential, Credential, AllKinds, CredentialStages, On, Off
  <2>4. requests \in 0..MaxRequests /\ credentials \in 0..MaxCredentials
    BY MaxRequestsAssumption, MaxCredentialsAssumption DEF Init
  <2>5. saving \in BOOLEAN /\ credentialBusy \in BOOLEAN /\ rollbackLost \in BOOLEAN BY DEF Init
  <2>6. desired \in Settings /\ disk \in Settings /\ live \in Settings BY <2>1 DEF Init
  <2>7. koreanReady \in BOOLEAN BY DEF Init
  <2> QED BY <2>1, <2>2, <2>3, <2>4, <2>5, <2>6, <2>7 DEF TypeOK
<1>2. TypeOK /\ [Next]_vars => TypeOK'
  <2> SUFFICES ASSUME TypeOK, [Next]_vars PROVE TypeOK' OBVIOUS
  <2>1. CASE User BY <2>1, TypeRequest, TypeCredential DEF User
  <2>2. CASE \E job \in saves : SaveWorker(job) BY <2>2, TypeSaveWorker
  <2>3. CASE CredentialWorker BY <2>3, TypeCredentialWorker
  <2>4. CASE KoreanExtensionChanged BY <2>4 DEF KoreanExtensionChanged, TypeOK, reducer
  <2>5. CASE UNCHANGED vars BY <2>5 DEF vars, TypeOK
  <2> QED BY <2>1, <2>2, <2>3, <2>4, <2>5 DEF Next
<1> QED BY <1>1, <1>2, PTL DEF Spec

----------------------------------------
(* One save at a time.  The theorem needs the credential operations to wait  *)
(* for the save in flight; a temporary read and a missing credential store   *)
(* end at once, clear credential_busy and start the next change beside it.   *)

QuietStore == "read" \notin CredentialKinds /\ StoreAvailable = TRUE

SerialInv ==
    /\ SerialSaves
    /\ saves # {} => saving = TRUE
    /\ credentialBusy = TRUE <=> credential.stage # "none"
    /\ credential.stage # "none" => credential.kind # "read"
    /\ credential.stage \notin {"none", "wait"} => saving = FALSE

\* A handler that leaves no worker behind starts at most one.
LEMMA StartedSerial ==
    ASSUME NEW s, NEW workers, workers = {}, Started(s, workers)
    PROVE  SerialSaves'
BY DEF Started, SerialSaves

\* A settings request keeps saves serial: it starts a worker only when none runs.
LEMMA SerialRequest ==
    ASSUME TypeOK, SerialInv, NEW field \in Fields, NEW value \in ValuesOf(field),
           RequestSettingsChange(field, value)
    PROVE  SerialInv'
<1> DEFINE change == [id |-> requests + 1, field |-> field, value |-> value]
           d      == ApplyTo(change, desired)
<1>1. CASE saving \/ credentialBusy
  BY <1>1 DEF RequestSettingsChange, SerialInv, SerialSaves, TypeOK
<1>2. CASE ~(saving \/ credentialBusy)
  <2>1. saves = {} /\ credential.stage = "none" BY <1>2 DEF SerialInv, TypeOK
  <2>2. StartChanges(settings, d, <<change>> \o queue, saves) BY <1>2 DEF RequestSettingsChange
  <2>3. change \in Change /\ settings \in Settings /\ queue \in Seq(Change)
    <3>1. value \in Values BY ValuesAssumption DEF ValuesOf, On, Off
    <3> QED
      BY <3>1, FieldsAssumption, MaxRequestsAssumption
         DEF RequestSettingsChange, Change, TypeOK
  <2>4. d \in Settings /\ <<change>> \o queue \in Seq(Change)
    BY <2>3, ApplyToType, ConcatProperties DEF TypeOK, Change
  <2>5. Started(settings, saves)
    <3> HIDE DEF change, d
    <3> QED BY <2>2, <2>3, <2>4, StartChangesFacts
  <2>6. SerialSaves' BY <2>1, <2>5, StartedSerial
  <2>7. saving' = (saves' # saves) /\ UNCHANGED <<credentialBusy, credential>>
    BY <1>2 DEF RequestSettingsChange
  <2> QED BY <2>1, <2>6, <2>7 DEF SerialInv
<1> QED BY <1>1, <1>2

\* The event that ends the only worker.
LEMMA SerialSaveEnd ==
    ASSUME TypeOK, SerialInv, NEW job \in saves, NEW s \in Settings, NEW d \in Settings,
           UNCHANGED <<credentialBusy, credential>>,
           StartNextSettingsChange(s, d, saves \ {job}),
           saving' = (saves' # saves \ {job})
    PROVE  SerialInv'
<1>1. saves \ {job} = {} BY DEF SerialInv, SerialSaves
<1>2. Started(s, saves \ {job}) /\ (credentialBusy' => saves' = saves \ {job})
  BY StartNextFacts DEF TypeOK
<1>3. SerialSaves' BY <1>1, <1>2, StartedSerial
<1>4. credential'.stage \notin {"none", "wait"} => saves' = {} BY <1>1, <1>2 DEF SerialInv
<1> QED BY <1>1, <1>3, <1>4 DEF SerialInv

\* The event that ends a credential operation.
LEMMA SerialCredentialEnd ==
    ASSUME TypeOK, SerialInv, credential.stage \notin {"none", "wait"},
           NEW s \in Settings, NEW d \in Settings,
           credentialBusy' = FALSE, credential'.stage = "none",
           StartNextSettingsChange(s, d, saves),
           saving' = (saving \/ saves' # saves)
    PROVE  SerialInv'
<1>1. saves = {} /\ saving = FALSE BY DEF SerialInv
<1>2. Started(s, saves) BY StartNextFacts DEF TypeOK
<1>3. SerialSaves' BY <1>1, <1>2, StartedSerial
<1> QED BY <1>1, <1>3 DEF SerialInv

\* A worker that only changes its stage keeps saves serial.
LEMMA SerialStep ==
    ASSUME SerialInv, NEW job \in saves, NEW next,
           saves' = (saves \ {job}) \cup {next},
           UNCHANGED <<saving, credentialBusy, credential>>
    PROVE  SerialInv'
BY DEF SerialInv, SerialSaves

\* No step of the worker of a change makes a second worker run.
LEMMA SerialSaveWorker ==
    ASSUME TypeOK, SerialInv, NEW job \in saves, SaveWorker(job)
    PROVE  SerialInv'
<1>1. CASE SaveFile(job) BY <1>1, SerialStep DEF SaveFile, Step, reducer
<1>2. CASE SaveFileFails(job) BY <1>2, SerialStep DEF SaveFileFails, Step, reducer
<1>3. CASE RuntimeConfigChanged(job) BY <1>3, SerialStep DEF RuntimeConfigChanged, reducer
<1>4. CASE ApplyRuntime(job) BY <1>4, SerialStep DEF ApplyRuntime, Step, reducer
<1>5. CASE ApplyRuntimeFails(job) BY <1>5, SerialStep DEF ApplyRuntimeFails, Step, reducer
<1>6. CASE RollBack(job) BY <1>6, SerialStep DEF RollBack, Step, reducer
<1>7. CASE RuntimeConfigUpdated(job)
  <2>1. job.target \in Settings /\ desired \in Settings BY DEF TypeOK, Save
  <2> QED BY <1>7, <2>1, SerialSaveEnd DEF RuntimeConfigUpdated
<1>8. CASE SettingsChangeFailed(job)
  <2> DEFINE d == RestoreDesired(job.field, queue, settings, desired)
  <2>1. settings \in Settings /\ d \in Settings BY RestoreType DEF TypeOK
  <2>2. /\ StartNextSettingsChange(settings, d, saves \ {job})
        /\ saving' = (saves' # saves \ {job})
        /\ UNCHANGED <<credentialBusy, credential>>
    BY <1>8 DEF SettingsChangeFailed
  <2> HIDE DEF d
  <2> QED BY <2>1, <2>2, SerialSaveEnd
<1> QED BY <1>1, <1>2, <1>3, <1>4, <1>5, <1>6, <1>7, <1>8 DEF SaveWorker

\* A credential request starts no worker of a change.
LEMMA SerialCredential ==
    ASSUME QuietStore, TypeOK, SerialInv, NEW kind \in CredentialKinds, NEW value,
           RequestCredential(kind, value)
    PROVE  SerialInv'
BY DEF QuietStore, RequestCredential, SerialInv, SerialSaves

\* A credential worker past wait_for_settings_idle ends with no save in flight,
\* so the change it lets start is alone.
LEMMA SerialCredentialWorker ==
    ASSUME TypeOK, SerialInv, CredentialWorker
    PROVE  SerialInv'
<1>0. credential \in Credential /\ credential.target \in Settings /\ settings \in Settings
  BY DEF TypeOK, Credential
<1>1. CASE ReadCredential BY <1>1 DEF ReadCredential, SerialInv
<1>2. CASE SettingsIdle
  BY <1>0, <1>2 DEF SettingsIdle, SerialInv, SerialSaves, Credential, reducer, TypeOK
<1>3. CASE SnapshotSettings
  BY <1>0, <1>3 DEF SnapshotSettings, SerialInv, SerialSaves, Credential, reducer
<1>4. CASE WriteCredential
  BY <1>0, <1>4 DEF WriteCredential, SerialInv, SerialSaves, Credential, reducer
<1>5. CASE WriteCredentialFails
  BY <1>0, <1>5 DEF WriteCredentialFails, SerialInv, SerialSaves, Credential, reducer
<1>6. CASE PublishCredential
  BY <1>0, <1>6 DEF PublishCredential, SerialInv, SerialSaves, Credential, reducer
<1>7. CASE CredentialCommitted
  <2> DEFINE s == CopySlots(IF credential.kind = "deepl" THEN {"deeplRef"} ELSE LlmSlots,
                            credential.target, settings)
  <2>1. s \in Settings /\ DesiredAfterCredential \in Settings
    BY <1>0, CopySlotsType DEF DesiredAfterCredential, TypeOK
  <2>2. /\ credentialBusy' = FALSE /\ credential'.stage = "none"
        /\ credential.stage \notin {"none", "wait"}
        /\ StartNextSettingsChange(s, DesiredAfterCredential, saves)
        /\ saving' = (saving \/ saves' # saves)
    BY <1>0, <1>7 DEF CredentialCommitted, Credential
  <2> HIDE DEF s
  <2> QED BY <2>1, <2>2, SerialCredentialEnd
<1>8. CASE CredentialAccessEnded BY <1>8 DEF CredentialAccessEnded, SerialInv
<1>9. CASE CredentialFailed
  <2> DEFINE d == IF credential.kind = "connection"
                  THEN RestoreDesired("llm", queue, settings, desired) ELSE desired
  <2>1. d \in Settings BY RestoreType DEF TypeOK
  <2>2. /\ credentialBusy' = FALSE /\ credential'.stage = "none"
        /\ credential.stage \notin {"none", "wait"}
        /\ StartNextSettingsChange(settings, d, saves)
        /\ saving' = (saving \/ saves' # saves)
    BY <1>0, <1>9 DEF CredentialFailed, Credential
  <2> HIDE DEF d
  <2> QED BY <1>0, <2>1, <2>2, SerialCredentialEnd
<1> QED BY <1>1, <1>2, <1>3, <1>4, <1>5, <1>6, <1>7, <1>8, <1>9 DEF CredentialWorker

\* The serial part of the argument: at most one worker, and the flags say so.
LEMMA SerialInvariant == QuietStore => (Spec => [](TypeOK /\ SerialInv))
<1> SUFFICES ASSUME QuietStore PROVE Spec => [](TypeOK /\ SerialInv) OBVIOUS
<1>1. Init => SerialInv BY DEF Init, SerialInv, SerialSaves, NoCredential
<1>2. TypeOK /\ SerialInv /\ [Next]_vars => SerialInv'
  <2> SUFFICES ASSUME TypeOK, SerialInv, [Next]_vars PROVE SerialInv' OBVIOUS
  <2>1. CASE User BY <2>1, SerialRequest, SerialCredential DEF User
  <2>2. CASE \E job \in saves : SaveWorker(job) BY <2>2, SerialSaveWorker
  <2>3. CASE CredentialWorker BY <2>3, SerialCredentialWorker
  <2>4. CASE KoreanExtensionChanged
    BY <2>4 DEF KoreanExtensionChanged, SerialInv, SerialSaves, reducer
  <2>5. CASE UNCHANGED vars BY <2>5 DEF vars, SerialInv, SerialSaves
  <2> QED BY <2>1, <2>2, <2>3, <2>4, <2>5 DEF Next
<1> QED BY <1>1, <1>2, TypeCorrect, PTL DEF Spec

\* The core runs save transactions one at a time (start_next_settings_change),
\* when credential operations do not end beside a save in flight.
THEOREM SavesAreSerial == QuietStore => (Spec => []SerialSaves)
<1>1. SerialInv => SerialSaves BY DEF SerialInv
<1> QED BY <1>1, SerialInvariant, PTL

----------------------------------------
(* The file, the services and the committed settings agree.  The strengthened *)
(* invariant says, for each stage of the operation in flight, which of its     *)
(* settings each of the three holds.                                          *)

InFile(job) == job.stage \in {"written", "apply", "applied", "rejected"}

SaveAgrees(job) ==
    /\ job.target = ApplyTo(job, settings)
    /\ job.stage \in {"apply", "applied", "rejected", "rolledBack"} => job.previous = settings
    /\ InFile(job) => disk = job.target
    /\ ~InFile(job) => disk = settings \/ rollbackLost = TRUE
    /\ job.stage = "applied" => ~ShortcutConflict(job.field, job.target)
    /\ \A x \in RuntimeSlots :
           live[x] = IF job.stage = "applied" THEN job.target[x] ELSE settings[x]

CredentialAgrees ==
    /\ credential.stage \in {"write", "written", "published"} =>
           credential.target = CredentialTarget(settings)
    /\ credential.stage \in {"written", "published"} => disk = credential.target
    /\ credential.stage = "published" =>
           \A x \in RuntimeSlots : live[x] = credential.target[x]

AgreeInv ==
    /\ \A job \in saves : SaveAgrees(job)
    /\ CredentialAgrees
    /\ saves = {} /\ credential.stage \notin {"written", "published"} =>
           disk = settings \/ rollbackLost = TRUE
    /\ saves = {} /\ credential.stage # "published" =>
           \A x \in RuntimeSlots : live[x] = settings[x]

\* A service takes over every slot the change wrote.
LEMMA AppliedWrites ==
    ASSUME NEW field \in AllFields
    PROVE  Writes(field) \cap RuntimeSlots \subseteq AppliedSlots(field)
BY DEF AllFields, Writes, RuntimeSlots, Slots, LlmSlots, AppliedSlots

\* Once the file and the services hold the settings s that become committed, the
\* worker of the next change starts in agreement.
LEMMA AgreeStarted ==
    ASSUME NEW s \in Settings, NEW workers, workers = {}, Started(s, workers),
           settings' = s,
           disk' = s \/ rollbackLost' = TRUE,
           \A x \in RuntimeSlots : live'[x] = s[x],
           credential'.stage \in {"none", "wait"}
    PROVE  AgreeInv'
<1>1. CredentialAgrees' BY DEF CredentialAgrees
<1>2. \A job \in saves' : SaveAgrees(job)'
  <2> SUFFICES ASSUME NEW job \in saves' PROVE SaveAgrees(job)' OBVIOUS
  <2>1. PICK change \in Change : job = NewSave(change, s) BY DEF Started
  <2>2. job.stage = "write" /\ job.target = ApplyTo(job, s) BY <2>1 DEF NewSave, ApplyTo
  <2> QED BY <2>2 DEF SaveAgrees, InFile, ApplyTo
<1> QED BY <1>1, <1>2 DEF AgreeInv

\* A settings request keeps file, services and committed settings in agreement.
LEMMA AgreeRequest ==
    ASSUME TypeOK, SerialInv, AgreeInv, NEW field \in Fields, NEW value \in ValuesOf(field),
           RequestSettingsChange(field, value)
    PROVE  AgreeInv'
<1> DEFINE change == [id |-> requests + 1, field |-> field, value |-> value]
           d      == ApplyTo(change, desired)
<1>1. CASE saving \/ credentialBusy
  <2>1. UNCHANGED <<settings, saves, disk, live, credential, rollbackLost>>
    BY <1>1 DEF RequestSettingsChange
  <2> QED BY <2>1 DEF AgreeInv, SaveAgrees, CredentialAgrees, CredentialTarget
<1>2. CASE ~(saving \/ credentialBusy)
  <2>1. saves = {} /\ credential.stage = "none" BY <1>2 DEF SerialInv, TypeOK
  <2>2. /\ StartChanges(settings, d, <<change>> \o queue, saves)
        /\ UNCHANGED <<disk, live, credential, rollbackLost>>
    BY <1>2 DEF RequestSettingsChange
  <2>3. change \in Change /\ settings \in Settings /\ queue \in Seq(Change)
    <3>1. value \in Values BY ValuesAssumption DEF ValuesOf, On, Off
    <3> QED
      BY <3>1, FieldsAssumption, MaxRequestsAssumption
         DEF RequestSettingsChange, Change, TypeOK
  <2>4. d \in Settings /\ <<change>> \o queue \in Seq(Change)
    BY <2>3, ApplyToType, ConcatProperties DEF TypeOK, Change
  <2>5. Started(settings, saves) /\ settings' = settings
    <3> HIDE DEF change, d
    <3> QED BY <2>2, <2>3, <2>4, StartChangesFacts
  <2> QED BY <2>1, <2>2, <2>3, <2>5, AgreeStarted DEF AgreeInv
<1> QED BY <1>1, <1>2

\* The stages of the worker of a change before its last event.
LEMMA AgreeStep ==
    ASSUME SerialInv, AgreeInv, NEW job \in saves, NEW next,
           saves' = (saves \ {job}) \cup {next}, SaveAgrees(next)',
           UNCHANGED <<settings, credential>>
    PROVE  AgreeInv'
<1>1. saves' = {next} BY DEF SerialInv, SerialSaves
<1>2. credential.stage \in {"none", "wait"} BY DEF SerialInv
<1> QED BY <1>1, <1>2 DEF AgreeInv, CredentialAgrees

\* Each stage of a change keeps the agreement: write, refuse, roll back, commit.
LEMMA AgreeSaveWorker ==
    ASSUME TypeOK, SerialInv, AgreeInv, NEW job \in saves, SaveWorker(job)
    PROVE  AgreeInv'
<1>0. job \in Save /\ job.target \in Settings /\ SaveAgrees(job) /\ live \in Settings
  BY DEF AgreeInv, TypeOK, Save
<1>1. CASE SaveFile(job)
  <2> DEFINE next == [job EXCEPT !.stage = "written"]
  <2>1. SaveAgrees(next)' BY <1>0, <1>1 DEF SaveFile, SaveAgrees, InFile, ApplyTo, reducer, Save
  <2> QED BY <1>1, <2>1, AgreeStep DEF SaveFile, Step, reducer
<1>2. CASE SaveFileFails(job)
  <2> DEFINE next == [job EXCEPT !.stage = "unsaved"]
  <2>1. SaveAgrees(next)'
    BY <1>0, <1>2 DEF SaveFileFails, SaveAgrees, InFile, ApplyTo, reducer, Save
  <2> QED BY <1>2, <2>1, AgreeStep DEF SaveFileFails, Step, reducer
<1>3. CASE RuntimeConfigChanged(job)
  <2> DEFINE next == [job EXCEPT !.stage = "apply", !.previous = settings]
  <2>1. SaveAgrees(next)'
    BY <1>0, <1>3 DEF RuntimeConfigChanged, SaveAgrees, InFile, ApplyTo, reducer, Save
  <2> QED BY <1>3, <2>1, AgreeStep DEF RuntimeConfigChanged, reducer
<1>4. CASE ApplyRuntime(job)
  <2> DEFINE next == [job EXCEPT !.stage = "applied"]
  <2>1. \A x \in RuntimeSlots : live'[x] = job.target[x]
    <3> SUFFICES ASSUME NEW x \in RuntimeSlots PROVE live'[x] = job.target[x] OBVIOUS
    <3>1. x \in Slots /\ live[x] = settings[x]
      BY <1>0, <1>4 DEF ApplyRuntime, SaveAgrees, RuntimeSlots
    <3>2. live'[x] = IF x \in AppliedSlots(job.field) THEN job.target[x] ELSE settings[x]
      BY <1>4, <3>1 DEF ApplyRuntime, CopySlots
    <3>3. x \notin AppliedSlots(job.field) => x \notin Writes(job.field)
      BY <1>0, AppliedWrites DEF Save
    <3>4. job.target[x] = IF x \in Writes(job.field) THEN job.value ELSE settings[x]
      BY <1>0, <3>1 DEF SaveAgrees, ApplyTo
    <3> QED BY <3>2, <3>3, <3>4
  <2>2. SaveAgrees(next)'
    BY <1>0, <1>4, <2>1 DEF ApplyRuntime, SaveAgrees, InFile, ApplyTo, reducer, Save
  <2> QED BY <1>4, <2>2, AgreeStep DEF ApplyRuntime, Step, reducer
<1>5. CASE ApplyRuntimeFails(job)
  <2> DEFINE next == [job EXCEPT !.stage = "rejected"]
  <2>1. SaveAgrees(next)'
    BY <1>0, <1>5 DEF ApplyRuntimeFails, SaveAgrees, InFile, ApplyTo, reducer, Save
  <2> QED BY <1>5, <2>1, AgreeStep DEF ApplyRuntimeFails, Step, reducer
<1>6. CASE RollBack(job)
  <2> DEFINE next == [job EXCEPT !.stage = "rolledBack"]
  <2>1. SaveAgrees(next)' BY <1>0, <1>6 DEF RollBack, SaveAgrees, InFile, ApplyTo, reducer, Save
  <2> QED BY <1>6, <2>1, AgreeStep DEF RollBack, Step, reducer
<1>7. CASE RuntimeConfigUpdated(job)
  <2>1. saves \ {job} = {} /\ credential.stage \in {"none", "wait"} BY DEF SerialInv, SerialSaves
  <2>3. /\ StartNextSettingsChange(job.target, desired, saves \ {job})
        /\ UNCHANGED <<disk, live, credential, rollbackLost>>
        /\ job.stage = "applied"
    BY <1>7 DEF RuntimeConfigUpdated
  <2>4. settings' = job.target /\ Started(job.target, saves \ {job})
    BY <1>0, <2>3, StartNextFacts DEF TypeOK
  <2>5. disk' = job.target /\ \A x \in RuntimeSlots : live'[x] = job.target[x]
    BY <1>0, <2>3 DEF SaveAgrees, InFile
  <2> QED BY <1>0, <2>1, <2>3, <2>4, <2>5, AgreeStarted
<1>8. CASE SettingsChangeFailed(job)
  <2> DEFINE d == RestoreDesired(job.field, queue, settings, desired)
  <2>1. saves \ {job} = {} /\ credential.stage \in {"none", "wait"} BY DEF SerialInv, SerialSaves
  <2>2. settings \in Settings /\ d \in Settings /\ queue \in Seq(Change) BY RestoreType DEF TypeOK
  <2>3. /\ StartNextSettingsChange(settings, d, saves \ {job})
        /\ UNCHANGED <<disk, live, credential, rollbackLost>>
        /\ job.stage \in {"unsaved", "rolledBack"}
    BY <1>8 DEF SettingsChangeFailed
  <2> HIDE DEF d
  <2>4. settings' = settings /\ Started(settings, saves \ {job}) BY <2>2, <2>3, StartNextFacts
  <2>5. disk' = settings \/ rollbackLost' = TRUE BY <1>0, <2>3 DEF SaveAgrees, InFile
  <2>6. \A x \in RuntimeSlots : live'[x] = settings[x] BY <1>0, <2>3 DEF SaveAgrees
  <2> QED BY <2>1, <2>2, <2>3, <2>4, <2>5, <2>6, AgreeStarted
<1> QED BY <1>1, <1>2, <1>3, <1>4, <1>5, <1>6, <1>7, <1>8 DEF SaveWorker

\* Each stage of a credential operation keeps the agreement.
LEMMA AgreeCredentialWorker ==
    ASSUME TypeOK, SerialInv, AgreeInv, CredentialWorker
    PROVE  AgreeInv'
<1>0. /\ credential \in Credential /\ credential.target \in Settings
      /\ settings \in Settings /\ live \in Settings /\ queue \in Seq(Change)
  BY DEF TypeOK, Credential
<1>1. CASE ReadCredential BY <1>1 DEF ReadCredential, SerialInv
<1>2. CASE SettingsIdle
  <2>1. /\ credential.stage = "wait" /\ credential'.stage = "snapshot" /\ saves = {}
        /\ UNCHANGED <<settings, disk, live, saves, rollbackLost>>
    BY <1>0, <1>2 DEF SettingsIdle, reducer, SerialInv, Credential, TypeOK
  <2> QED BY <2>1 DEF AgreeInv, CredentialAgrees
<1>3. CASE SnapshotSettings
  <2>1. /\ credential.stage = "snapshot" /\ saves = {}
        /\ credential' = [kind |-> credential.kind, value |-> credential.value,
                          stage |-> "write", target |-> CredentialTarget(settings)]
        /\ UNCHANGED <<settings, disk, live, saves, rollbackLost>>
    BY <1>0, <1>3 DEF SnapshotSettings, reducer, SerialInv, Credential
  <2>2. CredentialTarget(settings)' = CredentialTarget(settings) BY <2>1 DEF CredentialTarget
  <2> QED BY <2>1, <2>2 DEF AgreeInv, CredentialAgrees
<1>4. CASE WriteCredential
  <2>1. /\ credential.stage = "write" /\ saves = {} /\ disk' = credential.target
        /\ credential' = [credential EXCEPT !.stage = "written"]
        /\ UNCHANGED <<settings, live, saves>>
    BY <1>4 DEF WriteCredential, reducer, SerialInv
  <2>2. /\ credential'.stage = "written" /\ credential'.target = credential.target
        /\ CredentialTarget(settings)' = CredentialTarget(settings)
    BY <1>0, <2>1 DEF CredentialTarget, Credential
  <2> QED BY <2>1, <2>2 DEF AgreeInv, CredentialAgrees
<1>5. CASE WriteCredentialFails
  <2>1. /\ credential.stage = "write" /\ credential'.stage = "failed" /\ saves = {}
        /\ UNCHANGED <<settings, disk, live, saves, rollbackLost>>
    BY <1>0, <1>5 DEF WriteCredentialFails, reducer, SerialInv, Credential
  <2> QED BY <2>1 DEF AgreeInv, CredentialAgrees
<1>6. CASE PublishCredential
  <2>1. /\ credential.stage = "written" /\ saves = {}
        /\ credential' = [credential EXCEPT !.stage = "published"]
        /\ live' = CopySlots(IF credential.kind = "deepl" THEN {"deeplRef"} ELSE LlmSlots,
                             credential.target, live)
        /\ UNCHANGED <<settings, disk, saves, rollbackLost>>
    BY <1>6 DEF PublishCredential, reducer, SerialInv
  <2>2. /\ credential'.stage = "published" /\ credential'.target = credential.target
        /\ CredentialTarget(settings)' = CredentialTarget(settings)
    BY <1>0, <2>1 DEF CredentialTarget, Credential
  <2>3. \A x \in RuntimeSlots : live'[x] = credential.target[x]
    <3> SUFFICES ASSUME NEW x \in RuntimeSlots PROVE live'[x] = credential.target[x] OBVIOUS
    <3>1. x \in Slots /\ live[x] = settings[x] BY <2>1 DEF AgreeInv, RuntimeSlots
    <3>2. x \notin (IF credential.kind = "deepl" THEN {"deeplRef"} ELSE LlmSlots)
              => credential.target[x] = settings[x]
      BY <1>0, <2>1, <3>1
         DEF AgreeInv, CredentialAgrees, CredentialTarget, CredentialSlots, Credential,
             AllKinds, LlmSlots
    <3> QED BY <2>1, <3>1, <3>2 DEF CopySlots
  <2> QED BY <2>1, <2>2, <2>3 DEF AgreeInv, CredentialAgrees
<1>7. CASE CredentialCommitted
  <2> DEFINE s == CopySlots(IF credential.kind = "deepl" THEN {"deeplRef"} ELSE LlmSlots,
                            credential.target, settings)
  <2>1. /\ credential.stage = "published" /\ credential'.stage = "none" /\ saves = {}
        /\ StartNextSettingsChange(s, DesiredAfterCredential, saves)
        /\ UNCHANGED <<disk, live, rollbackLost>>
    BY <1>0, <1>7 DEF CredentialCommitted, SerialInv, Credential
  <2>2. credential.target = CredentialTarget(settings) BY <2>1 DEF AgreeInv, CredentialAgrees
  <2>3. s = credential.target
    <3>1. \A x \in Slots : s[x] = credential.target[x]
      BY <1>0, <2>2
         DEF CopySlots, CredentialTarget, CredentialSlots, Credential, AllKinds, LlmSlots
    <3>2. s \in Settings BY <1>0, CopySlotsType
    <3> HIDE DEF s
    <3> QED BY <1>0, <3>1, <3>2 DEF Settings
  <2>5. s \in Settings /\ DesiredAfterCredential \in Settings
    BY <1>0, CopySlotsType DEF DesiredAfterCredential, TypeOK
  <2>6. disk' = s /\ \A x \in RuntimeSlots : live'[x] = s[x]
    BY <2>1, <2>3 DEF AgreeInv, CredentialAgrees
  <2> HIDE DEF s
  <2>7. settings' = s /\ Started(s, saves) BY <1>0, <2>1, <2>5, StartNextFacts
  <2> QED BY <2>1, <2>5, <2>6, <2>7, AgreeStarted
<1>8. CASE CredentialAccessEnded BY <1>8 DEF CredentialAccessEnded, SerialInv
<1>9. CASE CredentialFailed
  <2> DEFINE d == IF credential.kind = "connection"
                  THEN RestoreDesired("llm", queue, settings, desired) ELSE desired
  <2>1. d \in Settings BY RestoreType DEF TypeOK
  <2>2. /\ credential.stage = "failed" /\ credential'.stage = "none" /\ saves = {}
        /\ StartNextSettingsChange(settings, d, saves)
        /\ UNCHANGED <<disk, live, rollbackLost>>
    BY <1>0, <1>9 DEF CredentialFailed, SerialInv, Credential
  <2> HIDE DEF d
  <2>3. settings' = settings /\ Started(settings, saves) BY <1>0, <2>1, <2>2, StartNextFacts
  <2>4. /\ disk' = settings \/ rollbackLost' = TRUE
        /\ \A x \in RuntimeSlots : live'[x] = settings[x]
    BY <2>2 DEF AgreeInv
  <2> QED BY <1>0, <2>2, <2>3, <2>4, AgreeStarted
<1> QED BY <1>1, <1>2, <1>3, <1>4, <1>5, <1>6, <1>7, <1>8, <1>9 DEF CredentialWorker

\* A credential request keeps the agreement.
LEMMA AgreeCredential ==
    ASSUME QuietStore, AgreeInv, SerialInv, NEW kind, NEW value,
           RequestCredential(kind, value)
    PROVE  AgreeInv'
<1>1. /\ credential.stage = "none" /\ credential'.stage = "wait"
      /\ UNCHANGED <<settings, disk, live, saves, rollbackLost>>
  BY DEF QuietStore, RequestCredential, SerialInv
<1> QED BY <1>1 DEF AgreeInv, SaveAgrees, CredentialAgrees

\* The agreement of file, services and committed settings is inductive.
LEMMA AgreeInvariant == QuietStore => (Spec => [](TypeOK /\ SerialInv /\ AgreeInv))
<1> SUFFICES ASSUME QuietStore PROVE Spec => [](TypeOK /\ SerialInv /\ AgreeInv) OBVIOUS
<1>1. Init => AgreeInv
  BY LoadedAssumption
     DEF Init, AgreeInv, CredentialAgrees, NoCredential, RuntimeSlots
<1>2. TypeOK /\ SerialInv /\ AgreeInv /\ [Next]_vars => AgreeInv'
  <2> SUFFICES ASSUME TypeOK, SerialInv, AgreeInv, [Next]_vars PROVE AgreeInv' OBVIOUS
  <2>1. CASE User BY <2>1, AgreeRequest, AgreeCredential DEF User
  <2>2. CASE \E job \in saves : SaveWorker(job) BY <2>2, AgreeSaveWorker
  <2>3. CASE CredentialWorker BY <2>3, AgreeCredentialWorker
  <2>4. CASE KoreanExtensionChanged \/ UNCHANGED vars
    <3>1. UNCHANGED <<settings, disk, live, saves, credential, rollbackLost>>
      BY <2>4 DEF KoreanExtensionChanged, reducer, vars
    <3> QED BY <3>1 DEF AgreeInv, SaveAgrees, CredentialAgrees, CredentialTarget
  <2> QED BY <2>1, <2>2, <2>3, <2>4 DEF Next
<1> QED BY <1>1, <1>2, SerialInvariant, PTL DEF Spec

\* A credential operation that writes the file is alone from its snapshot to its
\* commit and its snapshot is current (wait_for_settings_idle).
THEOREM CredentialWritesAreAlone == QuietStore => (Spec => []CredentialWritesAlone)
<1>1. SerialInv /\ AgreeInv => CredentialWritesAlone
  BY DEF SerialInv, AgreeInv, CredentialAgrees, CredentialWritesAlone
<1> QED BY <1>1, AgreeInvariant, PTL

\* Whenever the process dies, config.toml holds the committed settings or those of
\* the operation in flight, or a rollback that could not be written.
THEOREM DiskAgreement == QuietStore => (Spec => []DiskAgrees)
<1>1. ASSUME TypeOK, SerialInv, AgreeInv PROVE DiskAgrees
  <2>1. CASE saves = {} BY <1>1, <2>1 DEF AgreeInv, CredentialAgrees, DiskAgrees
  <2>2. CASE saves # {}
    <3>1. PICK job \in saves : SaveAgrees(job) BY <1>1, <2>2 DEF AgreeInv
    <3> QED BY <3>1 DEF SaveAgrees, InFile, DiskAgrees
  <2> QED BY <2>1, <2>2
<1> QED BY <1>1, AgreeInvariant, PTL

\* The running services hold the committed settings, or those of the operation
\* whose outcome is about to be committed; a refused change leaves no trace.
THEOREM LiveAgreement == QuietStore => (Spec => []LiveAgrees)
<1>1. ASSUME TypeOK, SerialInv, AgreeInv PROVE LiveAgrees
  <2>1. CASE saves = {} BY <1>1, <2>1 DEF AgreeInv, CredentialAgrees, LiveAgrees
  <2>2. CASE saves # {}
    <3>1. PICK job \in saves : SaveAgrees(job) BY <1>1, <2>2 DEF AgreeInv
    <3> QED BY <3>1 DEF SaveAgrees, LiveAgrees
  <2> QED BY <2>1, <2>2
<1> QED BY <1>1, AgreeInvariant, PTL

\* The event that ends a change commits that change applied to the settings.
LEMMA CommitByJob ==
    ASSUME TypeOK, SerialInv, AgreeInv, NEW job \in saves, RuntimeConfigUpdated(job)
    PROVE  job \in saves \ saves' /\ settings' = ApplyTo(job, settings)
<1>1. /\ job.target \in Settings /\ job.stage = "applied"
      /\ StartNextSettingsChange(job.target, desired, saves \ {job})
  BY DEF RuntimeConfigUpdated, TypeOK, Save
<1>2. settings' = job.target /\ Started(job.target, saves \ {job})
  BY <1>1, StartNextFacts DEF TypeOK
<1>3. job \notin saves'
  <2>1. \A change \in Change : NewSave(change, job.target) # job BY <1>1 DEF NewSave
  <2> QED BY <1>2, <2>1 DEF Started
<1> QED BY <1>2, <1>3 DEF AgreeInv, SaveAgrees

\* The event that ends a credential operation commits the slots of its kind.
LEMMA CommitByCredential ==
    ASSUME TypeOK, SerialInv, AgreeInv, CredentialCommitted
    PROVE  \A x \in Slots \ CredentialSlots(credential.kind) : settings'[x] = settings[x]
<1> DEFINE s == CopySlots(IF credential.kind = "deepl" THEN {"deeplRef"} ELSE LlmSlots,
                          credential.target, settings)
<1>1. /\ credential \in Credential /\ settings \in Settings /\ credential.target \in Settings
      /\ queue \in Seq(Change)
  BY DEF TypeOK, Credential
<1>2. s \in Settings /\ DesiredAfterCredential \in Settings
  BY <1>1, CopySlotsType DEF DesiredAfterCredential, TypeOK
<1>3. StartNextSettingsChange(s, DesiredAfterCredential, saves) BY DEF CredentialCommitted
<1>4. settings' = s
  <2> HIDE DEF s
  <2> QED BY <1>1, <1>2, <1>3, StartNextFacts
<1>5. credential.target = CredentialTarget(settings)
  BY DEF CredentialCommitted, AgreeInv, CredentialAgrees
<1> QED BY <1>4, <1>5 DEF CopySlots, CredentialTarget

\* Only the event that ends a change or a credential operation commits, and only the application
\* of the one or the publication of the other reaches a service.
LEMMA WhoCommits ==
    ASSUME [Next]_vars, settings' # settings
    PROVE  (\E job \in saves : RuntimeConfigUpdated(job)) \/ CredentialCommitted
<1>1. CASE User
  BY <1>1 DEF User, RequestSettingsChange, StartChanges, RequestCredential
<1>2. CASE \E job \in saves : SaveWorker(job)
  BY <1>2 DEF SaveWorker, SettingsChangeFailed, StartNextSettingsChange, StartChanges, SaveFile,
     SaveFileFails, RuntimeConfigChanged, ApplyRuntime, ApplyRuntimeFails, RollBack, reducer
<1>3. CASE CredentialWorker
  BY <1>3 DEF CredentialWorker, CredentialAccessEnded, CredentialFailed, StartNextSettingsChange,
     StartChanges, ReadCredential, SettingsIdle, SnapshotSettings, WriteCredential,
     WriteCredentialFails, PublishCredential, reducer
<1>4. CASE KoreanExtensionChanged \/ UNCHANGED vars
  BY <1>4 DEF KoreanExtensionChanged, reducer, vars
<1> QED BY <1>1, <1>2, <1>3, <1>4 DEF Next

LEMMA WhoApplies ==
    ASSUME [Next]_vars, live' # live
    PROVE  (\E job \in saves : ApplyRuntime(job)) \/ PublishCredential
BY DEF Next, User, RequestSettingsChange, RequestCredential, SaveWorker, RuntimeConfigUpdated,
   SettingsChangeFailed, SaveFile, SaveFileFails, RuntimeConfigChanged, ApplyRuntimeFails, RollBack,
   CredentialWorker, CredentialCommitted, CredentialAccessEnded, CredentialFailed, ReadCredential,
   SettingsIdle, SnapshotSettings, WriteCredential, WriteCredentialFails, KoreanExtensionChanged, vars

\* A commit never takes back what another operation committed: it changes the
\* slots of the operation that ends (RuntimeConfigUpdated, LlmCredentialChanged).
THEOREM CommitsAreSingle == QuietStore => (Spec => CommitsOneChange)
<1>1. ASSUME TypeOK, SerialInv, AgreeInv, [Next]_vars
      PROVE  [settings' # settings =>
                \/ \E job \in saves \ saves' : settings' = ApplyTo(job, settings)
                \/ \A x \in Slots \ CredentialSlots(credential.kind) :
                       settings'[x] = settings[x]]_vars
  BY <1>1, WhoCommits, CommitByJob, CommitByCredential
<1> QED BY <1>1, AgreeInvariant, PTL DEF Spec, CommitsOneChange

\* A change of a shortcut leaves the two different, in the committed settings and in the services
\* (RuntimeManager::apply), whatever pair was loaded and whatever was changed, refused or rolled
\* back on the way: the pair that was compared is the pair that is committed.
THEOREM ShortcutsMoveApart == QuietStore => (Spec => ShortcutsDiffer)
<1>1. ASSUME TypeOK, SerialInv, AgreeInv, [Next]_vars,
             \E x \in Shortcuts : settings'[x] # settings[x]
      PROVE  settings'["hotkey"] # settings'["ocrHotkey"]
  <2>1. Shortcuts \subseteq Slots \ CredentialSlots(credential.kind)
    BY DEF Shortcuts, Slots, CredentialSlots, LlmSlots
  <2>2. PICK job \in saves : RuntimeConfigUpdated(job)
    BY <1>1, <2>1, WhoCommits, CommitByCredential
  <2>3. /\ job.stage = "applied" /\ settings' = ApplyTo(job, settings) /\ job.field \in AllFields
        /\ job.target = ApplyTo(job, settings) /\ ~ShortcutConflict(job.field, job.target)
    BY <1>1, <2>2, CommitByJob DEF RuntimeConfigUpdated, TypeOK, Save, AgreeInv, SaveAgrees
  <2>4. job.field \in Shortcuts
    BY <1>1, <2>1, <2>3 DEF ApplyTo, Writes, AllFields, Shortcuts
  <2> QED BY <2>3, <2>4 DEF ShortcutConflict, Shortcuts
<1>2. ASSUME TypeOK, SerialInv, AgreeInv, [Next]_vars, \E x \in Shortcuts : live'[x] # live[x]
      PROVE  live'["hotkey"] # live'["ocrHotkey"]
  <2>1. Shortcuts \subseteq RuntimeSlots /\ live \in Settings
    BY <1>2 DEF Shortcuts, RuntimeSlots, Slots, TypeOK
  <2>2. ~PublishCredential
    BY <1>2, <2>1 DEF PublishCredential, CopySlots, Shortcuts, RuntimeSlots, LlmSlots
  <2>3. PICK job \in saves : ApplyRuntime(job) BY <1>2, <2>2, WhoApplies
  <2>4. /\ job.field \in AllFields /\ ~ShortcutConflict(job.field, job.target)
        /\ job.target = ApplyTo(job, settings) /\ job.stage = "apply" /\ SaveAgrees(job)
        /\ live' = CopySlots(AppliedSlots(job.field), job.target, live)
    BY <1>2, <2>3 DEF ApplyRuntime, TypeOK, Save, AgreeInv, SaveAgrees
  <2>5. \A x \in Shortcuts : live'[x] = IF x \in AppliedSlots(job.field) THEN job.target[x] ELSE live[x]
    BY <2>1, <2>4 DEF CopySlots, RuntimeSlots
  <2>6. job.field \in Shortcuts /\ AppliedSlots(job.field) = {job.field}
        /\ Writes(job.field) = {job.field}
    BY <1>2, <2>4, <2>5 DEF AppliedSlots, AllFields, Shortcuts, LlmSlots, Writes
  <2>7. \A x \in Shortcuts : live[x] = settings[x] BY <2>1, <2>4 DEF SaveAgrees
  <2>8. \A x \in Shortcuts : x \notin Writes(job.field) => job.target[x] = settings[x]
    BY <2>1, <2>4 DEF ApplyTo, RuntimeSlots
  <2>9. \A x \in Shortcuts : live'[x] = job.target[x] BY <2>5, <2>6, <2>7, <2>8
  <2> QED BY <2>4, <2>6, <2>9 DEF ShortcutConflict, Shortcuts
<1> QED BY <1>1, <1>2, AgreeInvariant, PTL DEF Spec, ShortcutsDiffer

----------------------------------------
(* What the window shows while changes wait, also beside other saves.        *)

Entries(q) == {q[i] : i \in DOMAIN q}

\* No two changes of a queue are of one field, and none counts twice.
Distinct(q) == \A i, j \in DOMAIN q : q[i].field = q[j].field \/ q[i].id = q[j].id => i = j

\* No other operation of this instance restores or replaces what the field writes.
Alone(field) ==
    /\ \A g \in Fields \ {field} : Writes(field) \cap Restores(g) = {}
    /\ "connection" \in CredentialKinds => Writes(field) \cap LlmSlots = {}

Shows(q, d) == \A change \in Entries(q) : Alone(change.field) => Matches(change, d)

\* The queue waits for a save or a credential operation, holds one change of a field, and
\* a change is either waiting or being saved.
QueueInv ==
    /\ Distinct(queue)
    /\ \A change \in Entries(queue) : change.field \in Fields /\ change.id <= requests
    /\ \A job \in saves : job.field \in Fields /\ job.id <= requests
    /\ \A change \in Entries(queue), job \in saves : change.id # job.id
    /\ saving = FALSE /\ credentialBusy = FALSE => queue = <<>>
    /\ credential.stage # "none" => credential.kind \in CredentialKinds

WindowInv == QueueInv /\ Shows(queue, desired)

\* The slots one field alone writes, and the reference no field writes.
OwnSlots == Slots \ (LlmSlots \cup {"provider"})

\* Such a slot is shown as committed, unless a change of it waits or is being saved.
Pending(s, d, q, jobs) ==
    \A x \in OwnSlots :
        \/ Queued(q, x)
        \/ \E job \in jobs : job.field = x /\ d[x] = job.value
        \/ (\A job \in jobs : job.field # x) /\ d[x] = s[x]

SettleInv == Pending(settings, desired, queue, saves)

\* The tail of a queue after its first n changes.
LEMMA TailIs ==
    ASSUME NEW q \in Seq(Change), NEW n \in 1..(Len(q) + 1)
    PROVE  LET w == SubSeq(q, n + 1, Len(q)) IN
           /\ w \in Seq(Change) /\ Len(w) = IF n < Len(q) THEN Len(q) - n ELSE 0
           /\ \A i \in 1..Len(w) : w[i] = q[n + i]
           /\ n > Len(q) => w = <<>>
<1> DEFINE w == SubSeq(q, n + 1, Len(q))
           l == Len(q)
<1>1. \A i \in 1..l : q[i] \in Change BY ElementOfSeq
<1>2. l \in Nat /\ n \in 1..(l + 1) OBVIOUS
<1>3. n > l => w = <<>> BY <1>2, SubSeqEmpty
<1> HIDE DEF l
<1>4. n + 1 \in Int /\ l \in Int /\ \A i \in (n + 1)..l : q[i] \in Change BY <1>1, <1>2
<1>5. w = SubSeq(q, n + 1, l) BY DEF l
<1> HIDE DEF w
<1>6. /\ w \in Seq(Change)
      /\ Len(w) = IF n + 1 <= l THEN l - (n + 1) + 1 ELSE 0
      /\ \A i \in 1..(l - (n + 1) + 1) : w[i] = q[(n + 1) + i - 1]
  BY <1>4, <1>5, SubSeqProperties
<1>7. Len(w) = IF n < l THEN l - n ELSE 0 BY <1>2, <1>6
<1>8. ASSUME NEW i \in 1..Len(w) PROVE w[i] = q[n + i]
  <2>1. i \in 1..(l - (n + 1) + 1) /\ (n + 1) + i - 1 = n + i BY <1>2, <1>7
  <2> QED BY <1>6, <2>1
<1> QED BY <1>3, <1>6, <1>7, <1>8 DEF w, l

\* A queue of which the first n changes are taken.
LEMMA TailEntries ==
    ASSUME NEW q \in Seq(Change), Distinct(q), NEW n \in 1..(Len(q) + 1)
    PROVE  LET w == SubSeq(q, n + 1, Len(q)) IN
           /\ w \in Seq(Change) /\ Distinct(w)
           /\ Entries(w) = {q[i] : i \in (n + 1)..Len(q)}
           /\ n > Len(q) => w = <<>>
<1> DEFINE w == SubSeq(q, n + 1, Len(q))
           l == Len(q)
<1>1. /\ w \in Seq(Change) /\ Len(w) = IF n < l THEN l - n ELSE 0
      /\ \A i \in 1..Len(w) : w[i] = q[n + i]
      /\ n > l => w = <<>>
  BY TailIs
<1>2. l \in Nat /\ DOMAIN q = 1..l OBVIOUS
<1> HIDE DEF w, l
<1>3. DOMAIN w = 1..Len(w) BY <1>1
<1>4. \A i \in DOMAIN w : i \in Nat /\ n + i \in DOMAIN q /\ n + i \in (n + 1)..l /\ w[i] = q[n + i]
  BY <1>1, <1>2, <1>3
<1>5. Distinct(w)
  <2> SUFFICES ASSUME NEW i \in DOMAIN w, NEW j \in DOMAIN w,
                      w[i].field = w[j].field \/ w[i].id = w[j].id
               PROVE  i = j
    BY DEF Distinct
  <2>1. n + i = n + j BY <1>4 DEF Distinct
  <2> QED BY <1>4, <2>1
<1>6. ASSUME NEW i \in (n + 1)..l PROVE i - n \in DOMAIN w /\ w[i - n] = q[i]
  <2>1. i - n \in 1..Len(w) /\ n + (i - n) = i BY <1>1, <1>2
  <2> QED BY <1>1, <1>3, <2>1
<1>7. Entries(w) = {q[i] : i \in (n + 1)..l} BY <1>4, <1>6 DEF Entries
<1> QED BY <1>1, <1>5, <1>7 DEF w, l

\* A queue without the change of a field, if it had one.
LEMMA WithoutFieldEntries ==
    ASSUME NEW q \in Seq(Change), Distinct(q), NEW field
    PROVE  LET w == WithoutField(q, field) IN
           /\ w \in Seq(Change) /\ Distinct(w)
           /\ Entries(w) = {change \in Entries(q) : change.field # field}
<1> DEFINE w == WithoutField(q, field)
<1>1. CASE ~Queued(q, field)
  <2>1. w = q BY <1>1 DEF WithoutField
  <2> HIDE DEF w
  <2>2. \A change \in Entries(q) : change.field # field BY <1>1 DEF Queued, Entries
  <2> QED BY <2>1, <2>2 DEF w
<1>2. CASE Queued(q, field)
  <2> DEFINE n == CHOOSE i \in DOMAIN q : q[i].field = field
             a == SubSeq(q, 1, n - 1)
             b == SubSeq(q, n + 1, Len(q))
  <2>1. n \in 1..Len(q) /\ q[n].field = field BY <1>2 DEF Queued
  <2>2. w = a \o b BY <1>2 DEF WithoutField
  <2> HIDE DEF n, w
  <2>3. Len(q) \in Nat /\ DOMAIN q = 1..Len(q) /\ \A i \in 1..Len(q) : q[i] \in Change
    BY ElementOfSeq
  <2>4. a \in Seq(Change) /\ Len(a) = n - 1 /\ \A i \in 1..(n - 1) : a[i] = q[i]
    <3>1. 1 \in Int /\ n - 1 \in Int /\ \A i \in 1..(n - 1) : q[i] \in Change BY <2>1, <2>3
    <3> HIDE DEF a
    <3>2. /\ a \in Seq(Change)
          /\ Len(a) = IF 1 <= n - 1 THEN (n - 1) - 1 + 1 ELSE 0
          /\ \A i \in 1..((n - 1) - 1 + 1) : a[i] = q[1 + i - 1]
      BY <3>1, SubSeqProperties DEF a
    <3>3. (n - 1) - 1 + 1 = n - 1 /\ \A i \in Int : 1 + i - 1 = i BY <2>1
    <3> QED BY <2>1, <3>2, <3>3
  <2>5. b \in Seq(Change) /\ Len(b) = Len(q) - n /\ \A i \in 1..(Len(q) - n) : b[i] = q[n + i]
    <3>1. n \in 1..(Len(q) + 1) /\ (IF n < Len(q) THEN Len(q) - n ELSE 0) = Len(q) - n
      <4> DEFINE l == Len(q)
      <4>1. l \in Nat /\ n \in 1..l BY <2>1
      <4> HIDE DEF l
      <4>2. n \in 1..(l + 1) /\ (IF n < l THEN l - n ELSE 0) = l - n BY <4>1
      <4> QED BY <4>2 DEF l
    <3>2. /\ b \in Seq(Change) /\ Len(b) = IF n < Len(q) THEN Len(q) - n ELSE 0
          /\ \A i \in 1..Len(b) : b[i] = q[n + i]
      BY <3>1, TailIs
    <3> HIDE DEF b
    <3> QED BY <3>1, <3>2
  <2> HIDE DEF a, b
  <2>6. /\ w \in Seq(Change) /\ Len(w) = Len(q) - 1
        /\ \A i \in 1..(Len(q) - 1) : w[i] = IF i < n THEN q[i] ELSE q[i + 1]
    <3>1. /\ a \o b \in Seq(Change) /\ Len(a \o b) = Len(a) + Len(b)
          /\ \A i \in 1..(Len(a) + Len(b)) :
                 (a \o b)[i] = IF i <= Len(a) THEN a[i] ELSE b[i - Len(a)]
      BY <2>4, <2>5, ConcatProperties
    <3>2. Len(a) + Len(b) = Len(q) - 1 BY <2>1, <2>3, <2>4, <2>5
    <3>3. ASSUME NEW i \in 1..(Len(q) - 1)
          PROVE  w[i] = IF i < n THEN q[i] ELSE q[i + 1]
      <4>1. CASE i < n
        <5>1. i \in 1..(n - 1) /\ i <= Len(a) /\ i \in 1..(Len(a) + Len(b))
          BY <2>1, <2>3, <2>4, <3>2, <4>1
        <5> QED BY <2>2, <2>4, <3>1, <4>1, <5>1
      <4>2. CASE ~(i < n)
        <5>1. /\ i - Len(a) \in 1..(Len(q) - n) /\ n + (i - Len(a)) = i + 1
              /\ ~(i <= Len(a)) /\ i \in 1..(Len(a) + Len(b))
          BY <2>1, <2>3, <2>4, <3>2, <4>2
        <5>2. w[i] = b[i - Len(a)] BY <2>2, <3>1, <5>1
        <5> QED BY <2>5, <4>2, <5>1, <5>2
      <4> QED BY <4>1, <4>2
    <3> QED BY <2>2, <3>1, <3>2, <3>3
  <2>7. DOMAIN w = 1..(Len(q) - 1) BY <2>3, <2>6
  <2>8. Distinct(w)
    <3> DEFINE at(i) == IF i < n THEN i ELSE i + 1
    <3>1. \A i \in DOMAIN w : i \in Nat /\ at(i) \in DOMAIN q /\ w[i] = q[at(i)]
      BY <2>1, <2>3, <2>6, <2>7
    <3>2. \A i, j \in Nat : at(i) = at(j) => i = j BY <2>1
    <3> HIDE DEF at
    <3> QED BY <3>1, <3>2 DEF Distinct
  <2>9. \A i \in DOMAIN w : w[i] \in {change \in Entries(q) : change.field # field}
    BY SMTT(30), <2>1, <2>3, <2>6, <2>7 DEF Distinct, Entries
  <2>10. ASSUME NEW k \in DOMAIN q, q[k].field # field PROVE \E i \in DOMAIN w : w[i] = q[k]
    <3>1. CASE k < n BY <2>1, <2>3, <2>6, <2>7, <3>1
    <3>2. CASE k > n
      <4>1. k - 1 \in DOMAIN w /\ ~(k - 1 < n) /\ (k - 1) + 1 = k BY <2>1, <2>3, <2>7, <3>2
      <4> QED BY <2>6, <2>7, <4>1
    <3> QED BY <2>1, <2>3, <2>10, <3>1, <3>2
  <2>11. Entries(w) = {change \in Entries(q) : change.field # field} BY <2>9, <2>10 DEF Entries
  <2> QED BY <2>6, <2>8, <2>11 DEF w
<1> QED BY <1>1, <1>2

\* A queue with another change at its end.
LEMMA AppendEntries ==
    ASSUME NEW q \in Seq(Change), Distinct(q), NEW change \in Change,
           \A c \in Entries(q) : c.field # change.field /\ c.id # change.id
    PROVE  LET w == Append(q, change) IN
           w \in Seq(Change) /\ Distinct(w) /\ Entries(w) = Entries(q) \cup {change}
<1> DEFINE w == Append(q, change)
<1>1. /\ w \in Seq(Change) /\ Len(w) = Len(q) + 1
      /\ \A i \in 1..Len(q) : w[i] = q[i]
      /\ w[Len(q) + 1] = change
  BY AppendProperties
<1> HIDE DEF w
<1>2. Len(q) \in Nat /\ DOMAIN q = 1..Len(q) /\ DOMAIN w = 1..(Len(q) + 1) BY <1>1
<1>3. \A i \in DOMAIN q : w[i] = q[i] /\ q[i].field # change.field /\ q[i].id # change.id
  BY <1>1, <1>2 DEF Entries
<1>4. \A i \in DOMAIN w : i \in DOMAIN q \/ i = Len(q) + 1 BY <1>2
<1>5. Distinct(w) BY <1>1, <1>3, <1>4 DEF Distinct
<1>6. Entries(w) = Entries(q) \cup {change} BY <1>1, <1>2, <1>3, <1>4 DEF Entries
<1> QED BY <1>1, <1>5, <1>6 DEF w

LEMMA QueuedEntries ==
    ASSUME NEW q, NEW field
    PROVE  Queued(q, field) <=> \E change \in Entries(q) : change.field = field
BY DEF Queued, Entries

\* What one field alone writes is not restored with another.
LEMMA OwnSlotFacts ==
    ASSUME NEW x \in OwnSlots
    PROVE  /\ x \in Slots /\ x \notin LlmSlots /\ x # "secretRef"
           /\ \A field \in AllFields \ {x} : x \notin Writes(field) /\ x \notin Restores(field)
           /\ x \in AllFields => Writes(x) = {x} /\ Restores(x) = {x} /\ Alone(x)
<1>1. x \in {"theme", "hotkey", "ocrHotkey", "korean", "deeplRef"} BY DEF OwnSlots, Slots, LlmSlots
<1>2. x \in Slots /\ x \notin LlmSlots /\ x # "secretRef" BY <1>1 DEF Slots, LlmSlots
<1>3. \A field \in AllFields \ {x} : x \notin Writes(field) /\ x \notin Restores(field)
  BY <1>1 DEF AllFields, Writes, Restores, LlmSlots
<1>4. x \in AllFields => Writes(x) = {x} /\ Restores(x) = {x}
  BY <1>1 DEF AllFields, Writes, Restores
<1>5. x \in AllFields => Alone(x) BY <1>2, <1>3, <1>4, FieldsAssumption DEF Alone
<1> QED BY <1>2, <1>3, <1>4, <1>5

LEMMA WritesRestored ==
    ASSUME NEW field \in AllFields
    PROVE  Writes(field) \subseteq Restores(field) /\ Writes(field) \subseteq Slots
           /\ "secretRef" \notin Writes(field) /\ "deeplRef" \notin Writes(field)
BY DEF AllFields, Writes, Restores, LlmSlots, Slots

\* What starting the changes of a queue leaves of it and shows of it.
LEMMA StartWindow ==
    ASSUME NEW s \in Settings, NEW d \in Settings, NEW q \in Seq(Change), NEW jobs,
           Distinct(q), \A change \in Entries(q) : change.field \in Fields,
           Shows(q, d), StartChanges(s, d, q, jobs)
    PROVE  /\ settings' = s
           /\ Distinct(queue') /\ Entries(queue') \subseteq Entries(q) /\ Shows(queue', desired')
           /\ \/ saves' = jobs /\ queue' = <<>>
              \/ \E change \in Entries(q) :
                     /\ saves' = jobs \cup {NewSave(change, s)}
                     /\ \A other \in Entries(queue') : other.id # change.id
           /\ jobs = {} /\ Pending(s, d, q, {}) => Pending(s, desired', queue', saves')
<1> DEFINE l == Len(q)
<1>1. PICK n \in 1..(l + 1) :
          /\ IsFirstToSave(n, q, s)
          /\ settings' = s
          /\ desired' = CopySlots(DroppedSlots(q, n, s), s, d)
          /\ queue' = SubSeq(q, n + 1, l)
          /\ saves' = IF n <= l THEN jobs \cup {NewSave(q[n], s)} ELSE jobs
  BY DEF StartChanges
<1>2. l \in Nat /\ DOMAIN q = 1..l /\ \A i \in 1..l : q[i] \in Change /\ q[i] \in Entries(q)
  BY ElementOfSeq DEF Entries
<1>3. /\ Distinct(queue') /\ Entries(queue') = {q[i] : i \in (n + 1)..l}
      /\ n > l => queue' = <<>>
  BY <1>1, TailEntries
<1>4. \A i \in (n + 1)..l : i \in 1..l /\ i > n BY <1>1, <1>2
<1>5. \A i \in 1..(n - 1) : i \in 1..l /\ i < n BY <1>1, <1>2
<1>6. \A x : x \in DroppedSlots(q, n, s) <=>
          \E k \in 1..(n - 1) : /\ ~Valid(q[k], s) /\ x \in Restores(q[k].field)
                                /\ \A j \in (k + 1)..l : q[j].field # q[k].field
  BY DEF DroppedSlots
<1> DEFINE D == DroppedSlots(q, n, s)
<1>7. \A x \in Slots : desired'[x] = IF x \in D THEN s[x] ELSE d[x] BY <1>1 DEF CopySlots
<1>8. IsFirstToSave(n, q, s) /\ saves' = IF n <= l THEN jobs \cup {NewSave(q[n], s)} ELSE jobs
  BY <1>1
<1>s. settings' = s
  BY <1>1
<1> HIDE DEF l, D
<1>9. ASSUME NEW i \in 1..l, Alone(q[i].field), NEW x \in Writes(q[i].field), x \in D
      PROVE  i < n
  <2>1. PICK k \in 1..(n - 1) : x \in Restores(q[k].field) BY <1>6, <1>9 DEF D, l
  <2>2. k \in 1..l /\ k < n /\ q[k].field \in Fields /\ q[i].field \in Fields BY <1>2, <1>5
  <2>3. q[k].field = q[i].field BY <1>9, <2>1, <2>2 DEF Alone
  <2> QED BY <1>2, <2>2, <2>3 DEF Distinct
<1>10. Shows(queue', desired')
  <2> SUFFICES ASSUME NEW i \in (n + 1)..l, Alone(q[i].field), NEW x \in Writes(q[i].field)
               PROVE  desired'[x] = q[i].value
    BY <1>3 DEF Shows, Matches
  <2>1. i \in 1..l /\ ~(i < n) /\ q[i].field \in AllFields
    BY <1>1, <1>2, <1>4, FieldsAssumption DEF Change
  <2>2. x \in Slots /\ x \notin D BY <1>9, <2>1, WritesRestored
  <2>3. d[x] = q[i].value BY <1>2, <2>1 DEF Shows, Matches
  <2> QED BY <1>7, <2>2, <2>3
<1>11. \/ saves' = jobs /\ queue' = <<>>
       \/ \E change \in Entries(q) :
              /\ saves' = jobs \cup {NewSave(change, s)}
              /\ \A other \in Entries(queue') : other.id # change.id
  <2>1. CASE n <= l
    <3>1. n \in 1..l /\ q[n] \in Entries(q) /\ saves' = jobs \cup {NewSave(q[n], s)}
      BY <1>1, <1>2, <1>8, <2>1
    <3>2. \A i \in (n + 1)..l : q[i].id # q[n].id BY <1>2, <1>4, <3>1 DEF Distinct
    <3> QED BY <1>3, <3>1, <3>2
  <2>2. CASE ~(n <= l)
    <3>1. queue' = <<>> /\ saves' = jobs BY <1>1, <1>2, <1>3, <1>8, <2>2
    <3> QED BY <3>1
  <2> QED BY <2>1, <2>2
<1>12. ASSUME jobs = {}, Pending(s, d, q, {}) PROVE Pending(s, desired', queue', saves')
  <2> SUFFICES ASSUME NEW x \in OwnSlots
               PROVE  \/ Queued(queue', x)
                      \/ \E job \in saves' : job.field = x /\ desired'[x] = job.value
                      \/ (\A job \in saves' : job.field # x) /\ desired'[x] = s[x]
    BY DEF Pending
  <2>1. /\ x \in Slots /\ desired'[x] \in {s[x], d[x]}
        /\ x \in AllFields => Writes(x) = {x} /\ Restores(x) = {x} /\ Alone(x)
    BY <1>7, OwnSlotFacts
  <2>2. \A job \in saves' : n <= l /\ job.field = q[n].field /\ job.value = q[n].value
    BY <1>8, <1>12 DEF NewSave
  <2>3. CASE \A i \in 1..l : q[i].field # x
    <3>1. d[x] = s[x] BY <1>2, <1>12, <2>3 DEF Pending, Queued
    <3>2. n <= l => n \in 1..l BY <1>1, <1>2
    <3> QED BY <2>1, <2>2, <2>3, <3>1, <3>2
  <2>4. ASSUME NEW k \in 1..l, q[k].field = x
        PROVE  \/ Queued(queue', x)
               \/ \E job \in saves' : job.field = x /\ desired'[x] = job.value
               \/ (\A job \in saves' : job.field # x) /\ desired'[x] = s[x]
    <3>1. x \in AllFields BY <1>2, <2>4 DEF Change
    <3>2. d[x] = q[k].value BY <1>2, <2>1, <2>4, <3>1 DEF Shows, Matches
    <3>3. CASE k > n
      <4>1. k \in (n + 1)..l BY <1>1, <1>2, <3>3
      <4> QED BY <1>3, <2>4, <4>1, QueuedEntries
    <3>4. CASE k = n
      <4>1. x \notin D BY <1>2, <1>9, <2>1, <2>4, <3>1, <3>4
      <4>2. desired'[x] = q[n].value BY <1>7, <2>1, <3>2, <3>4, <4>1
      <4>3. NewSave(q[n], s) \in saves' BY <1>1, <1>2, <1>8, <3>4
      <4> QED BY <2>4, <3>4, <4>2, <4>3 DEF NewSave
    <3>5. CASE k < n
      <4>1. k \in 1..(n - 1) /\ \A j \in (k + 1)..l : j \in 1..l /\ j # k BY <1>1, <1>2, <3>5
      <4>2. \A j \in 1..l : j # k => q[j].field # x BY <1>2, <2>4 DEF Distinct
      <4>3. n <= l => n \in 1..l /\ n # k BY <1>1, <1>2, <3>5
      <4>4. \A job \in saves' : job.field # x BY <2>2, <4>2, <4>3
      <4>5. ~MustSave(q[k], s) BY <1>8, <4>1 DEF IsFirstToSave
      <4>6. CASE ~Valid(q[k], s)
        <5>1. x \in D BY <1>6, <2>1, <2>4, <3>1, <4>1, <4>2, <4>6 DEF D, l
        <5> QED BY <1>7, <2>1, <4>4, <5>1
      <4>7. CASE Matches(q[k], s)
        <5>1. s[x] = q[k].value BY <2>1, <2>4, <3>1, <4>7 DEF Matches
        <5> QED BY <2>1, <3>2, <4>4, <5>1
      <4> QED BY <4>5, <4>6, <4>7 DEF MustSave
    <3> QED BY <1>1, <1>2, <3>3, <3>4, <3>5
  <2> QED BY <2>3, <2>4
<1> QED BY <1>3, <1>10, <1>11, <1>12, <1>s, <1>2, <1>4

\* An operation ends: s and d are the settings its handler installs, jobs the saves it leaves.
LEMMA EndWindow ==
    ASSUME TypeOK, QueueInv, NEW s \in Settings, NEW d \in Settings, NEW jobs,
           jobs \subseteq saves, Shows(queue, d), StartNextSettingsChange(s, d, jobs),
           credential'.stage # "none" => credential'.kind \in CredentialKinds,
           requests' = requests,
           saving' = FALSE => credentialBusy' \/ saves' = jobs
    PROVE  /\ WindowInv' /\ settings' = s
           /\ jobs = {} /\ Pending(s, d, queue, {}) => SettleInv'
<1>1. CASE credentialBusy'
  <2>1. settings' = s /\ desired' = d /\ queue' = queue /\ saves' = jobs
    BY <1>1 DEF StartNextSettingsChange
  <2> QED BY <1>1, <2>1 DEF WindowInv, QueueInv, SettleInv
<1>2. CASE ~credentialBusy'
  <2>1. StartChanges(s, d, queue, jobs) BY <1>2 DEF StartNextSettingsChange
  <2>2. queue \in Seq(Change) /\ Distinct(queue)
        /\ \A change \in Entries(queue) : change.field \in Fields
    BY DEF TypeOK, QueueInv
  <2>3. /\ settings' = s
        /\ Distinct(queue') /\ Entries(queue') \subseteq Entries(queue)
        /\ Shows(queue', desired')
        /\ \/ saves' = jobs /\ queue' = <<>>
           \/ \E change \in Entries(queue) :
                  /\ saves' = jobs \cup {NewSave(change, s)}
                  /\ \A other \in Entries(queue') : other.id # change.id
        /\ jobs = {} /\ Pending(s, d, queue, {}) => Pending(s, desired', queue', saves')
    BY <2>1, <2>2, StartWindow
  <2>4. QueueInv'
    <3>1. CASE saves' = jobs /\ queue' = <<>> BY <1>2, <2>3, <3>1 DEF QueueInv
    <3>2. ASSUME NEW change \in Entries(queue), saves' = jobs \cup {NewSave(change, s)},
                 \A other \in Entries(queue') : other.id # change.id
          PROVE  QueueInv'
      <4>1. NewSave(change, s).field = change.field /\ NewSave(change, s).id = change.id
        BY DEF NewSave
      <4>2. NewSave(change, s) \notin jobs BY <4>1 DEF QueueInv
      <4>3. saving' # FALSE BY <1>2, <3>2, <4>2
      <4> QED BY <2>3, <3>2, <4>1, <4>3 DEF QueueInv
    <3> QED BY <2>3, <3>1, <3>2
  <2> QED BY <2>3, <2>4 DEF WindowInv, SettleInv
<1> QED BY <1>1, <1>2

\* Taking a refused value back leaves the waiting changes shown.
LEMMA RestoreShows ==
    ASSUME TypeOK, WindowInv, NEW field,
           field \in Fields \/ (field = "llm" /\ "connection" \in CredentialKinds)
    PROVE  Shows(queue, RestoreDesired(field, queue, settings, desired))
<1>1. CASE Queued(queue, field) BY <1>1 DEF RestoreDesired, WindowInv
<1>2. CASE ~Queued(queue, field)
  <2> SUFFICES ASSUME NEW change \in Entries(queue), Alone(change.field),
                      NEW x \in Writes(change.field)
               PROVE  CopySlots(Restores(field), settings, desired)[x] = change.value
    BY <1>2 DEF RestoreDesired, Shows, Matches
  <2>1. change.field \in Fields /\ change.field # field /\ change.field \in AllFields
    BY <1>2, QueuedEntries, FieldsAssumption DEF WindowInv, QueueInv
  <2>2. x \in Slots BY <2>1, WritesRestored
  <2>3. x \notin Restores(field)
    <3>1. CASE field \in Fields BY <2>1, <3>1 DEF Alone
    <3>2. CASE field = "llm" /\ "connection" \in CredentialKinds
      <4>1. Restores(field) = LlmSlots BY <3>2 DEF Restores
      <4> QED BY <3>2, <4>1 DEF Alone
    <3> QED BY <3>1, <3>2
  <2>4. desired[x] = change.value BY DEF WindowInv, Shows, Matches
  <2> QED BY <2>2, <2>3, <2>4 DEF CopySlots
<1> QED BY <1>1, <1>2

\* Of the slots one field writes, a failure takes back the one of its field.
LEMMA RestoreOwn ==
    ASSUME NEW field \in AllFields, NEW x \in OwnSlots
    PROVE  RestoreDesired(field, queue, settings, desired)[x] =
               IF x = field /\ ~Queued(queue, field) THEN settings[x] ELSE desired[x]
<1>1. x \in Slots /\ (x \in Restores(field) <=> x = field) BY OwnSlotFacts
<1> QED BY <1>1 DEF RestoreDesired, CopySlots

LEMMA RequestFacts ==
    ASSUME TypeOK, NEW field \in Fields, NEW value \in ValuesOf(field),
           RequestSettingsChange(field, value)
    PROVE  LET change == [id |-> requests + 1, field |-> field, value |-> value] IN
           /\ change \in Change /\ field \in AllFields /\ requests \in Nat
           /\ requests' = requests + 1
           /\ ApplyTo(change, desired) \in Settings
<1>1. value \in Values /\ field \in AllFields
  BY FieldsAssumption, ValuesAssumption DEF ValuesOf, On, Off
<1>2. requests \in Nat /\ requests + 1 \in 1..MaxRequests /\ requests' = requests + 1
  BY MaxRequestsAssumption DEF RequestSettingsChange, TypeOK
<1> QED BY <1>1, <1>2, ApplyToType DEF Change, TypeOK

\* A request waits behind what is in flight, in the place of an earlier one of its field, or
\* starts when nothing is.
LEMMA WindowRequest ==
    ASSUME TypeOK, WindowInv, NEW field \in Fields, NEW value \in ValuesOf(field),
           RequestSettingsChange(field, value)
    PROVE  WindowInv' /\ (SerialInv /\ SettleInv => SettleInv')
<1> DEFINE change == [id |-> requests + 1, field |-> field, value |-> value]
           d == ApplyTo(change, desired)
           w == WithoutField(queue, field)
<1>1. /\ change \in Change /\ field \in AllFields /\ requests \in Nat
      /\ requests' = requests + 1 /\ d \in Settings
      /\ queue \in Seq(Change) /\ Distinct(queue) /\ settings \in Settings
      /\ UNCHANGED <<credentialBusy, credential>>
  BY RequestFacts DEF TypeOK, WindowInv, QueueInv, RequestSettingsChange
<1>2. change.id = requests + 1 /\ change.field = field /\ change.value = value OBVIOUS
<1>3. \A e \in Entries(queue) : e \in Change /\ e.id \in Nat /\ e.id <= requests
  <2>1. \A e \in Entries(queue) : e \in Change BY <1>1, ElementOfSeq DEF Entries
  <2>2. \A e \in Change : e.id \in Nat BY DEF Change
  <2> QED BY <2>1, <2>2 DEF WindowInv, QueueInv
<1>4. \A job \in saves : job.id \in Nat /\ job.id <= requests
  BY DEF TypeOK, Save, WindowInv, QueueInv
<1>5. \A x \in Slots : d[x] = IF x \in Writes(field) THEN value ELSE desired[x] BY <1>2 DEF ApplyTo
<1> HIDE DEF change, d
<1>6. CASE saving \/ credentialBusy
  <2>1. /\ desired' = d /\ queue' = Append(w, change) /\ settings' = settings
        /\ saving' = saving /\ saves' = saves
    BY <1>6 DEF RequestSettingsChange, change, d
  <2>2. /\ w \in Seq(Change) /\ Distinct(w)
        /\ Entries(w) = {e \in Entries(queue) : e.field # field}
    BY <1>1, WithoutFieldEntries
  <2> HIDE DEF w
  <2>3. \A e \in Entries(w) : e.field # change.field /\ e.id # change.id BY <1>1, <1>2, <1>3, <2>2
  <2>4. Distinct(queue') /\ Entries(queue') = Entries(w) \cup {change}
    BY <1>1, <2>1, <2>2, <2>3, AppendEntries
  <2>5. QueueInv'
    <3>1. \A e \in Entries(queue') : e.field \in Fields /\ e.id <= requests'
      BY <1>1, <1>2, <1>3, <2>2, <2>4 DEF WindowInv, QueueInv
    <3>2. \A job \in saves' : job.field \in Fields /\ job.id <= requests'
      BY <1>1, <1>4, <2>1 DEF WindowInv, QueueInv
    <3>3. \A e \in Entries(queue'), job \in saves' : e.id # job.id
      BY <1>1, <1>2, <1>4, <2>1, <2>2, <2>4 DEF WindowInv, QueueInv
    <3>4. saving' = FALSE /\ credentialBusy' = FALSE => queue' = <<>> BY <1>1, <1>6, <2>1
    <3> QED BY <1>1, <2>4, <3>1, <3>2, <3>3, <3>4 DEF WindowInv, QueueInv
  <2>6. Shows(queue', desired')
    <3> SUFFICES ASSUME NEW e \in Entries(queue'), Alone(e.field), NEW x \in Writes(e.field)
                 PROVE  d[x] = e.value
      BY <2>1 DEF Shows, Matches
    <3>1. CASE e = change BY <1>1, <1>2, <1>5, <3>1, WritesRestored
    <3>2. CASE e \in Entries(w)
      <4>1. e \in Entries(queue) /\ e.field # field /\ e.field \in AllFields
        BY <2>2, <3>2, FieldsAssumption DEF WindowInv, QueueInv
      <4>2. x \in Slots /\ x \notin Writes(field) BY <1>1, <4>1, WritesRestored DEF Alone
      <4>3. desired[x] = e.value BY <4>1 DEF WindowInv, Shows, Matches
      <4> QED BY <1>5, <4>2, <4>3
    <3> QED BY <2>4, <3>1, <3>2
  <2>7. SettleInv => SettleInv'
    <3> SUFFICES ASSUME SettleInv, NEW x \in OwnSlots
                 PROVE  \/ Queued(queue', x)
                        \/ \E job \in saves' : job.field = x /\ desired'[x] = job.value
                        \/ /\ \A job \in saves' : job.field # x
                           /\ desired'[x] = settings'[x]
      BY DEF SettleInv, Pending
    <3>1. CASE x = field BY <1>2, <2>4, <3>1, QueuedEntries
    <3>2. CASE x # field
      <4>1. desired'[x] = desired[x] BY <1>1, <1>5, <2>1, <3>2, OwnSlotFacts
      <4>2. Queued(queue, x) => Queued(queue', x) BY <2>2, <2>4, <3>2, QueuedEntries
      <4> QED BY <2>1, <4>1, <4>2 DEF SettleInv, Pending
    <3> QED BY <3>1, <3>2
  <2> QED BY <2>5, <2>6, <2>7 DEF WindowInv
<1>7. CASE ~(saving \/ credentialBusy)
  <2>1. StartChanges(settings, d, <<change>> \o queue, saves) /\ saving' = (saves' # saves)
    BY <1>7 DEF RequestSettingsChange, change, d
  <2>2. queue = <<>> BY <1>7 DEF TypeOK, WindowInv, QueueInv
  <2> DEFINE q == <<change>>
  <2>3. <<change>> \o queue = q BY <1>1, <2>2, ConcatEmptySeq
  <2>4. q \in Seq(Change) /\ Distinct(q) /\ Entries(q) = {change}
    <3>1. q \in Seq(Change) /\ DOMAIN q = {1} /\ q[1] = change BY <1>1
    <3> HIDE DEF q
    <3> QED BY <3>1 DEF Distinct, Entries
  <2> HIDE DEF q
  <2>5. Shows(q, d) BY <1>1, <1>2, <1>5, <2>4, WritesRestored DEF Shows, Matches
  <2>6. /\ settings' = settings
        /\ Distinct(queue') /\ Entries(queue') \subseteq Entries(q) /\ Shows(queue', desired')
        /\ \/ saves' = saves /\ queue' = <<>>
           \/ \E c \in Entries(q) :
                  /\ saves' = saves \cup {NewSave(c, settings)}
                  /\ \A other \in Entries(queue') : other.id # c.id
        /\ saves = {} /\ Pending(settings, d, q, {}) =>
               Pending(settings, desired', queue', saves')
    BY ZenonT(60), <1>1, <1>2, <2>1, <2>3, <2>4, <2>5, StartWindow
  <2>7. Entries(<<>>) = {} BY DEF Entries
  <2>8. QueueInv'
    <3>1. CASE saves' = saves /\ queue' = <<>>
      BY <1>1, <1>4, <2>6, <2>7, <3>1 DEF WindowInv, QueueInv
    <3>2. CASE /\ saves' = saves \cup {NewSave(change, settings)}
               /\ \A other \in Entries(queue') : other.id # change.id
      <4>1. NewSave(change, settings).field = field
            /\ NewSave(change, settings).id = requests + 1
        BY <1>2 DEF NewSave
      <4>2. NewSave(change, settings) \notin saves BY <1>1, <1>4, <4>1
      <4>3. saving' = TRUE /\ Entries(queue') = {} BY <2>1, <2>4, <2>6, <3>2, <4>2
      <4> QED BY <1>1, <1>4, <2>6, <3>2, <4>1, <4>3 DEF WindowInv, QueueInv
    <3> QED BY <2>4, <2>6, <3>1, <3>2
  <2>9. SerialInv /\ SettleInv => SettleInv'
    <3> SUFFICES ASSUME SerialInv, SettleInv PROVE SettleInv' OBVIOUS
    <3>1. saves = {} BY <1>7 DEF SerialInv
    <3>2. \A x \in OwnSlots : desired[x] = settings[x] BY <2>2, <3>1 DEF SettleInv, Pending, Queued
    <3>3. Pending(settings, d, q, {})
      <4> SUFFICES ASSUME NEW x \in OwnSlots
                   PROVE  Queued(q, x) \/ d[x] = settings[x]
        BY DEF Pending
      <4>1. CASE x = field BY <1>2, <2>4, <4>1, QueuedEntries
      <4>2. CASE x # field BY <1>1, <1>5, <3>2, <4>2, OwnSlotFacts
      <4> QED BY <4>1, <4>2
    <3> QED BY <2>6, <3>1, <3>3 DEF SettleInv
  <2> QED BY <2>6, <2>8, <2>9 DEF WindowInv
<1> QED BY <1>6, <1>7

\* A worker that moves on keeps the change it saves.
LEMMA WindowStage ==
    ASSUME WindowInv, NEW job \in saves, NEW next, saves' = (saves \ {job}) \cup {next},
           next.id = job.id, next.field = job.field, next.value = job.value,
           UNCHANGED <<reducer, credential, requests>>
    PROVE  WindowInv' /\ (SettleInv => SettleInv')
<1>1. /\ queue' = queue /\ desired' = desired /\ settings' = settings /\ saving' = saving
      /\ credentialBusy' = credentialBusy /\ credential' = credential /\ requests' = requests
  BY DEF reducer
<1>2. WindowInv' BY <1>1 DEF WindowInv, QueueInv
<1>3. SettleInv => SettleInv' BY <1>1 DEF SettleInv, Pending
<1> QED BY <1>2, <1>3

LEMMA WindowSaveWorker ==
    ASSUME TypeOK, WindowInv, NEW job \in saves, SaveWorker(job)
    PROVE  WindowInv' /\ (SerialInv /\ AgreeInv /\ SettleInv => SettleInv')
<1>1. /\ job \in Save /\ job.target \in Settings /\ job.field \in AllFields
      /\ job.field \in Fields /\ settings \in Settings /\ desired \in Settings
      /\ credential.stage # "none" => credential.kind \in CredentialKinds
  BY DEF TypeOK, Save, WindowInv, QueueInv
<1>2. \A stage : LET next == [job EXCEPT !.stage = stage] IN
          next.id = job.id /\ next.field = job.field /\ next.value = job.value
  BY <1>1 DEF Save
<1>3. CASE SaveFile(job) BY <1>2, <1>3, WindowStage DEF SaveFile, Step
<1>4. CASE SaveFileFails(job) BY <1>2, <1>4, WindowStage DEF SaveFileFails, Step
<1>5. CASE RuntimeConfigChanged(job)
  <2> DEFINE next == [job EXCEPT !.stage = "apply", !.previous = settings]
  <2>1. next.id = job.id /\ next.field = job.field /\ next.value = job.value BY <1>1 DEF Save
  <2>2. saves' = (saves \ {job}) \cup {next} /\ UNCHANGED <<reducer, credential, requests>>
    BY <1>5 DEF RuntimeConfigChanged
  <2> HIDE DEF next
  <2> QED BY <2>1, <2>2, WindowStage
<1>6. CASE ApplyRuntime(job) BY <1>2, <1>6, WindowStage DEF ApplyRuntime, Step
<1>7. CASE ApplyRuntimeFails(job) BY ZenonT(60), <1>2, <1>7, WindowStage DEF ApplyRuntimeFails, Step
<1>8. CASE RollBack(job) BY <1>2, <1>8, WindowStage DEF RollBack, Step
<1>9. SerialInv => saves \ {job} = {} /\ saves = {job} BY DEF SerialInv, SerialSaves
<1>10. CASE RuntimeConfigUpdated(job)
  <2>1. /\ StartNextSettingsChange(job.target, desired, saves \ {job})
        /\ UNCHANGED <<credentialBusy, credential, requests>>
        /\ saving' = (saves' # saves \ {job})
    BY <1>10 DEF RuntimeConfigUpdated
  <2>2. /\ WindowInv'
        /\ saves \ {job} = {} /\ Pending(job.target, desired, queue, {}) => SettleInv'
    BY <1>1, <2>1, EndWindow DEF WindowInv
  <2>3. ASSUME SerialInv, AgreeInv, SettleInv PROVE Pending(job.target, desired, queue, {})
    <3> SUFFICES ASSUME NEW x \in OwnSlots
                 PROVE  Queued(queue, x) \/ desired[x] = job.target[x]
      BY DEF Pending
    <3>1. job.target = ApplyTo(job, settings) BY <2>3 DEF AgreeInv, SaveAgrees
    <3>2. x \in Slots BY OwnSlotFacts
    <3>3. job.target[x] = IF x \in Writes(job.field) THEN job.value ELSE settings[x]
      BY <3>1, <3>2 DEF ApplyTo
    <3>4. x \in Writes(job.field) <=> x = job.field BY <1>1, OwnSlotFacts
    <3> QED BY <1>9, <2>3, <3>3, <3>4 DEF SettleInv, Pending
  <2> QED BY <1>9, <2>2, <2>3
<1>11. CASE SettingsChangeFailed(job)
  <2> DEFINE d == RestoreDesired(job.field, queue, settings, desired)
  <2>1. /\ StartNextSettingsChange(settings, d, saves \ {job})
        /\ UNCHANGED <<credentialBusy, credential, requests>>
        /\ saving' = (saves' # saves \ {job})
    BY <1>11 DEF SettingsChangeFailed
  <2>2. d \in Settings /\ Shows(queue, d) BY <1>1, RestoreType, RestoreShows
  <2>3. \A x \in OwnSlots : d[x] = IF x = job.field /\ ~Queued(queue, x) THEN settings[x]
                                   ELSE desired[x]
    BY <1>1, RestoreOwn
  <2> HIDE DEF d
  <2>4. /\ WindowInv'
        /\ saves \ {job} = {} /\ Pending(settings, d, queue, {}) => SettleInv'
    BY <1>1, <2>1, <2>2, EndWindow DEF WindowInv
  <2>5. ASSUME SerialInv, SettleInv PROVE Pending(settings, d, queue, {})
    <3> SUFFICES ASSUME NEW x \in OwnSlots PROVE Queued(queue, x) \/ d[x] = settings[x]
      BY DEF Pending
    <3> QED BY <1>9, <2>3, <2>5 DEF SettleInv, Pending
  <2> QED BY <1>9, <2>4, <2>5
<1> QED BY <1>3, <1>4, <1>5, <1>6, <1>7, <1>8, <1>10, <1>11 DEF SaveWorker

\* A connection shown ahead of its commit is of a slot no waiting change of its own writes.
LEMMA WindowCredential ==
    ASSUME TypeOK, WindowInv, NEW kind \in CredentialKinds, NEW value \in ValuesOf(kind),
           RequestCredential(kind, value)
    PROVE  WindowInv' /\ (SettleInv => SettleInv')
<1>1. /\ credentialBusy' = TRUE /\ credential'.kind = kind
      /\ desired' = IF kind = "connection" THEN [desired EXCEPT !["connection"] = value]
                    ELSE desired
      /\ UNCHANGED <<settings, queue, saving, saves, requests>>
  BY DEF RequestCredential
<1>2. QueueInv' BY <1>1 DEF WindowInv, QueueInv
<1>3. \A x \in Slots : x # "connection" \/ kind # "connection" => desired'[x] = desired[x]
  BY <1>1 DEF TypeOK, Settings
<1>4. Shows(queue', desired')
  <2> SUFFICES ASSUME NEW change \in Entries(queue), Alone(change.field),
                      NEW x \in Writes(change.field)
               PROVE  desired'[x] = change.value
    BY <1>1 DEF Shows, Matches
  <2>1. x \in Slots /\ (x # "connection" \/ kind # "connection")
    BY FieldsAssumption, WritesRestored DEF WindowInv, QueueInv, Alone, LlmSlots
  <2> QED BY <1>3, <2>1 DEF WindowInv, Shows, Matches
<1>5. SettleInv => SettleInv'
  <2>1. \A x \in OwnSlots : desired'[x] = desired[x] BY <1>3, OwnSlotFacts DEF LlmSlots
  <2> QED BY <1>1, <2>1 DEF SettleInv, Pending
<1> QED BY <1>2, <1>4, <1>5 DEF WindowInv

\* The events that end a credential operation.
LEMMA WindowCredentialEnd ==
    ASSUME TypeOK, WindowInv,
           CredentialCommitted \/ CredentialAccessEnded \/ CredentialFailed
    PROVE  WindowInv' /\ (SerialInv /\ AgreeInv /\ SettleInv => SettleInv')
<1>1. /\ credential \in Credential /\ credential.target \in Settings /\ settings \in Settings
      /\ desired \in Settings /\ credential.stage # "none" /\ credential.kind \in CredentialKinds
      /\ saving \in BOOLEAN
  BY DEF TypeOK, Credential, WindowInv, QueueInv, CredentialCommitted, CredentialAccessEnded,
         CredentialFailed
<1>2. credential'.stage = "none" /\ requests' = requests /\ saving' = (saving \/ saves' # saves)
  BY <1>1 DEF CredentialCommitted, CredentialAccessEnded, CredentialFailed, Credential
<1>3. SerialInv => saves = {} /\ credential.kind # "read"
  BY <1>1 DEF SerialInv, CredentialCommitted, CredentialAccessEnded, CredentialFailed
<1>4. SerialInv /\ SettleInv =>
          \A x \in OwnSlots : Queued(queue, x) \/ desired[x] = settings[x]
  BY <1>3 DEF SettleInv, Pending
<1>5. ASSUME NEW s \in Settings, NEW d \in Settings, Shows(queue, d),
             StartNextSettingsChange(s, d, saves),
             SerialInv /\ SettleInv => \A x \in OwnSlots : Queued(queue, x) \/ d[x] = s[x]
      PROVE  WindowInv' /\ (SerialInv /\ SettleInv => SettleInv')
  <2>1. WindowInv' /\ (saves = {} /\ Pending(s, d, queue, {}) => SettleInv')
    BY <1>2, <1>5, EndWindow DEF WindowInv
  <2>2. SerialInv /\ SettleInv => Pending(s, d, queue, {}) BY <1>5 DEF Pending
  <2> QED BY <1>3, <2>1, <2>2
<1>6. CASE CredentialCommitted
  <2> DEFINE xs == IF credential.kind = "deepl" THEN {"deeplRef"} ELSE LlmSlots
             ys == IF credential.kind = "connection" /\ ~Queued(queue, "llm") THEN LlmSlots
                   ELSE IF credential.kind = "deepl" THEN {"deeplRef"} ELSE {"secretRef"}
             s  == CopySlots(xs, credential.target, settings)
             d  == CopySlots(ys, credential.target, desired)
  <2>1. StartNextSettingsChange(s, d, saves) BY <1>6 DEF CredentialCommitted, DesiredAfterCredential
  <2>2. s \in Settings /\ d \in Settings BY <1>1, CopySlotsType
  <2>3. \A x \in Slots : /\ s[x] = IF x \in xs THEN credential.target[x] ELSE settings[x]
                         /\ d[x] = IF x \in ys THEN credential.target[x] ELSE desired[x]
    BY DEF CopySlots
  <2>4. \A x \in OwnSlots : x \in xs <=> x \in ys BY OwnSlotFacts
  <2>5. \A field \in AllFields : Alone(field) => Writes(field) \cap ys = {}
    <3> SUFFICES ASSUME NEW field \in AllFields, Alone(field), NEW x \in Writes(field), x \in ys
                 PROVE  FALSE
      OBVIOUS
    <3>1. x # "deeplRef" /\ x # "secretRef" BY WritesRestored
    <3> QED BY <1>1, <3>1 DEF Alone
  <2> HIDE DEF s, d, xs, ys
  <2>6. Shows(queue, d)
    <3> SUFFICES ASSUME NEW change \in Entries(queue), Alone(change.field),
                        NEW x \in Writes(change.field)
                 PROVE  d[x] = change.value
      BY DEF Shows, Matches
    <3>1. change.field \in AllFields BY FieldsAssumption DEF WindowInv, QueueInv
    <3>2. x \in Slots /\ x \notin ys BY <2>5, <3>1, WritesRestored
    <3> QED BY <2>3, <3>2 DEF WindowInv, Shows, Matches
  <2>7. SerialInv /\ SettleInv => \A x \in OwnSlots : Queued(queue, x) \/ d[x] = s[x]
    BY <1>4, <2>3, <2>4, OwnSlotFacts
  <2> QED BY <1>5, <2>1, <2>2, <2>6, <2>7
<1>7. CASE CredentialAccessEnded BY <1>1, <1>4, <1>5, <1>7 DEF CredentialAccessEnded, WindowInv
<1>8. CASE CredentialFailed
  <2> DEFINE d == IF credential.kind = "connection"
                  THEN RestoreDesired("llm", queue, settings, desired) ELSE desired
  <2>1. StartNextSettingsChange(settings, d, saves) BY <1>8 DEF CredentialFailed
  <2>2. d \in Settings /\ Shows(queue, d) BY <1>1, RestoreType, RestoreShows DEF WindowInv
  <2>3. \A x \in OwnSlots : d[x] = desired[x]
    <3>1. "llm" \in AllFields /\ \A x \in OwnSlots : x # "llm"
      BY DEF AllFields, OwnSlots, Slots, LlmSlots
    <3> QED BY <3>1, RestoreOwn
  <2> HIDE DEF d
  <2> QED BY <1>1, <1>4, <1>5, <2>1, <2>2, <2>3
<1> QED BY <1>6, <1>7, <1>8

LEMMA WindowCredentialWorker ==
    ASSUME TypeOK, WindowInv, CredentialWorker
    PROVE  WindowInv' /\ (SerialInv /\ AgreeInv /\ SettleInv => SettleInv')
<1>1. CASE ReadCredential \/ SettingsIdle \/ SnapshotSettings \/ WriteCredential
           \/ WriteCredentialFails \/ PublishCredential
  <2>1. /\ credential.stage # "none" /\ credential'.kind = credential.kind
        /\ UNCHANGED <<reducer, saves, requests>>
    BY <1>1 DEF ReadCredential, SettingsIdle, SnapshotSettings, WriteCredential,
                WriteCredentialFails, PublishCredential, reducer, TypeOK, Credential
  <2> QED BY <2>1 DEF reducer, WindowInv, QueueInv, SettleInv
<1>2. CASE CredentialCommitted \/ CredentialAccessEnded \/ CredentialFailed
  BY <1>2, WindowCredentialEnd
<1> QED BY <1>1, <1>2 DEF CredentialWorker

LEMMA WindowNext ==
    ASSUME TypeOK, WindowInv, [Next]_vars
    PROVE  WindowInv' /\ (SerialInv /\ AgreeInv /\ SettleInv => SettleInv')
<1>1. CASE User BY <1>1, WindowRequest, WindowCredential DEF User
<1>2. CASE \E job \in saves : SaveWorker(job) BY <1>2, WindowSaveWorker
<1>3. CASE CredentialWorker BY <1>3, WindowCredentialWorker
<1>4. CASE KoreanExtensionChanged \/ UNCHANGED vars
  <2>1. UNCHANGED <<settings, desired, queue, saving, credentialBusy, saves, credential, requests>>
    BY <1>4 DEF KoreanExtensionChanged, reducer, vars
  <2> QED BY <2>1 DEF WindowInv, QueueInv, SettleInv
<1> QED BY <1>1, <1>2, <1>3, <1>4 DEF Next

LEMMA WindowInit == Init => WindowInv /\ SettleInv
<1> SUFFICES ASSUME Init PROVE WindowInv /\ SettleInv OBVIOUS
<1>1. queue = <<>> /\ saves = {} /\ desired = settings /\ credential.stage = "none"
  BY DEF Init, NoCredential
<1>2. Entries(<<>>) = {} /\ Distinct(<<>>) BY DEF Entries, Distinct
<1> QED BY <1>1, <1>2 DEF WindowInv, QueueInv, Shows, SettleInv, Pending

\* No field of the instance writes slots another one restores.
FieldsApart == \A field \in Fields : Alone(field)

\* The window shows of every field the change that will be saved last, and holds no other of
\* it (SettingsChangeRequested, restore_desired_field_after_failure); also beside the saves
\* that a temporary read of a credential lets overlap.
THEOREM LatestIsShown == FieldsApart => (Spec => []DesiredShowsLatest)
<1> SUFFICES ASSUME FieldsApart PROVE Spec => []DesiredShowsLatest OBVIOUS
<1>1. WindowInv => DesiredShowsLatest
  <2> SUFFICES ASSUME WindowInv, NEW i \in DOMAIN queue, NEW j \in DOMAIN queue
               PROVE  /\ Matches(queue[i], desired)
                      /\ queue[i].field = queue[j].field => i = j
    BY DEF DesiredShowsLatest
  <2>1. queue[i] \in Entries(queue) BY DEF Entries
  <2> QED BY <2>1 DEF WindowInv, QueueInv, Distinct, Shows, FieldsApart
<1>2. TypeOK /\ WindowInv /\ [Next]_vars => WindowInv' BY WindowNext
<1> QED BY <1>1, <1>2, WindowInit, TypeCorrect, PTL DEF Spec

\* When nothing waits or is in flight, the window shows what is committed, and the services
\* run with it, for every slot that one field writes.
THEOREM OwnSlotsAreSettled == QuietStore => (Spec => []OwnSlotsSettle)
<1> SUFFICES ASSUME QuietStore PROVE Spec => []OwnSlotsSettle OBVIOUS
<1>1. ASSUME TypeOK, SerialInv, AgreeInv, SettleInv PROVE OwnSlotsSettle
  <2> SUFFICES ASSUME Settled
               PROVE  /\ \A x \in Slots \ (LlmSlots \cup {"provider"}) : desired[x] = settings[x]
                      /\ \A x \in RuntimeSlots : live[x] = settings[x]
    BY DEF OwnSlotsSettle
  <2>1. saves = {} /\ queue = <<>> /\ credential.stage = "none"
    BY <1>1 DEF Settled, SerialInv, TypeOK
  <2>2. \A x \in OwnSlots : desired[x] = settings[x] BY <1>1, <2>1 DEF SettleInv, Pending, Queued
  <2> QED BY <1>1, <2>1, <2>2 DEF AgreeInv, OwnSlots
<1>2. TypeOK /\ WindowInv /\ [Next]_vars => WindowInv' BY WindowNext
<1>3. TypeOK /\ SerialInv /\ AgreeInv /\ WindowInv /\ SettleInv /\ [Next]_vars => SettleInv'
  BY WindowNext
<1> QED BY <1>1, <1>2, <1>3, WindowInit, AgreeInvariant, PTL DEF Spec

----------------------------------------
(* The Korean extension.                                                     *)

\* A worker that starts is the worker of a change that is valid now.
LEMMA StartedValid ==
    ASSUME NEW s, NEW d, NEW q, NEW workers, StartChanges(s, d, q, workers)
    PROVE  \A job \in saves' \ workers :
               job.field = "korean" /\ job.value = On => koreanReady
<1>1. PICK n \in 1..(Len(q) + 1) :
          /\ IsFirstToSave(n, q, s)
          /\ saves' = IF n <= Len(q) THEN workers \cup {NewSave(q[n], s)} ELSE workers
  BY DEF StartChanges
<1> SUFFICES ASSUME NEW job \in saves' \ workers, job.field = "korean", job.value = On
             PROVE  koreanReady
  OBVIOUS
<1>2. n <= Len(q) /\ job = NewSave(q[n], s) BY <1>1
<1>3. q[n].field = "korean" /\ q[n].value = On BY <1>2 DEF NewSave
<1>4. Valid(q[n], s) BY <1>1, <1>2 DEF IsFirstToSave, MustSave
<1> QED BY <1>3, <1>4 DEF Valid

LEMMA StartedNextValid ==
    ASSUME NEW s, NEW d, NEW workers, StartNextSettingsChange(s, d, workers)
    PROVE  \A job \in saves' \ workers :
               job.field = "korean" /\ job.value = On => koreanReady
BY StartedValid DEF StartNextSettingsChange

\* A save that turns automatic Korean recognition on starts only while the extension is
\* installed (validate_ocr_setting), also when the change waited while it was removed.
THEOREM KoreanIsChecked == Spec => KoreanChecked
<1>1. ASSUME TypeOK, [Next]_vars
      PROVE  [\A job \in saves' \ saves :
                 job.stage = "write" /\ job.field = "korean" /\ job.value = On
                     => koreanReady]_vars
  <2> SUFFICES ASSUME NEW new \in saves' \ saves, new.stage = "write",
                      new.field = "korean", new.value = On
               PROVE  koreanReady
    OBVIOUS
  <2>1. CASE User
    <3>1. ASSUME NEW field \in Fields, NEW value \in ValuesOf(field),
                 RequestSettingsChange(field, value)
          PROVE  koreanReady
      <4>1. PICK d, q : saves' = saves \/ StartChanges(settings, d, q, saves)
        BY <3>1 DEF RequestSettingsChange
      <4> QED BY <4>1, StartedValid
    <3>2. ASSUME NEW kind, NEW value, RequestCredential(kind, value) PROVE koreanReady
      BY <3>2 DEF RequestCredential
    <3> QED BY <2>1, <3>1, <3>2 DEF User
  <2>2. CASE \E job \in saves : SaveWorker(job)
    <3>1. PICK job \in saves : SaveWorker(job) BY <2>2
    <3>2. job \in Save BY <1>1 DEF TypeOK
    <3>3. CASE RuntimeConfigUpdated(job) BY <3>3, StartedNextValid DEF RuntimeConfigUpdated
    <3>4. CASE SettingsChangeFailed(job) BY <3>4, StartedNextValid DEF SettingsChangeFailed
    <3>5. \A stage \in SaveStages : Step(job, stage) => stage = "write" BY <3>2 DEF Step, Save
    <3>6. CASE SaveFile(job) \/ SaveFileFails(job) \/ RuntimeConfigChanged(job)
               \/ ApplyRuntime(job) \/ ApplyRuntimeFails(job) \/ RollBack(job)
      BY <3>2, <3>5, <3>6 DEF SaveFile, SaveFileFails, RuntimeConfigChanged, ApplyRuntime,
                              ApplyRuntimeFails, RollBack, SaveStages, Save
    <3> QED BY <3>1, <3>3, <3>4, <3>6 DEF SaveWorker
  <2>3. CASE CredentialWorker
    <3>1. CASE CredentialCommitted \/ CredentialAccessEnded \/ CredentialFailed
      <4>1. PICK s, d : StartNextSettingsChange(s, d, saves)
        BY <3>1 DEF CredentialCommitted, CredentialAccessEnded, CredentialFailed
      <4> QED BY <4>1, StartedNextValid
    <3>2. CASE ReadCredential \/ SettingsIdle \/ SnapshotSettings \/ WriteCredential
               \/ WriteCredentialFails \/ PublishCredential
      BY <3>2 DEF ReadCredential, SettingsIdle, SnapshotSettings, WriteCredential,
                  WriteCredentialFails, PublishCredential
    <3> QED BY <2>3, <3>1, <3>2 DEF CredentialWorker
  <2>4. CASE KoreanExtensionChanged \/ UNCHANGED vars BY <2>4 DEF KoreanExtensionChanged, vars
  <2> QED BY <1>1, <2>1, <2>2, <2>3, <2>4 DEF Next
<1> QED BY <1>1, TypeCorrect, PTL DEF Spec, KoreanChecked
========================================
