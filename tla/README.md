# A verification project for Lexift

Lexift is a Windows tray application that translates selected, typed or recognised text, keeps a
clipboard history and takes screenshots. This directory holds TLA+ models of its control logic,
the TLC configurations that check them, and TLAPS proofs. Paths below are relative to the
repository (`crates/...`); line numbers are in `PROJECT.json`, which maps every definition to the
code it models.

To check a run: `tlc -config Editing.cfg MCEditing`. To check the proofs of a module:
`tlapm SettingsPipelineProofs.tla`, and so on for the modules `*Proofs.tla`.

## 1. The system

### 1.1 Architecture

All control state lives in one value, `AppState` (`lexift-core/src/state.rs`), changed by one
function, `AppState::reduce(event) -> commands`, which calls the reducers of OCR, clipboard
history, screenshots and annotation. `AppController::dispatch` (`lexift-app/src/controller.rs`)
takes the lock of the state, reduces, lets the runtimes follow the new state (`sync`, aborting
translation workers), posts a snapshot to the UI and releases the lock. Only then does the
dispatching thread execute the commands: it starts workers on the async runtime, posts closures to
the event loop of the UI, or sends jobs to other threads. Workers report by dispatching events.

So three kinds of steps interleave, and every module here is built from them:

1. a **transition**: atomic, under the lock;
2. the **execution** of its commands: later, by the thread that dispatched, unordered with the
   commands of other threads;
3. **worker steps** between two transitions: file writes, captures, HTTP requests, whose effect
   and report are separate.

### 1.2 Components

| component | state | operations | hard behaviour | modelled in |
|---|---|---|---|---|
| settings pipeline (`state.rs`, `controller.rs`, `runtime/mod.rs`, `lexift-config/store.rs`) | committed and desired settings, queue of changes, saving and credential flags, `config.toml`, the settings the services hold | request a change, save, apply, commit, roll back; credential read, write, removal | two kinds of operations write one file; failures at each step; superseded changes; waiting for each other | SettingsPipeline |
| translation sessions (`state.rs`, `controller.rs`) | the current task, main window, popups, active popup, selection toolbar, registered workers | shortcut, input, popup request, toolbar, pin, close; capture and translation workers | late reports, advisory abortion, commands executed out of order, reuse of popups | TranslationSessions |
| OCR session (`domain/ocr.rs`, `ocr.rs`) | phase, generation, popup | request, check, freeze, select, recognise, download, cancel | late answers, popup shared with selections | TranslationSessions (partly) |
| popup windows (`lexift-ui/bridge/popup.rs`) | windows by session | show, hide, dismiss | show and hide posted by several threads | TranslationSessions (which windows exist) |
| OCR resources (`platform/ocr/resources.rs`, `platform/ocr/mod.rs`) | directories, staging, removal marker, cached verification | download, verify, install, quarantine, remove | crashes between file operations, cancelled downloads that share a directory, stale verification | OcrResources, OcrStore |
| screenshots, pinned images (`domain/screenshot.rs`, `domain/pinned_image.rs`, `screenshot.rs`, `annotation/screenshot.rs`, `annotation/pin_editor.rs`) | sessions and operations by number, frames, pins and revisions, the one editor and whom it is lent to | shot, select, edit, output, pin, save, close | late results, one editor for desktop, shots and pins, a document to give back | Screenshots |
| annotation editor (`domain/annotation.rs`, `lexift-ui/annotation`) | objects, undo stack, one snapshot slot, gesture, parameter edit, text editor | draw, move, erase, parameters, text, undo, delete, clear | operations with a delay share one slot; requests for a selection that has gone | AnnotationDocument, EditHistory |
| mosaic masks (`annotation/mosaic_session.rs`, `mosaic_worker.rs`, `windows/screen_capture.rs`) | masks, requests, samples, effects | draw, delete, undo, sample, filter | samples of older regions, deadlines, masks in the undo stack | MosaicMasks |
| annotation picture (`annotation/presenter.rs`, `render_workflow.rs`, `windows/annotation_gpu.rs` with `output.rs`, `content.rs`, `recovery.rs`) | scene asked for, accepted and confirmed, deadline, blank canvas; mailbox; scene shown, capture, effects, frozen candidate, windows | render, submit, poll, fail, hand over; sample, compare, commit, rebuild | two owners of one picture, late answers, a device lost, commits that race a new scene | AnnotationRenderer |
| annotation export (`domain/annotation_export.rs`, `annotation_export.rs`, `windows/annotation_save.rs`) | session, request, worker, files | ask, cancel, capture, encode, write | cancellation between any two steps of a worker, answers to a closed view | AnnotationExport |
| clipboard history (`domain/clipboard_history.rs`, `clipboard_history.rs`, `platform/windows/clipboard_history`) | list, revision, window session, file, monitor, job queue | load, record, delete, clear, limit, copy, paste, pin, close, exit | saves out of order, unreadable file, rows that change under a click, late results | ClipboardHistory |
| clipboard capture (`windows/clipboard_selection.rs`, `clipboard_history/transient.rs`) | what the clipboard held, sequence numbers, withheld updates | preserve, copy, wait, restore | other writers between any two calls | ClipboardCapture |
| runtime services (`runtime/`, `windows/hotkey.rs`) | current configuration, listeners, registered keys | start, replace, roll back | keys of other programs, crash between file and registration | SettingsPipeline (agreement), HotkeyRuntime |
| credentials (`llm_credentials.rs`, `credential/windows.rs`) | secrets by reference | save, rotate, remove, roll back | several secrets, partial failure, a failing rollback | CredentialVault |
| copy and speech feedback (`domain/copy_feedback.rs`, `windows/speech.rs`) | request numbers, channel of the voice | copy, speak, stop | late feedback on a popup that was reused | PopupFeedback |
| page of the translation services (`llm_settings.rs`) | drafts by service, dialog, pending save, queries | edit, confirm, leave, apply, test | a save refused or late under edits that go on | ProviderPage |
| providers, configuration schema, native windows, pixels of the renderers, start-up, localisation, observability | | | I/O, parsing, pixels, tables | not modelled |

`PROJECT.json` lists them all with their status, and under `hazards` each place where something can
go wrong that a test would hardly reach, with the properties that would catch it. What makes each
component correct is stated in section 3.

### 1.3 Modules

| module | contents |
|---|---|
| `SettingsPipeline`, `SettingsPipelineProofs` | the settings pipeline and its theorems |
| `TranslationSessions`, `TranslationSessionsProofs` | translations, OCR session, toolbar, popup windows |
| `OcrResources`, `OcrStore` | the resources of OCR, and what their directory promises |
| `Screenshots` | screenshots, pinned images, the loans of the editor |
| `ScreenshotsProofs`, `ScreenshotsSafetyProofs` | its invariant and what each operation makes of the state; that every step keeps the invariant, and the theorems |
| `AnnotationDocument`, `EditHistory`, `AnnotationDocumentProofs` | the document of the editor, what undo promises, and the proof that it does |
| `MosaicMasks` | masks that follow the screen |
| `AnnotationRenderer`, `AnnotationRendererProofs` | the annotation picture between the canvas and the native renderer |
| `HotkeyRuntime`, `CredentialVault`, `AnnotationExport`, `ProviderPage` | the global shortcuts; the secrets; saving a picture as a file; the page of the services |
| `PopupFeedback` | copies and voice of a popup |
| `ServicesProofs` | the theorems of these five, of `MosaicMasks` and of `OcrResources` |
| `ClipboardCapture`, `ClipboardHistory` | the capture of a selection through the clipboard; the list of the clipboard |
| `ClipboardProofs` | the theorems of these two |
| `MCSettingsPipeline`, `MCTranslationSessions`, `MCScreenshots` | instances of one module |
| `MCEditing`, `MCProgress`, `MCServices` | instances of several modules that share no state, side by side |

`TranslationSessions` composes the reducer of translations with the one of OCR, because they share
the popups, and with the dispatching threads, the workers and the event loop; `Screenshots` composes
two reducers, their runtime and the event loop, because they share the editor. `AnnotationRenderer`
composes the event loop and the worker thread, because they share the mailbox and the screen.
`MCServices`, `MCEditing` and `MCProgress` compose nothing: a behaviour picks one `part` at the start, the variables of the others
keep their initial values, and the run answers for each part what a run of its own would.
Definitions whose comment begins with "Mutant:" are plausible bugs; each is the mutated form of a
definition of the model and shows that a property can be broken (`mutants` in `PROJECT.json`).

## 2. How the models correspond to the code

Common to all of them:

- A transition is one action, guarded by the conditions and early returns of its reducer arm; what
  the arm calls (starting the next change, trimming the list, aborting workers) is part of it.
- A thread executes the commands of a transition in actions of its own and dispatches its next
  event only afterwards. `pending[thread]` holds them.
- A worker is a record with its stage between two of its effects; each failing call has its own
  outcome.
- Payloads are abstracted to what the properties compare; each module's head says which.
- Counters are bounded by constants named `Max...`, tested where the counter grows. The code's own
  wrapping 64-bit counters are not modelled as wrapping.

### 2.1 SettingsPipeline

| state | code |
|---|---|
| `settings`, `desired`, `queue`, `saving`, `credentialBusy` | `AppState.settings`, `desired_settings`, `queued_settings_changes`, `settings_saving`, `credential_busy` |
| `disk` | `config.toml` |
| `live` | `RuntimeManager.current`, the translator and the credential reference in use |
| `saves` | workers of `PersistSettings` and `ApplyRuntimeConfig`, by stage |
| `credential` | the worker of the credential command |
| `koreanReady` | whether the Korean OCR extension is installed |

The settings are ten slots; a field of `SettingsChange` writes one or two of them (`Writes`) and a
failure copies back what `restore_desired_field_after_failure` copies (`Restores`), which is more
than the field writes for the language model. `RequestSettingsChange` is
`request_settings_change`; a save then goes `SaveFile` / `SaveFileFails`, `RuntimeConfigChanged`
(the snapshot of the previous settings), `ApplyRuntime` / `ApplyRuntimeFails` (the refused
shortcut or service), `RollBack` (which may fail), and `RuntimeConfigUpdated` or
`SettingsChangeFailed`, which start the next change. A credential operation is
`RequestCredential`, `SettingsIdle` (waits for the save in flight), `SnapshotSettings`,
`WriteCredential` / `WriteCredentialFails`, `PublishCredential`, `CredentialCommitted` or
`CredentialFailed`; a temporary read is `ReadCredential`, `CredentialAccessEnded`.

### 2.2 TranslationSessions

| state | code |
|---|---|
| `state` | the part of `AppState` concerned: current task, main window, popups, active popup, counters, OCR session, toolbar |
| `captureInFlight` | `selection_capture_in_flight`, an atomic outside the lock |
| `workers` | capture and translation workers, by task |
| `registered` | `translation_tasks`: handles that can be aborted |
| `pending` | commands to execute, per thread |
| `ocrJobs`, `gestures` | OCR workers and toolbar captures in flight |
| `uiQueue`, `windows`, `unshown` | closures posted to the event loop, visible windows, windows that failed to appear |

The reducer is a set of operators from state to state (`BeginTask`, `PreparePopup`, `ClosePopup`,
`TranslateIn`, `Report`, `OcrFails`, `NewShot`), named after the Rust functions, and `Dispatch`
installs the result and aborts the registered workers nobody waits for. A text is the number of
the task that was requested for it, so that a result can be compared with its source. Aborting is
advisory: an aborted worker may still report (`ReportProgress`, `EndTranslation`) or stop
(`StopTranslation`).

### 2.3 ClipboardHistory

| state | code |
|---|---|
| `history`, `session`, `nextSession` | `HistoryState` |
| `enabled`, `limit` | the two committed settings |
| `permitted`, `shuttingDown`, `io` | `HistoryRuntime`: last request to the monitor, exit flag, job channel |
| `storage`, `listFile` | the storage thread with the revision it saved last, the file |
| `monitor`, `samples` | the registered monitor, texts it read and has not delivered |
| `pending` | the command each of four threads has to execute |
| `pastes`, `copies` | workers |

`Transition` is a transition followed by `HistoryRuntime::sync`, under the lock. The storage thread
is `LoadList`, `SetRecording`, `TakeSave` (with the coalescing of waiting saves), `WriteList`,
`StopStorage`. The cancellation token of a paste is a function of the state (`PasteCancelled`), because
a session keeps its token until it is replaced and numbers are not used again. `Retained` and
`Recorded` are sets with one member, what `retain` and the insertion of a copy make of the list: a proof
takes the member and never has to compute it.
`SelectionInteractionStarted` comes from the thread of the selection monitor and may end a window
between a click and its execution.

### 2.4 OcrResources, OcrStore

`folders`, `stage` and `marker` are the directories of the two sets, `staging` and the file
`pending-removal`; `jobs` are the workers of `app/ocr.rs`, each at the next of its steps (admission
by the flag, `download_lock`, inspection, download, verification, quarantine of the old directory,
renaming, report), and `owner` is who holds the lock. `request`, `busy`, `info` are the
`ResourceState` of the reducer, `verified` the cache of `ocr/mod.rs`, `engine` whether one is
loaded. A crash may come between any two file operations and the next start runs `cleanup_pending`.
`OcrStore` is what one directory promises; `StatusOf` is the refinement mapping and is also what
`status_for` computes. The cache is keyed as in the code by metadata (`fingerprint`: paths, lengths,
times), not by content: damage from outside comes at any moment, whoever holds the lock, and
shows in the metadata (`damaged`) or does not (`altered`, for which `Stamp` is that of the complete set).
A recognition takes the lock, inspects (`InspectForRecognition`) and loads the engine without another
look at the files (`LoadEngine`), so damage may come between the two; that nothing else does is the
lock (`LockFree`). An inspection, which takes the fingerprint and then checks the files, is one step.

### 2.5 Screenshots

`core` is `AppState.screenshot` and `pinned_images` with the frames the runtime owns and what it has
posted; `view` what the event loop owns: the editor, to whom it is lent, the parked document of the
desktop, the windows of pins. A dispatch (`reduce`, `sync`, the posting of the snapshot) is one
step, because all of it is under the lock; workers capture, compose and write in steps of their own.
Input comes after the closures that were posted before it. Left out: threads that cannot be started,
messages, geometry, quitting, all drags of the region but the first, and the guard
`!ocr::screen_busy()` of `ToggleAnnotation`.

### 2.6 AnnotationDocument, EditHistory

`registry` holds what `Session` (`domain/annotation.rs`) and the registry of the UI hold together:
objects, selection, undo stack, `before` (the one snapshot slot), the rectangle the eraser moves,
the panel with the request it posted and the one it deferred, the parameter edit that a timer ends
after 300 ms, the gesture and the text editor. The handlers of the event loop are the actions; the
functions they call are operators on the registry, composed in the order of the code, so that e.g.
`BeginDocumentGesture` is `BeginDrag` after `FinishStyleEdit`. Requests carry a revision in the code
and are dropped when it is outdated; here an outdated request disappears at once (`Outdate`), which
no later step can tell apart. `EditHistory` is the abstract specification of undo: an edit appends
the document the user left, undo takes the last one back.

### 2.7 MosaicMasks

`mosaic` is the state of `mosaic_session.rs` (regions asked for, revision, floor, what waits), `sampler` and
`sampling` the mailbox and the thread of `screen_capture.rs`, `filter` the thread of the effects. A mask is provisional until
a sample of its regions arrives; a failed sample or a deadline that passes discards the provisional
ones, from the undo stack as well. The ghost `covered` records which masks a sample was taken below,
`unconfirmed` which were deleted while provisional. `UndoWithout` is a set with one member, so that
the proofs can reason about the order it keeps (`InOrder`).

### 2.8 AnnotationRenderer

| state | code |
|---|---|
| `ui` | `Presenter` (requested, accepted and confirmed scene, deadline `waiting`, `active`, `failed`, its timer), the queued render of `Tasks`, the canvas (`gpu_input_cleared` is `hidden`, `signature` is `drawn`, its pixels `canvas`), and whether the software samples and has the effects (`sampling`, `masked`) |
| `box` | `Mailbox` |
| `gpu` | the variables of `run`: generation, session, `shown`, `Recovery`, the windows it retains, and where in its loop it is |
| `device` | `Renderer`: the capture (`source`, `published`), `PendingFrame` (`changed`, `owing`), `effect_inputs`, `presented_stamp`, `presented_inputs`, the candidate of `output::Pixels`, and what its windows show (`front`) |
| `desktop` | how often the desktop changed |

The functions of the presenter are operators from the UI thread and the mailbox to the same;
`Rendered` is `render_canvases`, in the order of the code: the scene goes to the worker and the canvas
is cleared once that is confirmed, else the software draws and, if it covers the canvas, releases a
native picture it kept. `PollRenderer` is `poll_native_renderer`. The worker takes a scene under the
lock and works without it: `Compare` (a frozen output is settled first), `Sample`, `Compose`, `Commit`
(under the lock, for the scene the mailbox still holds) and `Publish`, so that a new scene, a clear, a
closed session or a lost device may come between any two of them.

### 2.9 AnnotationExport

`export` is the reducer's session and request, `job` and `cancelled` the runtime's, `workers` the
thread with its stage (capture, dialog, encode, temporary file, check, rename), `button` the view.
Sessions open and close on the event loop, where a dispatch and the execution of its commands are
one step.

### 2.10 ClipboardCapture

`clipboard` is the desktop's clipboard with its sequence number; `capture` the thread between any
two calls of the platform; the application in front, the user and the monitor act in between.
`buffer` and `excluded` are `Transient`, the updates withheld from the history and the numbers the
transaction claims.

### 2.11 HotkeyRuntime, CredentialVault

`owners` is the table of the desktop, `listeners` the threads of the port, `current` what the
manager took over, `change` a start or a replacement at one of its steps. The transaction of
`CredentialVault` notes the previous secret before it writes each one, then writes the references in
the file; a failure restores in reverse. `asked` is the outcome the user was told.

### 2.12 PopupFeedback, ProviderPage

`PopupFeedback` has the buttons of each popup with their request numbers, the writers and timers,
the channel of the speech thread and, per dispatching thread, the commands it has still to carry out
(`outbox`). `ProviderPage` has the draft shown, the `dormant` drafts of the other services, the
`dialog` with its snapshot, and the submission the core is saving.

## 3. Runs and what they show

| run | instance | distinct states |
|---|---|---|
| `editing` | settings: all 8 fields, 2 values, 3 changes, 1 credential operation that writes (1.23 million), and 3 fields from a file whose shortcuts are equal; editor: captions in a screenshot, badges on the desktop, shapes and the eraser in a screenshot, each with 1 object and 2 steps of undo (54 thousand); picture: 2 sessions, or 2 edits with 1 change of the desktop and 1 fault, or 2 faults, or 2 changes with 1 wait (285 thousand) | 1.60 million |
| `progress` | settings: 2 fields, 2 changes, 2 credential operations incl. reads; picture: 1 session, 1 edit, 2 changes of the desktop, 1 fault; fairness | 44 thousand |
| `sessions_popups` | 3 tasks from the shortcut; pin, unpin, close | 1.19 million |
| `sessions_main` | one user with 2 tasks and 2 mouse selections (shortcut, input, popup, toolbar, closing), one with 2 OCR requests; fairness | 99 thousand |
| `screenshots` | 2 shots, 2 outputs, 1 operation and 2 pictures of a pin, 1 failure | 1.04 million |
| `services` | the other modules, below | 1.47 million |
| `settings_overlap`, `sessions_gate`, `sessions_ghost`, `sessions_reuse`, `provider_page`, `clipboard_race` | expected violations | |

The parts of `services`: the history with a file (2 texts, 3 changes of the list, limits 1 and 2,
3 files, switch, exit), with two windows (a copy per row and a paste per window), and with one
window whose rows move; OCR resources (3 requests, 2 recognitions, 1 crash, 1 damage); 4 shortcuts
of which 3 are in use (2 changes, 1 stop, 2 registrations of other programs); secrets of a
connection with 2 headers and of DeepL, 3 operations; the page with 2 services, 3 edits, 1 save;
2 exports in 4 openings and closings; 1 capture with 1 copy of the user and 2 refusals; 2 masks
with 1 failure; one popup that is copied from twice, and two of which two texts are read aloud.

**Settings** (`editing`, `progress`). At most one save is in flight (`SerialSaves`). From
its snapshot to its commit a credential operation is alone with the file and its snapshot is not
stale (`CredentialWritesAlone`). If the process died, the file would hold the committed settings or
those of the operation in flight (`DiskAgrees`; exempt is the time after a failed write-back).
A service differs from the committed settings only in slots about to be committed (`LiveAgrees`).
A commit that moves a shortcut, and a service that takes a new one over, leave the two different
(`ShortcutsDiffer`), although each was asked for before the other moved. More is not true of the code:
nothing that loads the file compares them (`schema.rs`, `migration.rs`), and the file holds an equal
pair after a crash between the write of a change the services refuse and its write-back, after a
write-back that failed, or when it was edited by hand. So the loaded settings are arbitrary
(`LoadedAssumption`), and one part of the run starts from an equal pair. A commit changes its own slots and nothing
else (`CommitsOneChange`). A queued request for Korean recognition is checked again when its turn
comes (`KoreanChecked`). At rest, window, services and committed settings agree
(`OwnSlotsSettle`). While changes wait the window shows the latest of each field
(`DesiredShowsLatest`), and every change and credential operation ends although each kind waits
for the other (`EveryChangeEnds`).

**Editor** (`editing`). The one snapshot slot is held exactly while a gesture that owns it or an edit
of parameters runs, and never by both (`SnapshotOwned`): no operation completes or takes back the
work of another. Undo goes back over the documents the user left, newest first, and loses none
(`UndoRetraces`, the specification `EditHistory`), although an edit of parameters ends by a timer, a
request may be posted before and applied after a press, and every command first settles what runs.

**Annotation picture** (`editing`, `progress`). A canvas the UI has given up is carried by native
windows of its own session, whatever fails, times out or is rebuilt, and a blank canvas it has not
given up is about to be drawn, waits for an answer, or could not be drawn (`PictureCovered`). When the
worker rests after the answer that a scene is shown, its windows show that scene over the desktop
sampled last (`FrameHonest`): no comparison, debt or commit of an earlier scene, sample or device is
taken for it, not even when the desktop changes back to the pixels that are shown. Once the user, the
desktop and the faults rest, the user sees the document (`PictureFollows`), unless the last frame of
the canvas could not be drawn, which only the next render tries again.

**Sessions.** There is at most one unpinned popup and it is the one reused (`OnePassivePopup`).
No window shows a result, or the beginning of one, of another source (`ResultOfSource`). A handle
is kept only for a task somebody waits for (`HandlesWanted`). Once the threads are idle each popup
has its window (`PopupsShown`). A pinned popup keeps its text (`PinnedKeepsSource`). The toolbar
offers only the last selection (`ToolbarOffersLatest`). An unwanted worker is aborted, or will be
when its thread registers it, a wanted one never is, a popup that shows work in progress has it and
OCR is never in a phase nothing will end (`WorkAccounted`). Every awaited translation ends and the
shortcut works again after a capture (`EveryTranslationEnds`).

**Screenshots.** What is drawn on the desktop is neither lost nor held twice while the editor is
lent to shots and pins (`DesktopKept`). Pins have their pixels and nobody else does
(`PinKeepsPixels`). When nothing is on the way, windows, editor and output agree with the core
and a pin shows its latest picture (`ViewsAgree`). A phase in which the user waits has something that
ends it (`ShotHasWork`).

**Services.**
- History: the file follows the list, unless a write failed or the file was unreadable, and the
  window says truly whether the clipboard is recorded (`StorageFollows`); an unreadable file is left
  alone until the user clears it (`UnreadableKept`); a click acts on the text that was clicked, and a
  window that refuses clicks waits for work that is under way (`ClicksServed`).
- OCR resources: the directory of the base set implements `OcrStore` (`StoreKept`): usable only when
  complete and not removed, a removal is carried out, nothing else loses it, whatever crashes come
  between file operations. An engine starts only from sets an inspection found complete and that the program has not begun
  to mark, remove or replace since (`EngineVerified`), however late the recognition runs. This is not a
  promise about outside damage: what keeps lengths and times, or comes between inspection and
  load, is loaded (`Vouched` names the two cases). What the settings window shows of an operation is
  true (`ManagerTruthful`).
- A shortcut the manager holds has a registered key at every moment of a replacement and between
  changes exactly the one the settings show (`ShortcutServed`).
- Secrets and references change together or not at all (`SecretsFollowSettings`).
- An edit the user confirmed for a service is in its settings or in a draft that says so
  (`EditsKept`).
- At most one export is at work, the one of the state; the button that waits gets its answer
  (`ExportAccounted`).
- A capture gives the clipboard back as the user left it, and the history lists what the user copied
  and nothing of the capture (`CaptureLeavesNoTrace`).
- A mask no sample was taken below does not outlive a failed capture, and the effects follow the
  document and the samples (`MasksTruthful`).
- What a popup tells of its copies and of its voice is true (`FeedbackTruthful`).

**Bounds.** The hazards need at most three actors: the operation that is interrupted, the one that
interrupts it, and a third that finds what the two left. So three changes against one credential
operation reach: one saving, one waiting and superseded, one of another field; three tasks reach
two popups, one pinned, and a superseded capture; two OCR generations reach every late answer;
two windows of the history reach a result of the first in the second; three requests for OCR
resources reach a download cancelled by the second whose removal of the shared directory meets the
third; a second recognition meets what the first has cached and what was damaged since. Three revisions let three threads send saves in every order. One number of a request per
window and row is enough for the history's windows, because a session takes its next number only
after the previous answer. The limit is 1 there so that recording a text pushes the clicked row off
the list. One object and two steps of undo reach every handler of the editor with another's work
under way, because the slot, the timer and the requests exist once and not per object; the runs
below cover what two objects add.

The desktop below the annotations has two shades, so that the second change brings back pixels that
were shown: a comparison that finds them equal, beside a debt that is still open, is the case
`FrameHonest` is about. One fault is a lost device, a failed call of either side or a deadline; two
are a rebuilt device lost again. Two sessions let an answer of the first meet the second.

Larger instances passed once and are not kept as runs: the picture with 2 sessions, 2 edits, 2 changes
and 2 faults (4.6 million); the editor with 2 objects and 2 steps
(captions 166 thousand states, badges 78 thousand, shapes and eraser 29 thousand) and with all four
tools together, 1 object and 1 step (102 thousand); two captures through the clipboard
(16.8 million); masks with three gestures (5 million), or with two, a deletion and a failure
(4.5 million); a popup with three texts of which three are read aloud (1.3 million).

Deadlock is not checked: the system rests when the user does nothing and the bounds are used up.

**Fairness.** Weak fairness of workers, of threads executing their commands and of the event loop;
never of the user. Workers are tasks of the async runtime whose blocking calls return: file writes
and native captures are finite, and HTTP clients have time limits (`lexift-translate/http.rs`).
OCR workers get no fairness: no liveness is claimed of them. For the annotation picture: the event loop
runs its tasks and timers, the worker its loop, which polls at least every 100 ms, and a capture that
was started delivers a frame; the desktop, faults and deadlines have none.

## 4. Where the code departs from what it says

Each of these is a run that TLC must find violated (`findings` in `PROJECT.json`).

1. `settings_overlap` (`state.rs:1121`). `start_next_settings_change` looks at `credential_busy`
   only. A temporary credential read that ends while a change is being saved starts the next change
   beside it, from settings that lack the first. The implementation plan says saves are serial.
2. `sessions_gate` (`controller.rs:343`). The gate of the selection shortcut closes before the
   reducer decides. While OCR checks or captures, the reducer ignores the shortcut, no capture
   runs, and nothing opens the gate: the shortcut is dead until the program is restarted.
3. `sessions_ghost` (`controller.rs:1109`). A worker's `ShowPopup`, executed after the UI closed the
   reused popup, makes a window no session stands behind.
4. `sessions_reuse` (`domain/ocr.rs:545`). A selection captured during a recognition takes over the
   popup, and the recognised text later replaces it.
5. `provider_page` (`llm_settings.rs`, `remember`). Editing the address back to the saved one in the
   dialog and then leaving the page drops the confirmed draft behind the dialog.
6. `clipboard_race` (`windows/clipboard_selection.rs`). What the user copies between the check of
   the sequence number and `OleSetClipboard` is overwritten by the restoring.

Seen while modelling, kept in the models or in the notes of `hazards`, without a run:

- a failed save of the options of the language model copies the whole group of its settings back
  into the window and so undoes, there, a provider switch that waits and is committed later
  (`state.rs:1177`; the implementation plan says only the failed field is restored; this is why
  `OwnSlotsSettle` leaves those slots out);
- OCR refused because an annotation is open forgets a pinned popup under recognition, whose phase
  stays `Capturing` (`domain/ocr.rs:386`; the user of OCR in `sessions_main` has no pins for that
  reason);
- unpinning a popup removes the one it replaces without ending its OCR request (`state.rs:498`);
- an empty request in a popup shows an error that the translation still under way then replaces;
- clearing the history before it is loaded is undone in memory when the load ends
  (`clipboard_history.rs:239`; operation `early clear`, in no instance);
- deleting a row, clearing or closing while its copy is written lets a paste, or a second copy,
  write the clipboard beside it, which `devdoc/features/copy-feedback.md` means to exclude;
- a header that is added, never saved and then deleted makes every later Apply of the page fail;
- a popup that is reused while it is read aloud goes on being read, and one that the OCR shortcut
  closes between the transition to speech and the call of the voice is read although it has gone
  (ghost `orphaned`);
- a provisional mask that is deleted stays in the undo stack when its sample fails, and an undo
  brings back a mask without an effect, against the comment at `mosaic_session.rs:640` (ghost
  `unconfirmed`);
- deleting the selected object within 300 ms of a change of its parameters is one step of undo with
  that change, because `delete_selected` (`canvas_input.rs:731`) does not end the edit;
- deleting a badge with its own control returns before the panel follows, which then shows the
  values of the deleted badge until the next press (`parameter_workflow.rs:122` says otherwise);
- `editor.rs:121` says that cancelling a draft cannot change the defaults of drawing, while
  `parameter_workflow.rs:390` remembers them at once and a test asserts that they are kept; closing
  a panel keeps as default also a value that was posted and never applied;
- `OcrEvent::DownloadRequested` and `DownloadFinished` are dispatched by no production code; a
  download goes through the manager of resources;
- a refused change of the translator
  (`runtime/mod.rs:151`) leaves the providers configured, and its two calls are not split here;
- `presenter.rs:210` says that a shown native frame remains owned until the software covers every
  canvas; a failure keeps to that, but when no scene compiles `render_workflow.rs:200` releases it
  before the software has drawn (such scenes are left out of the model), and undoing an erased stroke
  (`canvas_input.rs:708`) releases it until the queued render has drawn;
- a canvas frame that cannot be drawn is tried again only by the next render: nothing queues one;
- `RenderWait::Paused` ends the deadline of the presenter for good (`presenter.rs:101`); it cannot
  occur, since `render_canvases` passes no paused regions.

## 5. Proofs

TLC checks instances; the theorems hold for every value of the constants. A theorem that needs more
about them says so in its statement. Each invariant that had to be found was first checked by TLC
on the instance of its run.

### 5.1 Settings

| theorem of `SettingsPipelineProofs` | states | assumes |
|---|---|---|
| `TypeCorrect` | `Spec => []TypeOK` | |
| `SavesAreSerial` | `Spec => []SerialSaves` | `QuietStore` |
| `CredentialWritesAreAlone` | `Spec => []CredentialWritesAlone` | `QuietStore` |
| `DiskAgreement` | `Spec => []DiskAgrees` | `QuietStore` |
| `LiveAgreement` | `Spec => []LiveAgrees` | `QuietStore` |
| `ShortcutsMoveApart` | `Spec => ShortcutsDiffer`, from any loaded pair | `QuietStore` |
| `CommitsAreSingle` | `Spec => CommitsOneChange` | `QuietStore` |
| `OwnSlotsAreSettled` | `Spec => []OwnSlotsSettle` | `QuietStore` |
| `LatestIsShown` | `Spec => []DesiredShowsLatest` | `FieldsApart` |
| `KoreanIsChecked` | `Spec => KoreanChecked` | |

`QuietStore` says that no credential is read temporarily and that the credential store exists.
Without it those theorems are false: run `settings_overlap` is the counterexample with a read, and a
missing store fails the operation at once in the same way. It is an assumption about what the user
does and where; the run `editing` has an instance of it. `FieldsApart` says that no field of the
instance writes slots that another one restores, as the options of the language model do (section
4); the run `progress` has an instance of it, with reads.

The argument has three layers. `SerialInv` strengthens `SerialSaves` by what makes it inductive: a
save in flight keeps `saving` set, `credentialBusy` is set exactly while a credential operation is
in a stage other than `none`, and from its snapshot on there is no save. Each handler that may
start a change is shown to find none in flight (`SerialRequest`, `SerialSaveEnd`,
`SerialCredentialEnd`). `AgreeInv`, on top of it, says for each stage of the one operation in
flight which settings the file, the services and the reducer hold: the target of a save is its
change applied to the committed settings, the file holds the target from the write until the
write-back, and the services hold it only once they accepted it. The agreement theorems are its
corollaries. That services and file agree needs that a refused change leaves the services alone
(`AppliedWrites`: a service copies at least the slots the change writes), and that a
shortcut moves away from the other needs that the conflict is looked for in the target, which is the
pair that is then committed.

The third layer is the window. The queue holds one change of each field, each with a number of its
own, and none when nothing is saved (`QueueInv`); what the window holds of a field is the change
that waits for it (`Shows`). A slot that is written by one field only is shown as committed unless
a change of that field waits or is being saved (`Pending`), whatever is superseded or fails.

### 5.2 Translations

| theorem of `TranslationSessionsProofs` | states | assumes |
|---|---|---|
| `OnePassivePopupHolds` | `Spec => []OnePassivePopup` | |
| `HandlesWantedHolds` | `Spec => []HandlesWanted` | |
| `ToolbarIsLatest` | `Spec => []ToolbarOffersLatest` | |
| `PinnedIsKept` | `Spec => PinnedKeepsSource` | |
| `ResultsBelong` | `Spec => []ResultOfSource` | |
| `WorkersAccounted` | `Spec => [](WantedAtWork /\ NoOrphanWorker)` | |
| `OcrIsAtWork` | `Spec => []OcrAtWork` | |
| `WorkIsAccounted` | `Spec => []WorkAccounted` | `PinsApart` |
| `PopupsAreShown` | `Spec => []PopupsShown` | |

The reducer is a set of operators from state to state, and so are the proofs. `GoodState` (the
types, popups numbered up to the counter, and `OnePassive`) is shown to be kept by each of them, by
making or reusing a popup (`PreparePopupGood`), closing (`ClosePopupGood`), pinning and unpinning
(`PinGood`, `UnpinGood`), a report (`ReportGood`), and the OCR and toolbar changes. `PopupInv` adds
that the commands of the threads are typed, because the task a thread starts comes from one. The
numbering makes it inductive: a popup that is given to a request is the unpinned one, or has a
number no live popup has. `HandlesWanted` is inductive as it stands: `dispatch` installs the state
and drops the unwanted handles under one lock, and a registration tests the same state under it.

For the other theorems each operator is described once more by a relation between the two states,
and each action by the relation it takes. `WorkInv` is what relates the windows to the work:

- `Scripts`: a thread has nothing to do, one command, or to show a window and then to start the
  task of it;
- `Staged`: the stage of a worker agrees with the one command that starts or registers it, and with
  the handle `dispatch` could abort it by;
- `Waits`: a window waits only for a task at work whose text is the one it shows, and shows no
  result of another.

A report is accepted only where its task is waited for, so no window shows the result of another
text; and aborting touches only workers nobody waits for. OCR has in each waiting phase a job of its
generation (`Recognizes`). `QueueInv` says that every live popup is shown or the command that shows
it is coming, and that no command that closes the window of a live popup is coming, which needs
that the number of a closed popup is not used again.

`PinsApart` excludes instances in which the user both pins popups and asks for OCR while an
annotation is open. It is needed only for the last part of `WorkAccounted`, that a popup which shows
it captures has a recognition to wait for, and it is needed because of the code: `domain/ocr.rs:386`
forgets a pinned popup under recognition (section 4), which then shows forever that it captures.
`WorkersAccounted` and `OcrIsAtWork` are the parts that hold without it.

### 5.3 The annotation editor and its picture

| theorem | states | module |
|---|---|---|
| `SlotIsOwned` | `DocumentSpec => []SnapshotOwned` | `AnnotationDocumentProofs` |
| `HistoryImplemented` | `DocumentSpec => UndoRetraces`, a refinement | `AnnotationDocumentProofs` |
| `RendererInvariant` | `RendererSpec => []IInv` | `AnnotationRendererProofs` |
| `PictureCoveredHolds` | `RendererSpec => []PictureCovered` | `AnnotationRendererProofs` |
| `FrameHonestHolds` | `RendererSpec => []FrameHonest` | `AnnotationRendererProofs` |

`AnnotationDocumentProofs`. A handler composes up to a dozen operators on the registry. What they do
to objects, looks and texts never matters; what matters is one of a few relations between the
registry before and after: the operator leaves the slot of the snapshot to its owner (`Kept`), takes
it (`Begun`), gives it back (`Ended`), completes the change of parameters (`Settled`) or may begin
one (`Tuned`). In each of them the history only grows, and where it grows the first document added
is the one without the operation that runs (`Extends`). That relation composes, so a handler that
settles a parameter, writes a text and adds an object leaves exactly the documents the user had;
`Passes` adds that the slot has one owner, a gesture or a parameter. The ownership is what the eraser
and undo need: the eraser cuts without a step of its own because its gesture owns the slot, and undo
finds the slot free because it settled or cancelled whoever had it. `UndoAfterSteps` is the case of
a text or a parameter that is settled by the undo itself and then taken back at once.

`AnnotationRendererProofs`. The invariant has a part for each side. `Good` relates the UI thread to
the mailbox: which scenes were asked for and for which answer a canvas waits (`Asked`, `Carried`,
`Expected`); each function of the presenter keeps it. `Fronted` and `AtScene` say what the windows
show while the worker is at a scene. `HonestInv` is about the frames: a stamp stands for one content
(`Labelled`); what the windows show was composed from inputs that are the latest unless another
frame is owed (`Composed`, `Honest`); an answer was given for a scene that was asked for (`Answered`).

### 5.4 The services beside translation

| theorem | states | assumes | module |
|---|---|---|---|
| `StoreImplemented` | `OcrSpec => StoreKept`, a refinement | | `ServicesProofs` |
| `EngineFromVerified` | `OcrSpec => EngineVerified` | | `ServicesProofs` |
| `ManagerIsTruthful` | `OcrSpec => []ManagerTruthful` | | `ServicesProofs` |
| `ShortcutsSafe` | `HotkeySpec => []ShortcutServed` | the defaults are keys | `ServicesProofs` |
| `SecretsSafe` | `VaultSpec => []SecretsFollowSettings` | finitely many headers | `ServicesProofs` |
| `ExportsAccounted` | `ExportSpec => []ExportAccounted` | | `ServicesProofs` |
| `EditsAreKept` | `PageSpec => []EditsKept` | `Plain`, the translator without a language model, is not one of the services with a page | `ServicesProofs` |
| `CaptureIsTraceless` | `CaptureSpec => []CaptureLeavesNoTrace` | | `ClipboardProofs` |
| `StorageIsFollowed` | `HistorySpec => []StorageFollows` | the list is not cleared before it was loaded | `ClipboardProofs` |
| `UnreadableIsKept` | `HistorySpec => UnreadableKept` | | `ClipboardProofs` |
| `ClicksAreServed` | `HistorySpec => []ClicksServed` | | `ClipboardProofs` |
| `FeedbackIsTruthful` | `PopupSpec => []FeedbackTruthful` | | `ServicesProofs` |
| `MasksAreTruthful` | `MaskSpec => []MasksTruthful` | | `ServicesProofs` |

`ServicesProofs`, resources of OCR. The invariant says what the job that holds `download_lock` may rely on at each
of its steps (`LockOK`, `Ensured`: after the quarantine there is no directory, after the
verification `staging` holds a complete set of its kind), that no other job is at such a step, and
that what the cache calls ready was complete under its stamp (`CacheTrue`). For the engine,
`OutsideInv` adds that a recognition that has inspected holds the lock, so what it was told is still what
the cache says and the sets are neither marked nor moved away (`Reserved`). With it each step of
`OcrSpec` is a step of `OcrStore` under `StatusOf("base")`, or changes nothing of it; a crash is a
stutter, because the state between two file operations is one the next start understands. For the
window that manages them: it waits for one job, and the others are downloads that were cancelled
(`UpToDate`); while an answer is on its way that nothing will correct, no job is about to change the
files (`AtRest`); so each answer that is told last is the status on disk (`Truth`).

`ServicesProofs`, shortcuts. A registered key belongs to the slot whose listener has it, or is the new key
of a replacement under way (`Owned`, `Held`, `Swapping`), and in a start the slots not yet reached
hold nothing (`Unstarted`). The port registers the new key before it releases the old one, so a
slot is never without; other programs only take keys that are free.

`ServicesProofs`, secrets. The updates of an operation are those noted, in the order they were made,
followed by those left; a noted one holds its previous secret, an untouched one is as `asked` says.
Restoring them is the inverse of the prefix, which is why a failure anywhere leaves what was there.

`ServicesProofs`, exports. The job of the runtime is the request of the state or cancelled
(`JobKept`), a request is at work or its answer is on the way (`RequestAtWork`, `Awaited`), and no
view is ahead of the sessions it was told of (`SessionsBehind`, `ViewFollowed`).

`ServicesProofs`, page of the services. `EditsKept` speaks of the draft that counts for a service: the
dialog over the page, or what was left aside when the page showed another one. While a connection is
saved, the draft of its service is still there and still has the header that is being saved pending
(`SubmissionKept`), so the end of the save takes out what was submitted and no more, whatever was
edited meanwhile; `Submitted` ties the request under way to the one awaited. The part that needs care
is `remember`, which drops a draft that equals the saved connection: the invariant then follows from
the equality, or the service is one of those set aside in `lapsed` (section 4).

`ServicesProofs`, masks. Masks are numbered as they are begun, and the one being drawn is in no
snapshot (`MasksNumbered`). A provisional mask that one snapshot holds is in the later ones
and in the document, unless it was deleted (`Chained`), so a sample taken below the document was
taken below what an undo can bring back, too. A sample of the last revision is of
the regions asked for last, and one taken before the last clear finds another generation
(`SamplesTrue`); this is why a sample confirms exactly the masks it was taken below. What was handed
to the filter last waits, is at work or is done (`SubmittedDone`), and a document that changed was
handed on with the sample at hand or a render is due (`HandedOn`), so the effects follow both.

`ClipboardProofs`, the capture. Four processes write sequence numbers and contents: the capture, the
application in front, other programs and the user. The invariant has what the capture knows at each
step (`Returning`: the snapshot is what the user had from the verification on, the clipboard
holds it again once the restoring has written), who answers for each number (`Unclaimed`,
`Claimed`: what the transaction writes is excluded before the history can list it; `Noticed`:
what the clipboard holds was sampled, is buffered, handed over, listed or excluded, or an update is
still to come), and that no number is newer than the clipboard's (`Numbered`).

`ClipboardProofs`, the history. All rest on one fact about the start: until the file was read the
load is the first job, nothing is listed, shown, clicked or written (`NotLoaded`), and it is the only
load (`LoadOnce`).
For the file, `SavesKnown` relates the list to its saves: none that is queued, about to be queued
or being written is newer than the list, and one of the list's revision holds the list. `LatestKept`
says that a save of that revision is waiting or was the last one taken, and that the file holds the list
once it was written; it speaks of the waiting saves as a set, so that
the order in which four threads queue them and the saves the thread skips do not matter. It is kept
by each of five kinds of steps (nothing of it changes, a revision, the load, a save is taken, a save is
written), and every action is one of them. For the monitor, `QueueAgrees` says that the last job about
recording carries what was asked, and without one the monitor has it; what is asked is what
the settings permit once the list is loaded. The writing of an unreadable file needs that what waits
to be written was made after a load that succeeded, or after a clear (`Writable`).
For the clicks, `ClickInv` says that the number of an entry names one text forever: numbers given so
far are not given again, recording an old text moves its entry with its number, and deleted numbers do not
come back, so the entry in a command or worker is the one in the list if that is still listed.
A busy window has its paste and a pending copy its worker, by session and request,
because a session's number is new when it opens and its request grows with each click.
`StorageIsFollowed` assumes that the user does not clear the list before it was loaded
(`"early clear"` is not among the actions), because after that it is not true of the code: the
load brings the entries back into the list (`domain/clipboard_history.rs:239`, one of the hazards in
`PROJECT.json`), while the file stays empty. The other two hold with it.

`ServicesProofs`, copies and voice. A tick is given to the request that is pending, and its writer has written
(`WritersTrue`, `CopiesShown`); new content voids both, so an old writer finds another request or
none. `SpeechShown` speaks of the moments when nothing is on its way, and the invariant of the
others: a button shows only what is read, was until an event on its way, or will be once a command
is obeyed (`ShownIsRead`); what is read is shown or announced, unless its stop or the request for
another thing is on its way (`ReadIsShown`); and the command to read a popup that is gone is
followed by the one that stops it (`ClosedIsStopped`), because a thread carries out one command
before it dispatches again. The exceptions are the popups in `orphaned`, which were reused while
they were read aloud, or closed by the shortcut while the event loop was about to have them read.
The voice reports at most two things at once, and the last is what it reads (`EventsTrue`).

### 5.5 Screenshots and pinned images

| theorem | states | assumes | module |
|---|---|---|---|
| `ScreenshotsTyped` | `Spec => []TypeOK` | | `ScreenshotsSafetyProofs` |
| `ScreenshotsSure` | `Spec => []Sure(core, view, jobs)`, the inductive invariant | | `ScreenshotsSafetyProofs` |
| `DesktopIsKept` | `Spec => []DesktopKept` | | `ScreenshotsSafetyProofs` |
| `PixelsFollowPins` | `Spec => []PinKeepsPixels` | | `ScreenshotsSafetyProofs` |
| `ShotsHaveWork` | `Spec => []ShotHasWork` | | `ScreenshotsSafetyProofs` |
| `ScreenIsKnown` | `Spec => []ScreenAgrees`, the part of `ViewsAgree` about the screenshot | | `ScreenshotsSafetyProofs` |

None of the properties is inductive, because each speaks of a moment (nothing is on the way, a phase has begun)
whose reason lies in what was posted earlier. The invariant speaks of the queue instead.

- The event loop. `Sees(queue, flow, i, shot)` is what it will know of the screenshot when it has run the
  first `i - 1` closures: the last snapshot among them, or what it knows now. So the flow is always the core's
  once the queue is empty (`FlowKnown`), a `Suspend` is run while the screenshot it is for is still being
  prepared (`SuspendKnown`), and a `Show` only when its selection is known and the desktop's document was put
  aside (`ShowSees`). While the document is put aside, no older or newer screenshot is in the queue
  (`RecoveryKnown`).
- The editor. It is lent to a screenshot or to a pin and never to both, also not by closures that wait
  (`Lent`, `Apart`); the drawing of the desktop is with the borrower's `recovery` or `active` exactly if there
  is one (`DrawnAt`), which is why it is in one place.
- The work. For an active screenshot the document is put aside or its `Suspend` waits (`Loaned`); once it is
  over, a `Restore` of the same session is queued behind it or with a worker that is about to post it
  (`RestoreDue`). Each phase has what ends it (`PrepareWork`, `SelectWork`, `EditorWork`, `OutputWork`). Commands
  that a worker brings late name a session that is over or not a newer one (`RestoreOld`, `ShowOld`), no output on
  its way is of a later operation than the screenshot's (`SourcesOld`), and while the last one has no window its
  pixels wait and the event loop knows its phase (`OutputKept`): what arrives late ends nothing that is newer.
- The pixels. The images are those of the pins of the core, and the frames those of its session (`ImagesKept`,
  `HeldKnown`); identifiers in closures, timers and jobs name windows that were made (`IdsKnown`).

`Steady` is what a transition of the core may rely on, `Sound` adds the editor and the output, `Safe` the
types, and `Sure` that windows and documents go together (`Stocked`). In the middle of a closure the invariant
does not hold: a window may be gone whose pin the core still knows, or the work of a screenshot may
just have ended. `Good` and `Fine` say what holds there, with the jobs that were spawned already counted
(`With`). Each operator of the core is first reduced to what it tells (`SelectedTold`, `TendTold`, `QuitTold`:
which phase, which snapshot and which commands), once, and each operator of the event loop to what it leaves of
the view; a step is then a short chain of these. The bounds of the model (`MaxShots` and the others) are never
used: the theorems hold for every value of them, and for any inputs in `UserDoes`.

### 5.6 Only model-checked

Liveness under fairness, which TLAPS does not reach: `EveryChangeEnds`, `EveryTranslationEnds`,
`PictureFollows`. And of the invariants, the part of `ViewsAgree` about the pins (the windows are those of the
core's pins, the published documents and pictures are the latest). It would need the same for the second
reducer as the queue invariant above is for the first: for each pin the last snapshot, picture and loan on
its way. `ScreenIsKnown` is the part about the screenshot.

## 6. Not modelled

`PROJECT.json` gives the reason for each component. In the modelled ones: error texts, toasts,
languages, logging; focus, geometry and drafts of windows; the retries before a native window
exists (a window appears or does not); the cap of the history in bytes; restarts, except where a
module has crashes (`OcrResources`, `HotkeyRuntime`) and except that `DiskAgrees`, `StorageFollows` and
`UnreadableKept` say what a restart would find. Further:

- `AnnotationDocument`: watermark, menus, magnifiers, masks (`MosaicMasks`), drawings of several
  clicks, refusals of objects that are too small, the number the next badge takes, focus and
  refused click-through, the geometry of an edited text. A projection of the panel is the look of
  its object; `posted` and `deferred` hold one request each, as one revision is valid at a time.
- `MosaicMasks`: other objects, moving and resizing, excluded windows, errors
  of the request itself. The screen below does not change.
- `AnnotationRenderer`: several canvases and ones that change their size, the magnifier, scenes that do
  not compile, paused regions, pacing, a wait of the worker that fails; the software's samples arrive
  or do not (they are in `MosaicMasks`).
- `ClipboardCapture`: captures are serialised by the gate of the shortcut; updates of the clipboard
  are coalesced; the application in front writes at most twice per Ctrl+C; the 128 excluded numbers
  and the cap in bytes are not reached; a clipboard whose flush fails twice counts as spoiled.
- `PopupFeedback`: messages, languages, a missing clipboard or voice. The OCR shortcut may close any
  unpinned popup, which is more than the code does.
- `ProviderPage`: the reset when the window closes; the address stands for the fields that are edited
  both on the page and in the dialog.
- `OcrResources`: sizes, progress, links in place of directories.
- captures of the clipboard that are buffered during a translation of the selection and delivered
  later than newer ones, in `ClipboardHistory` (they are in `ClipboardCapture`).

## 7. What is left

1. The proof of `ViewsAgree` for the pins (section 5.6).
2. Snapshots and window commands in one queue in `TranslationSessions`; an abstract settings store
   (committed settings, atomic changes) that `SettingsPipeline` implements.
3. Several canvases and the magnifier in `AnnotationRenderer`; the providers' decoding of streams; the
   single instance.
