------------------------ MODULE TranslationSessions ------------------------
(***************************************************************************)
(* The translations of Lexift: from a shortcut, the input box, a popup, the *)
(* selection toolbar or a recognised region to the window that shows the    *)
(* result.                                                                  *)
(*                                                                          *)
(* The reducer (lexift-core/src/state.rs, domain/ocr.rs) is one step under  *)
(* the lock of AppState.  AppController::dispatch aborts the translation    *)
(* workers nobody waits for under the same lock, releases it, and lets the  *)
(* dispatching thread execute the commands: capture a selection, translate, *)
(* show or hide a popup.  Workers report by dispatching events; aborting    *)
(* one is advisory, so an aborted worker may still report.  The event loop  *)
(* of the UI shows and hides popup windows in the order it was asked to.    *)
(*                                                                          *)
(* Data abstracted: a text is the number of the translation task that was   *)
(* requested for it, 0 when it is empty, so that a result can be compared   *)
(* with the source it belongs to.  Languages, error texts, copy and speech  *)
(* feedback are left out.  Screenshot mode and the resource manager of OCR  *)
(* only refuse requests here: a refused request is a step that is not taken.*)
(***************************************************************************)
EXTENDS Integers, Sequences, FiniteSets

CONSTANTS
    MaxTasks,   \* bound: translation tasks begun
    MaxShots,   \* bound: OCR requests and downloads
    MaxGestures, \* bound: selections made with the mouse
    Scenarios   \* what the user does in this instance: sets of operations, one of which is chosen

AllOperations == {"hotkey", "input", "close main", "popup", "pin", "close popup",
                  "ocr", "ocr while annotating", "toolbar"}

ASSUME MaxTasksAssumption    == MaxTasks \in Nat
ASSUME MaxShotsAssumption    == MaxShots \in Nat
ASSUME MaxGesturesAssumption == MaxGestures \in Nat
ASSUME ScenariosAssumption   == Scenarios \subseteq SUBSET AllOperations

None  == 0               \* no task, no session, no text
Tasks == 1..MaxTasks

\* Sessions are numbered from 1; each one is made by a task or an OCR shortcut.
Sessions == Nat \ {None}

\* The threads that execute commands: the one of the UI, and for each task the
\* worker that dispatched the event it began with.
UI      == 0
Threads == {UI} \cup Tasks

Phases    == {"Idle", "Capturing", "Translating", "Success", "NoSelection", "Error"}
OcrPhases == {"Idle", "Checking", "DownloadRequired", "Downloading", "Capturing",
              "Recognizing", "Translating", "Error"}

MainView == [phase : Phases, source : {None} \cup Tasks, result : {None} \cup Tasks]
Session  == [phase : Phases, pinned : BOOLEAN, task : {None} \cup Tasks,
             source : {None} \cup Tasks, result : {None} \cup Tasks]
Ocr      == [phase : OcrPhases, popup : {None} \cup Sessions, generation : Nat]
Toolbar  == [generation : Nat, selection : Nat]

\* workers[t] performs task t: for the popup `session`, or for the main window and
\* the popup the selection goes to when session is None.
WorkerStages == {"none", "capturing", "captured", "empty", "failed",
                 "starting", "running", "aborted", "done"}
Worker == [stage : WorkerStages, session : {None} \cup Sessions]

Command == [op : {"show", "hide"}, id : Sessions] \cup [op : {"translate", "register"}, id : Tasks]

VARIABLES
    state,       \* AppState: the part of the reducer below
    captureInFlight, \* selection_capture_in_flight
    workers,     \* capture and translation workers, by task
    registered,  \* translation_tasks: the workers dispatch can abort
    pending,     \* commands each thread has still to execute
    ocrJobs,     \* OCR workers and the overlay of a frozen capture
    gestures,    \* toolbar captures in flight, by generation
    uiQueue,     \* closures waiting in the event loop of the UI
    windows,     \* visible popup windows
    unshown,     \* sessions whose window could not be shown
    user         \* [operations, shots]: what the user does, OCR requests and downloads so far

uiVars == <<uiQueue, windows, unshown>>
vars == <<state, captureInFlight, workers, registered, pending, ocrJobs, gestures,
          uiQueue, windows, unshown, user>>

Show(id)      == [op |-> "show", id |-> id]
Hide(id)      == [op |-> "hide", id |-> id]
Translate(t)  == [op |-> "translate", id |-> t]
Register(t)   == [op |-> "register", id |-> t]

----------------------------------------
(* The reducer: each operator returns the AppState after an event.           *)

Live(s)      == DOMAIN s.sessions
Passive(s)   == {i \in Live(s) : ~s.sessions[i].pinned}
EmptyView    == [phase |-> "Idle", source |-> None, result |-> None]

\* The tasks somebody waits for.
Wanted(s) == ({s.current} \cup {s.sessions[i].task : i \in Live(s)}) \ {None}

\* begin_translation_task: the main window now waits for a new task.
BeginTask(s, phase, source) ==
    [s EXCEPT !.nextTask = @ + 1, !.current = s.nextTask + 1,
              !.main = [phase |-> phase, source |-> source, result |-> None]]

\* Mutant: reuses the active popup even when it is pinned.
PinnedPopupFor(s) == IF s.active \in Live(s) THEN s.active
                     ELSE IF Live(s) # {} THEN CHOOSE i \in Live(s) : TRUE
                     ELSE s.nextSession + 1

\* The unpinned active popup is reused, otherwise a new one is made.
PopupFor(s) == IF s.active \in Passive(s) THEN s.active ELSE s.nextSession + 1

\* prepare_active_popup_session.
PreparePopup(s, phase, task, source) ==
    LET id  == PopupFor(s)
        new == [phase |-> phase, pinned |-> FALSE, task |-> task, source |-> source,
                result |-> None] IN
    [s EXCEPT !.active = id,
              !.nextSession = IF id > @ THEN id ELSE @,
              !.sessions = [i \in Live(s) \cup {id} |-> IF i = id THEN new ELSE s.sessions[i]]]

Without(s, id) == [i \in Live(s) \ {id} |-> s.sessions[i]]

\* close_popup_session.
ClosePopup(s, id) ==
    LET ended == id \in Live(s) /\ s.current # None /\ s.sessions[id].task = s.current IN
    [s EXCEPT !.ocr = IF @.popup = id
                      THEN [phase |-> "Idle", popup |-> None, generation |-> @.generation + 1]
                      ELSE @,
              !.current = IF ended THEN None ELSE @,
              !.main = IF ended THEN [@ EXCEPT !.phase = "Idle", !.result = None] ELSE @,
              !.sessions = Without(s, id),
              !.active = IF @ = id THEN None ELSE @]

\* The commands of close_popup_session.
HideIfLive(s, id) == IF id \in Live(s) THEN <<Hide(id)>> ELSE <<>>

\* request_popup_translation with a text: the popup waits for a new task.
TranslateIn(s, id) ==
    IF id \notin Live(s) THEN s
    ELSE LET t == s.nextTask + 1 IN
         [s EXCEPT !.nextTask = t,
                   !.sessions[id] = [@ EXCEPT !.phase = "Translating", !.source = t,
                                              !.result = None, !.task = t]]

\* What an event of task t does to the view that waits for it.
Reported(view, t, event) ==
    CASE event = "started"  -> [view EXCEPT !.phase = "Translating"]
      [] event = "progress" -> [view EXCEPT !.result = t]
      [] event = "finished" -> [view EXCEPT !.phase = "Success", !.result = t]
      [] event = "failed"   -> [view EXCEPT !.phase = "Error"]

Ends(event) == event \in {"finished", "failed"}

\* TranslationStarted, Progress, Finished, Failed and their Popup forms (session is
\* not None): only views that wait for the task change, and TranslationStarted counts
\* only while the main window waits for it.
Report(s, t, event, session) ==
    LET Waits(i) == s.sessions[i].task = t /\ (event = "started" /\ session = None => s.current = t)
        InSession(r) == [Reported(r, t, event) EXCEPT !.task = IF Ends(event) THEN None ELSE @] IN
    [s EXCEPT
        !.current = IF @ = t /\ Ends(event) THEN None ELSE @,
        !.main    = IF s.current = t THEN Reported(@, t, event) ELSE @,
        !.sessions = [i \in Live(s) |-> IF Waits(i) THEN InSession(s.sessions[i])
                                        ELSE s.sessions[i]],
        !.ocr.phase = IF /\ Ends(event) /\ session \in Live(s) /\ Waits(session)
                         /\ s.ocr.popup = session /\ s.ocr.phase = "Translating"
                      THEN IF event = "finished" THEN "Idle" ELSE "Error"
                      ELSE @]

\* OcrEvent::Failed of the current generation.
OcrFails(s) ==
    [s EXCEPT !.ocr.phase = "Error",
              !.sessions = [i \in Live(s) |-> IF i = s.ocr.popup
                                              THEN [s.sessions[i] EXCEPT !.phase = "Error"]
                                              ELSE s.sessions[i]]]

\* A new OCR generation begins in the given phase.
NewShot(s, phase) ==
    [s EXCEPT !.ocr = [phase |-> phase, popup |-> None, generation |-> @.generation + 1]]

ToolbarCleared(s) ==
    [s EXCEPT !.toolbar = [generation |-> @.generation + 1, selection |-> None]]

----------------------------------------
(* AppController::dispatch: install the new state and abort the workers       *)
(* nobody waits for; the thread then executes the commands.                   *)

\* Mutant: only the main window is asked whether it waits.
MainOnlyAborted(s, ws) ==
    [t \in Tasks |-> IF t \in registered \ {s.current} /\ ws[t].stage = "running"
                     THEN [ws[t] EXCEPT !.stage = "aborted"] ELSE ws[t]]

Aborted(s, ws) ==
    [t \in Tasks |-> IF t \in registered \ Wanted(s) /\ ws[t].stage = "running"
                     THEN [ws[t] EXCEPT !.stage = "aborted"] ELSE ws[t]]

Dispatch(s, ws) ==
    /\ state' = s
    /\ workers' = Aborted(s, ws)
    /\ registered' = registered \cap Wanted(s)

Execute(thread, commands) == pending' = [pending EXCEPT ![thread] = commands]

\* A task begins on a thread that goes on to translate for `session`.
Begun(t, stage, session) == [workers EXCEPT ![t] = [stage |-> stage, session |-> session]]

Free(thread) == pending[thread] = <<>>
MayBegin(operation) == operation \in user.operations /\ state.nextTask < MaxTasks

----------------------------------------
(* The selection shortcut.                                                    *)

\* dispatch ignores the shortcut while a capture is in flight; the reducer ignores
\* it while OCR prepares or shows its frozen capture.
PressHotkey ==
    /\ MayBegin("hotkey")
    /\ ~captureInFlight
    /\ captureInFlight' = TRUE
    /\ IF state.ocr.phase \in {"Checking", "Capturing"}
       THEN UNCHANGED <<state, workers, registered>>
       ELSE LET s == BeginTask(state, "Capturing", None) IN
            Dispatch(s, Begun(s.current, "capturing", None))
    /\ UNCHANGED <<pending, ocrJobs, gestures, uiVars, user>>

\* The capture ends; dispatch opens the gate before it takes the lock.
CaptureSelection(t) ==
    /\ workers[t].stage = "capturing"
    /\ \E outcome \in {"captured", "empty", "failed"} :
        workers' = [workers EXCEPT ![t].stage = outcome]
    /\ captureInFlight' = FALSE
    /\ UNCHANGED <<state, registered, pending, ocrJobs, gestures, uiVars, user>>

\* Mutant: the result of a superseded capture is taken.
LateSelectionCaptured(t) ==
    /\ workers[t].stage = "captured"
    /\ LET s == PreparePopup([state EXCEPT !.main.source = t], "Translating", t, t) IN
       /\ Dispatch(s, [workers EXCEPT ![t].stage = "starting"])
       /\ Execute(t, <<Show(s.active), Translate(t)>>)
    /\ UNCHANGED <<captureInFlight, ocrJobs, gestures, uiVars, user>>

SelectionCaptured(t) ==
    /\ workers[t].stage = "captured"
    /\ IF state.current = t
       THEN LET s == PreparePopup([state EXCEPT !.main.source = t], "Translating", t, t) IN
            /\ Dispatch(s, [workers EXCEPT ![t].stage = "starting"])
            /\ Execute(t, <<Show(s.active), Translate(t)>>)
       ELSE /\ Dispatch(state, [workers EXCEPT ![t].stage = "done"])
            /\ UNCHANGED pending
    /\ UNCHANGED <<captureInFlight, ocrJobs, gestures, uiVars, user>>

\* SelectionCaptureEmpty and SelectionCaptureFailed: the popup says so.
SelectionNotCaptured(t) ==
    /\ workers[t].stage \in {"empty", "failed"}
    /\ IF state.current = t
       THEN LET phase == IF workers[t].stage = "empty" THEN "NoSelection" ELSE "Error"
                s     == PreparePopup([state EXCEPT !.current = None, !.main.phase = phase,
                                                    !.main.source = None, !.main.result = None],
                                      phase, None, None) IN
            /\ Dispatch(s, [workers EXCEPT ![t].stage = "done"])
            /\ Execute(t, <<Show(s.active)>>)
       ELSE /\ Dispatch(state, [workers EXCEPT ![t].stage = "done"])
            /\ UNCHANGED pending
    /\ UNCHANGED <<captureInFlight, ocrJobs, gestures, uiVars, user>>

----------------------------------------
(* The main window.                                                           *)

InputTranslation ==
    /\ MayBegin("input")
    /\ Free(UI)
    /\ LET s == BeginTask(state, "Idle", state.nextTask + 1) IN
       /\ Dispatch(s, Begun(s.current, "starting", None))
       /\ Execute(UI, <<Translate(s.current)>>)
    /\ UNCHANGED <<captureInFlight, ocrJobs, gestures, uiVars, user>>

EmptyInput ==
    /\ "input" \in user.operations
    /\ Free(UI)
    /\ Dispatch([state EXCEPT !.current = None, !.main = [EmptyView EXCEPT !.phase = "Error"]],
                workers)
    /\ UNCHANGED <<captureInFlight, pending, ocrJobs, gestures, uiVars, user>>

\* MainWindowClosed: a translation no popup waits for ends with the window.
CloseMainWindow ==
    /\ "close main" \in user.operations
    /\ Free(UI)
    /\ state.current # None
    /\ \A i \in Live(state) : state.sessions[i].task # state.current
    /\ Dispatch([state EXCEPT !.current = None, !.main.phase = "Idle", !.main.result = None],
                workers)
    /\ UNCHANGED <<captureInFlight, pending, ocrJobs, gestures, uiVars, user>>

----------------------------------------
(* The popup windows: the user acts on a window that is visible.             *)

\* PopupTranslationRequested cancels the recognition the popup still waits for.
PopupRequest(s, id) ==
    IF s.ocr.popup = id /\ s.ocr.phase = "Recognizing" THEN NewShot(s, "Idle") ELSE s

TranslatePopup(id) ==
    /\ MayBegin("popup")
    /\ Free(UI)
    /\ LET s == TranslateIn(PopupRequest(state, id), id) IN
       IF id \in Live(state)
       THEN /\ Dispatch(s, Begun(s.nextTask, "starting", id))
            /\ Execute(UI, <<Translate(s.nextTask)>>)
       ELSE Dispatch(s, workers) /\ UNCHANGED pending
    /\ UNCHANGED <<captureInFlight, ocrJobs, gestures, uiVars, user>>

\* A request without text reports an error; the translation under way goes on.
TranslateEmptyPopup(id) ==
    /\ "popup" \in user.operations
    /\ Free(UI)
    /\ LET s == PopupRequest(state, id) IN
       Dispatch(IF id \in Live(s) THEN [s EXCEPT !.sessions[id].phase = "Error"] ELSE s, workers)
    /\ UNCHANGED <<captureInFlight, pending, ocrJobs, gestures, uiVars, user>>

\* A pinned popup leaves the active slot.
PinPopup(id) ==
    /\ "pin" \in user.operations
    /\ Free(UI)
    /\ id \in Passive(state)
    /\ Dispatch([state EXCEPT !.sessions[id].pinned = TRUE,
                              !.active = IF @ = id THEN None ELSE @], workers)
    /\ UNCHANGED <<captureInFlight, pending, ocrJobs, gestures, uiVars, user>>

\* Mutant: the popup that was active stays open.
KeepingUnpinPopup(id) ==
    /\ "pin" \in user.operations
    /\ Free(UI)
    /\ id \in Live(state) \ Passive(state)
    /\ Dispatch([state EXCEPT !.sessions[id].pinned = FALSE, !.active = id], workers)
    /\ UNCHANGED <<captureInFlight, pending, ocrJobs, gestures, uiVars, user>>

\* Mutant: hides the popup that was unpinned and not the one it replaces.
HidingUnpinPopup(id) ==
    /\ "pin" \in user.operations
    /\ Free(UI)
    /\ id \in Live(state) \ Passive(state)
    /\ LET s        == [state EXCEPT !.sessions[id].pinned = FALSE, !.active = id]
           replaced == {state.active} \cap Passive(state) IN
       /\ Dispatch([s EXCEPT !.sessions = [i \in Live(s) \ replaced |-> s.sessions[i]]], workers)
       /\ Execute(UI, IF replaced = {} THEN <<>> ELSE <<Hide(id)>>)
    /\ UNCHANGED <<captureInFlight, ocrJobs, gestures, uiVars, user>>

\* An unpinned popup takes the active slot; the unpinned popup it replaces goes.
UnpinPopup(id) ==
    /\ "pin" \in user.operations
    /\ Free(UI)
    /\ id \in Live(state) \ Passive(state)
    /\ LET s        == [state EXCEPT !.sessions[id].pinned = FALSE, !.active = id]
           replaced == {state.active} \cap Passive(state) IN
       /\ Dispatch([s EXCEPT !.sessions = [i \in Live(s) \ replaced |-> s.sessions[i]]], workers)
       /\ Execute(UI, IF replaced = {} THEN <<>> ELSE <<Hide(state.active)>>)
    /\ UNCHANGED <<captureInFlight, ocrJobs, gestures, uiVars, user>>

\* The close button or a press outside: the registry hides the window first.
CloseWindow(id) ==
    /\ "close popup" \in user.operations
    /\ Free(UI)
    /\ windows' = windows \ {id}
    /\ Dispatch(ClosePopup(state, id), workers)
    /\ Execute(UI, HideIfLive(state, id))
    /\ UNCHANGED <<captureInFlight, ocrJobs, gestures, uiQueue, unshown, user>>

----------------------------------------
(* The commands of a thread, and the translation workers it starts.          *)

\* TranslationStarted is dispatched, then the worker is spawned.
StartTranslation(thread) ==
    /\ ~Free(thread)
    /\ Head(pending[thread]).op = "translate"
    /\ LET t == Head(pending[thread]).id IN
       /\ Dispatch(Report(state, t, "started", workers[t].session),
                   [workers EXCEPT ![t].stage = "running"])
       /\ Execute(thread, <<Register(t)>> \o Tail(pending[thread]))
    /\ UNCHANGED <<captureInFlight, ocrJobs, gestures, uiVars, user>>

\* Mutant: the handle is stored although the request was closed meanwhile.
UncheckedRegisterTranslation(thread) ==
    /\ ~Free(thread)
    /\ Head(pending[thread]).op = "register"
    /\ registered' = registered \cup {Head(pending[thread]).id}
    /\ Execute(thread, Tail(pending[thread]))
    /\ UNCHANGED <<state, captureInFlight, workers, ocrJobs, gestures, uiVars, user>>

\* register_translation, under the lock of AppState.
RegisterTranslation(thread) ==
    /\ ~Free(thread)
    /\ Head(pending[thread]).op = "register"
    /\ LET t == Head(pending[thread]).id IN
       IF t \in Wanted(state)
       THEN registered' = registered \cup {t} /\ UNCHANGED workers
       ELSE /\ workers' = [workers EXCEPT ![t].stage = IF @ = "running" THEN "aborted" ELSE @]
            /\ UNCHANGED registered
    /\ Execute(thread, Tail(pending[thread]))
    /\ UNCHANGED <<state, captureInFlight, ocrJobs, gestures, uiVars, user>>

\* ShowPopup and HidePopup are posted to the event loop of the UI.
PostToUi(thread) ==
    /\ ~Free(thread)
    /\ Head(pending[thread]).op \in {"show", "hide"}
    /\ uiQueue' = Append(uiQueue, Head(pending[thread]))
    /\ Execute(thread, Tail(pending[thread]))
    /\ UNCHANGED <<state, captureInFlight, workers, registered, ocrJobs, gestures,
                   windows, unshown, user>>

\* A worker past its last await reports even when it was aborted.
Reporting(t) == workers[t].stage \in {"running", "aborted"}

ReportProgress(t) ==
    /\ Reporting(t)
    /\ Dispatch(Report(state, t, "progress", workers[t].session), workers)
    /\ UNCHANGED <<captureInFlight, pending, ocrJobs, gestures, uiVars, user>>

EndTranslation(t) ==
    /\ Reporting(t)
    /\ \E event \in {"finished", "failed"} :
        Dispatch(Report(state, t, event, workers[t].session),
                 [workers EXCEPT ![t].stage = "done"])
    /\ UNCHANGED <<captureInFlight, pending, ocrJobs, gestures, uiVars, user>>

StopTranslation(t) ==
    /\ workers[t].stage = "aborted"
    /\ workers' = [workers EXCEPT ![t].stage = "done"]
    /\ UNCHANGED <<state, captureInFlight, registered, pending, ocrJobs, gestures, uiVars, user>>

----------------------------------------
(* The event loop of the UI runs when its thread has no command to execute.   *)

\* The native window may fail to appear: the registry then drops it.
ShowWindow ==
    /\ Free(UI)
    /\ uiQueue # <<>>
    /\ LET id == Head(uiQueue).id IN
       /\ Head(uiQueue).op = "show"
       /\ \/ windows' = windows \cup {id} /\ unshown' = unshown \ {id}
          \/ windows' = windows \ {id} /\ unshown' = unshown \cup {id}
    /\ uiQueue' = Tail(uiQueue)
    /\ UNCHANGED <<state, captureInFlight, workers, registered, pending, ocrJobs, gestures, user>>

HideWindow ==
    /\ Free(UI)
    /\ uiQueue # <<>>
    /\ Head(uiQueue).op = "hide"
    /\ windows' = windows \ {Head(uiQueue).id}
    /\ uiQueue' = Tail(uiQueue)
    /\ UNCHANGED <<state, captureInFlight, workers, registered, pending, ocrJobs, gestures,
                   unshown, user>>

----------------------------------------
(* OCR: check the resources, freeze the screen, let the user mark a region,   *)
(* recognise it, translate the text in the popup.                             *)

Job(kind, generation) == [kind |-> kind, generation |-> generation]

\* The popup that tells why OCR did not start.
RefuseOcr(s) ==
    LET told == PreparePopup(s, "Error", None, None) IN
    /\ Dispatch(told, workers)
    /\ Execute(UI, <<Show(told.active)>>)
    /\ UNCHANGED ocrJobs

\* The shortcut replaces the request under way.  A popup it made goes unless pinned.
BeginOcr ==
    LET id  == state.ocr.popup
        old == state.ocr.phase \in {"Recognizing", "Translating"} /\ id \in Live(state)
        s   == IF old /\ id \in Passive(state) THEN ClosePopup(state, id)
               ELSE IF old /\ state.ocr.phase = "Recognizing"
               THEN [state EXCEPT !.sessions[id].phase = "Idle"] ELSE state
        new == ToolbarCleared(NewShot(s, "Checking")) IN
    /\ Dispatch(new, workers)
    /\ Execute(UI, IF old /\ id \in Passive(state) THEN <<Hide(id)>> ELSE <<>>)
    /\ ocrJobs' = ocrJobs \cup {Job("check", new.ocr.generation)}

\* OcrEvent::Requested; the provider may be disabled in the settings.
RequestOcr ==
    /\ "ocr" \in user.operations
    /\ Free(UI)
    /\ user.shots < MaxShots
    /\ user' = [user EXCEPT !.shots = @ + 1]
    /\ \/ state.ocr.phase # "Capturing" /\ RefuseOcr(state)
       \/ /\ state.ocr.phase = "Capturing"
          /\ Dispatch(NewShot(state, "Idle"), workers)
          /\ UNCHANGED <<pending, ocrJobs>>
       \/ state.ocr.phase \notin {"Capturing", "Downloading"} /\ BeginOcr
    /\ UNCHANGED <<captureInFlight, gestures, uiVars>>

\* An open annotation refuses OCR, and also drops the request under way.
RequestOcrWhileAnnotating ==
    /\ "ocr while annotating" \in user.operations
    /\ Free(UI)
    /\ user.shots < MaxShots
    /\ user' = [user EXCEPT !.shots = @ + 1]
    /\ \/ state.ocr.phase # "Capturing" /\ RefuseOcr(state)
       \/ RefuseOcr(IF state.ocr.phase = "Downloading" THEN state ELSE NewShot(state, "Error"))
    /\ UNCHANGED <<captureInFlight, gestures, uiVars>>

\* Mutant: an answer for an older generation is taken.
AnyJobIs(job, kind, phase) == job.kind = kind /\ state.ocr.phase = phase

\* The answer of a job counts in the generation and phase it was started for.
JobIs(job, kind, phase) ==
    job.kind = kind /\ job.generation = state.ocr.generation /\ state.ocr.phase = phase

\* Checked: freeze the screen, or ask for the resources.
OcrChecked(job) ==
    /\ JobIs(job, "check", "Checking")
    /\ \/ /\ Dispatch([state EXCEPT !.ocr.phase = "Capturing"], workers)
          /\ ocrJobs' = (ocrJobs \ {job}) \cup {Job("capture", job.generation)}
       \/ /\ Dispatch([state EXCEPT !.ocr.phase = "DownloadRequired"], workers)
          /\ ocrJobs' = ocrJobs \ {job}
    /\ UNCHANGED <<captureInFlight, pending, gestures, uiVars, user>>

OcrCaptured(job) ==
    /\ JobIs(job, "capture", "Capturing")
    /\ ocrJobs' = (ocrJobs \ {job}) \cup {Job("overlay", job.generation)}
    /\ UNCHANGED <<state, captureInFlight, workers, registered, pending, gestures, uiVars, user>>

\* SelectionSubmitted: the popup appears and waits for the text.
SubmitRegion(job) ==
    /\ Free(UI)
    /\ JobIs(job, "overlay", "Capturing")
    /\ LET shown == PreparePopup(state, "Capturing", None, None) IN
       /\ Dispatch([shown EXCEPT !.ocr.phase = "Recognizing", !.ocr.popup = shown.active], workers)
       /\ Execute(UI, <<Show(shown.active)>>)
    /\ ocrJobs' = (ocrJobs \ {job}) \cup {Job("recognize", job.generation)}
    /\ UNCHANGED <<captureInFlight, gestures, uiVars, user>>

CancelRegion(job) ==
    /\ Free(UI)
    /\ JobIs(job, "overlay", "Capturing")
    /\ Dispatch(NewShot(state, "Idle"), workers)
    /\ ocrJobs' = ocrJobs \ {job}
    /\ UNCHANGED <<captureInFlight, pending, gestures, uiVars, user>>

\* Recognized: the worker goes on to translate the text in the popup of the request.
OcrRecognized(job) ==
    /\ JobIs(job, "recognize", "Recognizing")
    /\ state.nextTask < MaxTasks
    /\ LET id == state.ocr.popup
           s  == TranslateIn([state EXCEPT !.ocr.phase = "Translating"], id) IN
       IF id \in Live(state)
       THEN /\ Dispatch(s, Begun(s.nextTask, "starting", id))
            /\ Execute(s.nextTask, <<Translate(s.nextTask)>>)
       ELSE Dispatch(s, workers) /\ UNCHANGED pending
    /\ ocrJobs' = ocrJobs \ {job}
    /\ UNCHANGED <<captureInFlight, gestures, uiVars, user>>

\* A job fails, recognises no text or was cancelled by a newer generation.
OcrJobEnds(job) ==
    /\ \/ job.generation = state.ocr.generation /\ Dispatch(OcrFails(state), workers)
       \/ job.generation # state.ocr.generation /\ UNCHANGED <<state, workers, registered>>
    /\ ocrJobs' = ocrJobs \ {job}
    /\ UNCHANGED <<captureInFlight, pending, gestures, uiVars, user>>

DownloadOcr ==
    /\ "ocr" \in user.operations
    /\ Free(UI)
    /\ user.shots < MaxShots
    /\ user' = [user EXCEPT !.shots = @ + 1]
    /\ state.ocr.phase \in {"Idle", "Error", "DownloadRequired"}
    /\ LET s == NewShot(state, "Downloading") IN
       /\ Dispatch(s, workers)
       /\ ocrJobs' = ocrJobs \cup {Job("download", s.ocr.generation)}
    /\ UNCHANGED <<captureInFlight, pending, gestures, uiVars>>

OcrDownloaded(job) ==
    /\ JobIs(job, "download", "Downloading")
    /\ Dispatch([state EXCEPT !.ocr.phase = "Idle"], workers)
    /\ ocrJobs' = ocrJobs \ {job}
    /\ UNCHANGED <<captureInFlight, pending, gestures, uiVars, user>>

----------------------------------------
(* The selection toolbar: it offers the text of the last mouse selection.     *)

GesturesOk == "toolbar" \in user.operations

\* SelectionInteractionStarted, a dismissal, or the toolbar switched off.
DismissToolbar ==
    /\ GesturesOk
    /\ state.toolbar.generation < MaxGestures
    /\ Dispatch(ToolbarCleared(state), workers)
    /\ UNCHANGED <<captureInFlight, pending, ocrJobs, gestures, uiVars, user>>

SelectWithMouse ==
    /\ GesturesOk
    /\ state.toolbar.generation < MaxGestures
    /\ state.ocr.phase \notin {"Checking", "Capturing"}
    /\ Dispatch(ToolbarCleared(state), workers)
    /\ gestures' = gestures \cup {state.toolbar.generation + 1}
    /\ UNCHANGED <<captureInFlight, pending, ocrJobs, uiVars, user>>

\* Mutant: the generation of the capture is not compared.
LateToolbarCaptured(g) ==
    /\ g \in gestures
    /\ gestures' = gestures \ {g}
    /\ Dispatch([state EXCEPT !.toolbar.selection = g], workers)
    /\ UNCHANGED <<captureInFlight, pending, ocrJobs, uiVars, user>>

\* SelectionToolbarCaptured or SelectionToolbarCaptureEmpty.
ToolbarCaptured(g) ==
    /\ g \in gestures
    /\ gestures' = gestures \ {g}
    /\ \E selection \in {g, None} :
        Dispatch([state EXCEPT !.toolbar.selection =
                     IF g = state.toolbar.generation THEN selection ELSE @], workers)
    /\ UNCHANGED <<captureInFlight, pending, ocrJobs, uiVars, user>>

ToolbarTranslate ==
    /\ GesturesOk
    /\ MayBegin("toolbar")
    /\ Free(UI)
    /\ state.toolbar.selection # None
    /\ LET begun == BeginTask(ToolbarCleared(state), "Translating", state.nextTask + 1)
           s     == PreparePopup(begun, "Translating", begun.current, begun.current) IN
       /\ Dispatch(s, Begun(s.current, "starting", None))
       /\ Execute(UI, <<Show(s.active), Translate(s.current)>>)
    /\ UNCHANGED <<captureInFlight, ocrJobs, gestures, uiVars, user>>

\* SelectionToolbarCopyRequested.
ToolbarCopy ==
    /\ GesturesOk
    /\ Free(UI)
    /\ state.toolbar.selection # None
    /\ Dispatch(ToolbarCleared(state), workers)
    /\ UNCHANGED <<captureInFlight, pending, ocrJobs, gestures, uiVars, user>>

----------------------------------------
Init ==
    /\ state = [current |-> None, main |-> EmptyView, sessions |-> <<>>, active |-> None,
                nextTask |-> 0, nextSession |-> 0,
                ocr |-> [phase |-> "Idle", popup |-> None, generation |-> 0],
                toolbar |-> [generation |-> 0, selection |-> None]]
    /\ captureInFlight = FALSE
    /\ workers = [t \in Tasks |-> [stage |-> "none", session |-> None]]
    /\ registered = {}
    /\ pending = [thread \in Threads |-> <<>>]
    /\ ocrJobs = {}
    /\ gestures = {}
    /\ uiQueue = <<>>
    /\ windows = {}
    /\ unshown = {}
    /\ user \in [operations : Scenarios, shots : {0}]

User ==
    \/ PressHotkey
    \/ InputTranslation \/ EmptyInput \/ CloseMainWindow
    \/ \E id \in windows :
          \/ TranslatePopup(id) \/ TranslateEmptyPopup(id)
          \/ PinPopup(id) \/ UnpinPopup(id) \/ CloseWindow(id)
    \/ RequestOcr \/ RequestOcrWhileAnnotating \/ DownloadOcr
    \/ \E job \in ocrJobs : SubmitRegion(job) \/ CancelRegion(job)
    \/ DismissToolbar \/ SelectWithMouse \/ ToolbarTranslate \/ ToolbarCopy

CaptureWorker(t) == CaptureSelection(t) \/ SelectionCaptured(t) \/ SelectionNotCaptured(t)

Thread(thread) == StartTranslation(thread) \/ RegisterTranslation(thread) \/ PostToUi(thread)

TranslationWorker(t) == EndTranslation(t) \/ StopTranslation(t)

EventLoop == ShowWindow \/ HideWindow

OcrWorker(job) ==
    OcrChecked(job) \/ OcrCaptured(job) \/ OcrRecognized(job) \/ OcrDownloaded(job) \/ OcrJobEnds(job)

Next ==
    \/ User
    \/ \E t \in Tasks : CaptureWorker(t) \/ TranslationWorker(t) \/ ReportProgress(t)
    \/ \E thread \in Threads : Thread(thread)
    \/ EventLoop
    \/ \E job \in ocrJobs : OcrWorker(job)
    \/ \E g \in gestures : ToolbarCaptured(g)

Spec == Init /\ [][Next]_vars

\* Threads and workers are scheduled, the HTTP client has a time limit and a capture
\* returns; the user owes nothing.
Fairness ==
    /\ \A t \in Tasks : WF_vars(CaptureWorker(t)) /\ WF_vars(TranslationWorker(t))
    /\ \A thread \in Threads : WF_vars(Thread(thread))
    /\ WF_vars(EventLoop)

FairSpec == Spec /\ Fairness

----------------------------------------
(* Properties.                                                                *)

\* At most one popup is unpinned, and it is the one the next selection reuses,
\* whatever the order of pinning, unpinning, closing and capturing.
OnePassivePopup ==
    /\ \A i \in Passive(state) : i = state.active
    /\ state.active # None => state.active \in Passive(state)

\* A window never shows a translation, not even the beginning of one, that does not
\* belong to the source it shows: results of superseded requests are ignored.
ResultOfSource ==
    \A shown \in {state.main} \cup {[phase |-> state.sessions[i].phase,
                                     source |-> state.sessions[i].source,
                                     result |-> state.sessions[i].result] : i \in Live(state)} :
        shown.result # None => shown.result = shown.source

\* A worker dispatch can abort is one somebody waits for: a worker that was closed or
\* superseded between its request and its registration does not run on.
HandlesWanted == registered \subseteq Wanted(state)

Waiting(command) ==
    \E thread \in Threads : \E i \in DOMAIN pending[thread] : pending[thread][i] = command

\* The capture or translation worker runs and was not aborted, or the command that
\* starts it is to be executed.
AtWork(t) ==
    \/ workers[t].stage \in {"capturing", "captured", "empty", "failed", "running"}
    \/ Waiting(Translate(t))

\* A task somebody waits for is never one whose worker was aborted or ended: closing or
\* superseding one popup never kills the worker of another view.
WantedAtWork == \A t \in Wanted(state) : AtWork(t)

\* A worker nobody waits for is aborted, or will be when its thread registers it: a
\* closed or superseded request does not run on.
NoOrphanWorker ==
    \A t \in Tasks : workers[t].stage = "running" /\ t \notin Wanted(state) => Waiting(Register(t))

\* A popup that shows it is translating waits for a task, and one that shows it is
\* being captured is the popup of a recognition under way.
SpinnerHasWork ==
    \A i \in Live(state) :
        /\ state.sessions[i].phase = "Translating" => state.sessions[i].task # None
        /\ state.sessions[i].phase = "Capturing" =>
               state.ocr.popup = i /\ state.ocr.phase = "Recognizing"

OcrJobsNow == {job.kind : job \in {j \in ocrJobs : j.generation = state.ocr.generation}}

\* OCR never waits for an answer that cannot come: in each phase a job of the current
\* generation is under way, whatever was cancelled, closed or replaced before.
OcrAtWork ==
    /\ state.ocr.phase = "Checking"    => "check" \in OcrJobsNow
    /\ state.ocr.phase = "Capturing"   => {"capture", "overlay"} \cap OcrJobsNow # {}
    /\ state.ocr.phase = "Recognizing" => "recognize" \in OcrJobsNow
    /\ state.ocr.phase = "Downloading" => "download" \in OcrJobsNow

\* Whatever a window waits for is at work, and what nobody waits for is stopped: the four
\* above, in every order of closing, superseding, aborting and late reports.
WorkAccounted == WantedAtWork /\ NoOrphanWorker /\ SpinnerHasWork /\ OcrAtWork

\* The text of a pinned popup changes by a request made in that popup or by the
\* recognition it was opened for: a new selection or input never takes it over.
PinnedKeepsSource ==
    [][\A i \in Live(state) \cap Live(state') :
         LET old == state.sessions[i]
             new == state'.sessions[i] IN
         (old.pinned /\ new.source # old.source) =>
            (new.source \in DOMAIN workers' /\ workers'[new.source].session = i)]_vars

\* A recognised text is translated only in a popup that still waits for it, not in one
\* that was given to a newer selection meanwhile.
RecognitionKeepsPopup ==
    [][(/\ state.ocr.phase = "Recognizing" /\ state'.ocr.phase = "Translating"
        /\ state.ocr.popup \in Live(state)) =>
         state.sessions[state.ocr.popup].phase = "Capturing"]_vars

\* The toolbar offers only the text of the last selection, and none that was
\* dismissed, replaced, translated or copied.
ToolbarOffersLatest ==
    state.toolbar.selection # None => state.toolbar.selection = state.toolbar.generation

\* The shortcut is refused only while a capture is in flight.
GateClosedByCapture ==
    captureInFlight => \E t \in Tasks : workers[t].stage = "capturing"

\* Every thread and the event loop are done.
Quiet == uiQueue = <<>> /\ \A thread \in Threads : Free(thread)

\* A popup of the core is never left without its window by commands of several
\* threads: once they are executed its window is shown, unless the platform failed to.
PopupsShown == Quiet => Live(state) \subseteq windows \cup unshown

\* Windows exist only for live popups: a window never outlives its popup.
WindowsLive == Quiet => windows \subseteq Live(state)

\* Every translation somebody waits for ends, and the shortcut works again after a capture.
EveryTranslationEnds ==
    /\ \A t \in Tasks : t \in Wanted(state) ~> t \notin Wanted(state)
    /\ captureInFlight ~> ~captureInFlight
========================================
