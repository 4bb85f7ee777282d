------------------------------ MODULE Screenshots ------------------------------
(***************************************************************************)
(* Screenshots and the images pinned from them: the reducers                *)
(* (domain/screenshot.rs, domain/pinned_image.rs), the runtime that owns    *)
(* the pixels and starts the workers (app/screenshot.rs), and on the event  *)
(* loop the flow that lends the annotation editor to a screenshot           *)
(* (annotation/screenshot.rs) or to a pinned image (annotation/             *)
(* pin_editor.rs) and the windows of the pinned images                      *)
(* (pinned_screenshot.rs).                                                  *)
(*                                                                          *)
(* A dispatch is one step: the transition, the sync of the runtime and the  *)
(* posting of the snapshot happen under the lock of the state.  A worker    *)
(* executes the commands of its dispatch in a later step; on the event loop *)
(* they follow at once.  What is posted to the event loop is run in order,  *)
(* with timers and the ends of workers in between; an input comes after     *)
(* what was posted before it, as Windows delivers them.                     *)
(*                                                                          *)
(* There is one editor.  Whose document it holds is modelled, its content   *)
(* is not; nor are geometry, toasts, menus, quitting and threads that       *)
(* cannot be started.                                                       *)
(***************************************************************************)
EXTENDS Integers, Sequences, FiniteSets, Functions, SequencesExt

CONSTANTS
    MaxShots,       \* bound: screenshots
    MaxOutputs,     \* bound: outputs of a screenshot
    MaxOperations,  \* bound: edits and outputs of a pin
    MaxRevisions,   \* bound: pictures of a pin
    MaxFailures,    \* bound: editors and windows that cannot be shown
    UserDoes        \* the inputs the user makes, and before or during which screenshots

ASSUME MaxShotsAssumption      == MaxShots \in Nat
ASSUME MaxOutputsAssumption    == MaxOutputs \in Nat
ASSUME MaxOperationsAssumption == MaxOperations \in Nat
ASSUME MaxRevisionsAssumption  == MaxRevisions \in Nat
ASSUME MaxFailuresAssumption   == MaxFailures \in Nat

VARIABLES
    core,       \* AppState.screenshot and pinned_images, the runtime and what is posted
    view,       \* what the event loop owns
    jobs,       \* workers
    failures

vars == <<core, view, jobs, failures>>

None  == [none |-> TRUE]
Empty == [x \in {} |-> None]

Put(f, x, y)  == [z \in DOMAIN f \cup {x} |-> IF z = x THEN y ELSE f[z]]
Without(f, x) == Restrict(f, DOMAIN f \ {x})

----------------------------------------
(* The reducer of screenshots.  A transition maps the core to the core, with *)
(* the commands it issues in cmds.                                           *)

Issue(c, cmds)    == [c EXCEPT !.cmds = @ \o cmds]
Phase(c, phase)   == [c EXCEPT !.shot.phase = phase]
Active(c)         == c.shot.phase # "Idle"
Is(c, s, phase)   == c.shot.session = s /\ c.shot.phase = phase

\* Requested.  A running export refuses it without a trace.
Requested(c) ==
    IF Active(c) THEN c
    ELSE LET s == c.shot.session + 1 IN
         Issue([c EXCEPT !.shot = [session |-> s, phase |-> "Preparing", operation |-> 0, bounds |-> 0]],
               <<[k |-> "Prepare", session |-> s]>>)

Prepared(c, s, ok) ==
    IF ~Is(c, s, "Preparing") THEN c
    ELSE IF ok THEN Issue(Phase(c, "Selecting"), <<[k |-> "Show", session |-> s]>>)
    ELSE Issue(Phase(c, "Idle"), <<[k |-> "Restore", session |-> s]>>)

Selected(c, s, bounds) ==
    IF Is(c, s, "Selecting") \/ Is(c, s, "Editing")
    THEN [Phase(c, "Editing") EXCEPT !.shot.bounds = bounds] ELSE c

\* Output: refused while the region the editor shows is not the one last selected.
OutputRequested(c, s, operation, kind, bounds) ==
    IF Is(c, s, "Editing") /\ operation > c.shot.operation /\ c.shot.bounds = bounds
    THEN Issue([Phase(c, "Output") EXCEPT !.shot.operation = operation],
               <<[k |-> "Output", session |-> s, operation |-> operation, kind |-> kind]>>)
    ELSE c

Completed(c, s, operation, result) ==
    IF ~Is(c, s, "Output") \/ c.shot.operation # operation THEN c
    ELSE IF result = "saved" THEN Issue(Phase(c, "Idle"), <<[k |-> "Restore", session |-> s]>>)
    ELSE Phase(c, "Editing")

\* Cancelled and Failed; opening the settings window cancels as well.
Ended(c, s) ==
    IF c.shot.session = s /\ Active(c)
    THEN Issue(Phase(c, "Idle"), <<[k |-> "Restore", session |-> s]>>) ELSE c

----------------------------------------
(* The reducer of pinned images.                                             *)

\* Of its errors only the revision whose preview failed is kept.
NewPin == [operation |-> 0, busy |-> FALSE, hidden |-> FALSE, editing |-> 0,
           revision |-> 0, failed |-> 0, lastEdit |-> 0, document |-> None]

Has(c, id)         == id \in DOMAIN c.pins
EditsIn(c, id, edit) == Has(c, id) /\ c.pins[id].editing = edit
EndEditCmd(id, edit) == [k |-> "EndEdit", id |-> id, edit |-> edit]
RenderCmd(c, id)     == [k |-> "Render", id |-> id, revision |-> c.pins[id].revision]

\* EditFailed and EditFinished.
EditEnded(c, id, edit) ==
    IF ~EditsIn(c, id, edit) THEN c
    ELSE Issue([c EXCEPT !.pins[id].editing = 0], <<EndEditCmd(id, edit)>>)

PreviewFailed(c, id, revision) ==
    IF Has(c, id) /\ c.pins[id].revision = revision THEN [c EXCEPT !.pins[id].failed = revision] ELSE c

\* EditRequested: the edit of any other pin ends first.
EditRequested(c, id) ==
    IF Active(c) \/ ~Has(c, id) \/ c.pins[id].busy \/ c.pins[id].editing # 0 \/ c.pins[id].document = None
    THEN c
    ELSE LET edit   == c.pins[id].operation + 1
             others == {other \in DOMAIN c.pins : c.pins[other].editing # 0}
             quiet  == [p \in DOMAIN c.pins |-> [c.pins[p] EXCEPT !.editing = 0]]
             pin    == [c.pins[id] EXCEPT !.operation = edit, !.editing = edit,
                                          !.lastEdit = edit, !.hidden = FALSE]
             begun  == [c EXCEPT !.pins = [quiet EXCEPT ![id] = pin]]
         IN Issue(begun, SetToSeq({EndEditCmd(other, c.pins[other].editing) : other \in others})
                           \o <<[k |-> "BeginEdit", id |-> id, edit |-> edit]>>)

\* A document is [session, request]; only a later one of the last edit is taken.
DocumentChanged(c, id, document) ==
    IF \/ ~Has(c, id)
       \/ LET old == c.pins[id].document IN
          old # None /\ (document.request <= old.request \/ document.session # c.pins[id].lastEdit)
    THEN c
    ELSE LET pin     == c.pins[id]
             changed == [c EXCEPT !.pins[id] = [pin EXCEPT !.document = document,
                                                           !.revision = pin.revision + 1]]
         IN Issue(changed, <<RenderCmd(changed, id)>>)

VisibilityChanged(c, id, hidden) ==
    IF ~Has(c, id) \/ c.pins[id].hidden = hidden THEN c
    ELSE LET pin     == c.pins[id]
             shown   == pin.document # None
             changed == [c EXCEPT !.pins[id] =
                           [pin EXCEPT !.hidden = hidden, !.editing = 0,
                                       !.revision = IF shown THEN pin.revision + 1 ELSE pin.revision]]
         IN Issue(changed, (IF pin.editing # 0 THEN <<EndEditCmd(id, pin.editing)>> ELSE <<>>)
                             \o (IF shown THEN <<RenderCmd(changed, id)>> ELSE <<>>))

\* Opened: kept when the output that made it is still the current one.
Opened(c, id, source) ==
    IF Has(c, id) THEN c
    ELSE IF id > c.lastPin /\ Is(c, source[1], "Output") /\ c.shot.operation = source[2]
    THEN Issue([c EXCEPT !.lastPin = id, !.pins = Put(@, id, NewPin)],
               <<[k |-> "Retain", id |-> id, source |-> source]>>)
    ELSE Issue(c, <<[k |-> "Drop", id |-> id]>>)

PinOutputRequested(c, id) ==
    IF ~Has(c, id) \/ c.pins[id].busy THEN c
    ELSE LET operation == c.pins[id].operation + 1 IN
         Issue([c EXCEPT !.pins[id] = [@ EXCEPT !.operation = operation, !.busy = TRUE]],
               <<[k |-> "PinOutput", id |-> id, operation |-> operation]>>)

PinCompleted(c, id, operation) ==
    IF Has(c, id) /\ c.pins[id].busy /\ c.pins[id].operation = operation
    THEN [c EXCEPT !.pins[id].busy = FALSE] ELSE c

Closed(c, id) ==
    IF ~Has(c, id) THEN c
    ELSE Issue([c EXCEPT !.pins = Without(@, id)],
               (IF c.pins[id].editing # 0 THEN <<EndEditCmd(id, c.pins[id].editing)>> ELSE <<>>)
                 \o <<[k |-> "Drop", id |-> id]>>)

----------------------------------------
(* The runtime.                                                              *)

Post(c, closure) == [c EXCEPT !.queue = Append(@, closure)]

\* sync and sync_pins: what belongs to no session and no pin is dropped, which also
\* cancels its workers; then the snapshot is posted.
Sync(c) ==
    LET s    == c.shot
        kept == DOMAIN c.pins
        lost == c.held # None /\ (c.held.session # s.session \/ ~Active(c))
    IN Post([c EXCEPT
              !.pending  = {source \in c.pending : Active(c) /\ source = <<s.session, s.operation>>},
              !.held     = IF lost THEN None ELSE c.held,
              !.images   = c.images \cap kept,
              !.previews = Restrict(c.previews, DOMAIN c.previews \cap kept),
              !.outputs  = Restrict(c.outputs, {id \in DOMAIN c.outputs \cap kept : c.pins[id].busy})],
            [k |-> "Sync", shot |-> s, pins |-> c.pins])

\* execute and execute_pin.  A worker is started by adding it to spawned.
Spawn(c, job) == [c EXCEPT !.spawned = @ \cup {job}]

\* Mutant: the images of a pin are looked up once it is named by its window.
ForgetfulRetain(c, cmd) == [c EXCEPT !.pending = @ \ {cmd.source}]

Retain(c, cmd) ==
    IF cmd.source \in c.pending
    THEN [c EXCEPT !.pending = @ \ {cmd.source}, !.images = @ \cup {cmd.id}] ELSE c

Holds(c, s) == c.held # None /\ c.held.session = s /\ c.held.frames

Execute(c, cmd) ==
    CASE cmd.k = "Prepare" ->
           Spawn(Post([c EXCEPT !.held = [session |-> cmd.session, frames |-> FALSE]],
                      [k |-> "Suspend", session |-> cmd.session]),
                 [k |-> "prepare", session |-> cmd.session])
      [] cmd.k = "Show" -> IF Holds(c, cmd.session) THEN Post(c, cmd) ELSE c
      [] cmd.k \in {"Restore", "BeginEdit", "EndEdit"} -> Post(c, cmd)
      [] cmd.k = "Output" ->
           IF Holds(c, cmd.session)
           THEN Spawn(c, [k |-> "output", session |-> cmd.session, operation |-> cmd.operation,
                          kind |-> cmd.kind])
           ELSE c
      [] cmd.k = "Render" ->
           IF cmd.id \in c.images
           THEN Spawn([c EXCEPT !.previews = Put(@, cmd.id, cmd.revision)],
                      [k |-> "preview", id |-> cmd.id, revision |-> cmd.revision])
           ELSE c
      [] cmd.k = "Retain" -> Retain(c, cmd)
      [] cmd.k = "Drop" ->
           Post([c EXCEPT !.images = @ \ {cmd.id}, !.outputs = Without(@, cmd.id)],
                [k |-> "ClosePin", id |-> cmd.id])
      [] cmd.k = "PinOutput" ->
           IF cmd.id \in c.images
           THEN Spawn([c EXCEPT !.outputs = Put(@, cmd.id, cmd.operation)],
                      [k |-> "pin output", id |-> cmd.id, operation |-> cmd.operation])
           ELSE Sync(PinCompleted(c, cmd.id, cmd.operation))

ExecuteAll(c, cmds) ==
    LET run[n \in 0..Len(cmds)] == IF n = 0 THEN c ELSE Execute(run[n - 1], cmds[n])
    IN run[Len(cmds)]
Settled(c)          == [Sync(c) EXCEPT !.cmds = <<>>]

\* The event loop dispatches: w is the core together with the view, after is the core
\* after the transition.  An event that changes nothing posts the snapshot it posted before.
Emit(w, after) ==
    IF after = w.core THEN w
    ELSE [w EXCEPT !.core = ExecuteAll(Settled(after), after.cmds)]

----------------------------------------
(* The event loop: functions of w, the core together with the view.          *)
(*                                                                           *)
(* view.flow      the snapshot of the screenshot last synced                 *)
(* view.registry  the editor: the document it holds, whether its toolbar is  *)
(*                open, what it edits, and whether its capture is live or    *)
(*                the frozen one of a screenshot or pin                      *)
(* view.recovery, view.active   what is put back when a screenshot, an edit  *)
(*                of a pin ends                                              *)
(* view.stored    DOCUMENTS: the document of each pin and its last request   *)
(* view.windows   the windows of the pins; view.next their numbers           *)
(* view.host      the screenshot whose region is being selected              *)
(* view.timers    deferred calls; view.drawn: the desktop has been drawn on  *)

Defer(w, timer) == [w EXCEPT !.view.timers = @ \cup {timer}]
Document(w, d)  == [w EXCEPT !.view.registry.document = d]
Editing(w, e)   == [w EXCEPT !.view.registry.editing = e]

\* Registry::close: ends what is edited by a deferred event and clears the document.  That
\* of a pin is kept aside first.
RegistryClose(w) ==
    LET editing == w.view.registry.editing
        cleared == [w EXCEPT !.view.registry = [@ EXCEPT !.document = "blank", !.editing = None,
                                                         !.open = FALSE]]
    IN IF editing = None THEN cleared
       ELSE IF editing.k = "shot" THEN Defer(cleared, [k |-> "shot failed", session |-> editing.session])
       ELSE Defer(IF editing.id \in DOMAIN w.view.stored
                  THEN [cleared EXCEPT !.view.stored[editing.id].document = w.view.registry.document]
                  ELSE cleared,
                  [k |-> "edit failed", id |-> editing.id, edit |-> editing.edit])

FinishEdit(w) == Emit(w, EditEnded(w.core, w.view.active.id, w.view.active.edit))

CloseEditor(w) == IF w.view.active # None THEN FinishEdit(w) ELSE RegistryClose(w)

Toggle(w) ==
    IF w.view.registry.open THEN CloseEditor(w) ELSE [w EXCEPT !.view.registry.open = TRUE]

\* Mutant: a screenshot whose editor was closed in the meantime is forgotten.
SilentSuspend(w, s) ==
    IF w.view.flow.session # s \/ w.view.flow.phase # "Preparing" \/ w.view.recovery # None THEN w
    ELSE IF ~w.view.registry.open THEN w
    ELSE LET held == w.view.registry IN
         RegistryClose(Document([w EXCEPT !.view.recovery = [document |-> held.document,
                                                             capture |-> held.capture]], "blank"))

\* suspend: the document of the desktop is put aside before the screen is captured.
Suspend(w, s) ==
    IF w.view.flow.session # s \/ w.view.flow.phase # "Preparing" \/ w.view.recovery # None THEN w
    ELSE IF ~w.view.registry.open THEN Emit(w, Ended(w.core, s))
    ELSE LET held == w.view.registry IN
         RegistryClose(Document([w EXCEPT !.view.recovery = [document |-> held.document,
                                                             capture |-> held.capture]], "blank"))

Show(w, s) ==
    IF w.view.flow.session = s /\ w.view.flow.phase = "Selecting" /\ w.view.recovery # None
    THEN [w EXCEPT !.view.host = s] ELSE w

\* Mutant: the document that was put aside stays there until the next screenshot.
LazyRestore(w, s) ==
    IF w.view.flow.session # s \/ w.view.recovery = None THEN w
    ELSE Toggle(RegistryClose(Editing([w EXCEPT !.view.host = 0], None)))

\* restore: the editor gets the document and the live capture of the desktop back.
Restore(w, s) ==
    IF w.view.flow.session # s \/ w.view.recovery = None THEN w
    ELSE LET desktop == w.view.recovery
             closed  == RegistryClose(Editing([w EXCEPT !.view.recovery = None, !.view.host = 0], None))
         IN Toggle([closed EXCEPT !.view.registry.document = desktop.document,
                                  !.view.registry.capture = desktop.capture])

OutputCurrent(w, source) ==
    w.view.flow.phase = "Output" /\ source = <<w.view.flow.session, w.view.flow.operation>>

\* show_document and install: a window being prepared, and its document.
ShowPin(w, source) ==
    IF ~OutputCurrent(w, source) THEN w
    ELSE LET id       == w.view.next + 1
             document == [session |-> source[1], request |-> source[2]] IN
         [w EXCEPT !.view.next = id,
                   !.view.windows = Put(@, id, [phase |-> "Preparing", source |-> source, revision |-> 0,
                                                picture |-> 0, editing |-> FALSE]),
                   !.view.stored = Put(@, id, [document |-> "pin", published |-> document])]

CloseWindow(w, id) ==
    LET gone == [w EXCEPT !.view.stored = Without(@, id), !.view.windows = Without(@, id)] IN
    Emit(gone, Closed(gone.core, id))

RequestClose(w, id) ==
    IF id \notin DOMAIN w.view.windows \/ w.view.windows[id].phase = "Closing" THEN w
    ELSE LET closing == Defer([w EXCEPT !.view.windows[id].phase = "Closing"],
                              [k |-> "close window", id |-> id]) IN
         Emit(closing, Closed(closing.core, id))

\* edit_window.
EditWindow(w, id, editing) ==
    IF id \notin DOMAIN w.view.windows THEN w
    ELSE [w EXCEPT !.view.windows[id].editing = editing,
                   !.view.windows[id].picture = IF editing THEN 0 ELSE @]

\* publish: the document of the edit as the core will know it.
Publish(w, id) ==
    LET editing == w.view.registry.editing IN
    IF editing = None \/ editing.k # "pin" \/ editing.id # id \/ id \notin DOMAIN w.view.stored THEN w
    ELSE LET document == [session |-> editing.edit, request |-> w.view.stored[id].published.request + 1] IN
         LET kept == [w EXCEPT !.view.stored[id].published = document] IN
         Emit(kept, DocumentChanged(kept.core, id, document))

\* Mutant: the document is published after the editor was given back.
TardyEnd(w, id, edit) ==
    LET a == w.view.active IN
    IF a = None \/ a.id # id \/ a.edit # edit THEN w
    ELSE LET w1 == [w EXCEPT !.view.active = None]
             editing == w1.view.registry.editing
             w2 == IF editing # None /\ editing.k = "pin" /\ editing.id = id /\ editing.edit = edit
                   THEN RegistryClose(Editing(Document(
                          IF id \in DOMAIN w1.view.stored
                          THEN [w1 EXCEPT !.view.stored[id].document = w1.view.registry.document]
                          ELSE w1, "blank"), None))
                   ELSE w1
             w3 == EditWindow([w2 EXCEPT !.view.registry.document = a.document,
                                         !.view.registry.capture = a.capture], id, FALSE)
         IN Publish(IF a.open THEN Toggle(w3) ELSE w3, id)

\* end: publishes, stores the document of the pin and gives the editor back.
End(w, id, edit) ==
    LET a == w.view.active IN
    IF a = None \/ a.id # id \/ a.edit # edit THEN w
    ELSE LET w1 == Publish([w EXCEPT !.view.active = None], id)
             editing == w1.view.registry.editing
             w2 == IF editing # None /\ editing.k = "pin" /\ editing.id = id /\ editing.edit = edit
                   THEN RegistryClose(Editing(Document(
                          IF id \in DOMAIN w1.view.stored
                          THEN [w1 EXCEPT !.view.stored[id].document = w1.view.registry.document]
                          ELSE w1, "blank"), None))
                   ELSE w1
             w3 == EditWindow([w2 EXCEPT !.view.registry.document = a.document,
                                         !.view.registry.capture = a.capture], id, FALSE)
         IN IF a.open THEN Toggle(w3) ELSE w3

\* finish_now: the core hears of it, and the editor is free at once.
FinishNow(w) ==
    IF w.view.active = None THEN w
    ELSE LET a == w.view.active IN End(FinishEdit(w), a.id, a.edit)

\* begin: any other edit ends; the desktop is put aside and the editor gets the pin.
BeginEdit(w, id, edit) ==
    LET w1 == IF w.view.active = None THEN w ELSE End(w, w.view.active.id, w.view.active.edit)
        windows == w1.view.windows
    IN IF \/ id \notin DOMAIN windows \/ windows[id].phase # "Visible"
          \/ id \notin DOMAIN w1.view.stored
       THEN Emit(w1, EditEnded(w1.core, id, edit))
       ELSE LET held == w1.view.registry
                w2   == RegistryClose(Document(w1, "blank"))
                w3   == [w2 EXCEPT
                          !.view.active = [id |-> id, edit |-> edit, open |-> held.open,
                                           document |-> held.document, capture |-> held.capture],
                          !.view.registry = [@ EXCEPT !.document = w2.view.stored[id].document,
                                                      !.editing = [k |-> "pin", id |-> id, edit |-> edit],
                                                      !.capture = "frozen"],
                          !.view.stored[id].document = "blank"]
            IN Toggle(EditWindow(w3, id, TRUE))

\* sync and sync_outputs.
SyncView(w, snapshot) ==
    [w EXCEPT !.view.flow = snapshot.shot,
              !.view.windows = [id \in DOMAIN @ |->
                  IF id \in DOMAIN snapshot.pins
                  THEN [@[id] EXCEPT !.revision = snapshot.pins[id].revision] ELSE @[id]]]

\* present: only the latest preview, and not over an edit.
Present(w, id, revision) ==
    IF /\ id \in DOMAIN w.view.windows
       /\ w.view.windows[id].phase = "Visible" /\ ~w.view.windows[id].editing
       /\ w.view.windows[id].revision = revision
    THEN [w EXCEPT !.view.windows[id].picture = revision] ELSE w

----------------------------------------
(* Actions.                                                                  *)

World == [core |-> core, view |-> view]

\* A step of the event loop; the workers it starts join the others.
Do(w) ==
    /\ core' = [w.core EXCEPT !.spawned = {}]
    /\ view' = w.view
    /\ jobs' = jobs \cup w.core.spawned

\* A worker dispatches: its commands are executed later, in a step of their own.
Dispatch(job, after) ==
    IF after = core THEN core' = core /\ view' = view /\ jobs' = jobs \ {job}
    ELSE /\ core' = Settled(after)
         /\ jobs' = (jobs \ {job}) \cup (IF after.cmds = <<>> THEN {} ELSE {[k |-> "commands", cmds |-> after.cmds]})
         /\ UNCHANGED view

\* What is posted runs in order.
Run(w, closure) ==
    CASE closure.k = "Sync"      -> SyncView(w, closure)
      [] closure.k = "Suspend"   -> Suspend(w, closure.session)
      [] closure.k = "Show"      -> Show(w, closure.session)
      [] closure.k = "Restore"   -> Restore(w, closure.session)
      [] closure.k = "ShowPin"   -> ShowPin(w, closure.source)
      [] closure.k = "ClosePin"  -> RequestClose(w, closure.id)
      [] closure.k = "BeginEdit" -> BeginEdit(w, closure.id, closure.edit)
      [] closure.k = "EndEdit"   -> End(w, closure.id, closure.edit)
      [] closure.k = "Present"   -> Present(w, closure.id, closure.revision)

RunPosted ==
    /\ core.queue # <<>>
    /\ Do(Run([World EXCEPT !.core.queue = Tail(@)], Head(core.queue)))
    /\ UNCHANGED failures

\* Deferred calls.
Fire(timer) ==
    LET w == [World EXCEPT !.view.timers = @ \ {timer}] IN
    /\ timer \in view.timers
    /\ Do(CASE timer.k = "shot failed"  -> Emit(w, Ended(w.core, timer.session))
            [] timer.k = "region"       -> Emit(w, Selected(w.core, timer.session, timer.bounds))
            [] timer.k = "close window" -> CloseWindow(w, timer.id)
            [] timer.k = "edit failed"  ->
                 LET told == Emit(w, EditEnded(w.core, timer.id, timer.edit)) IN
                 End(told, timer.id, timer.edit))
    /\ UNCHANGED failures

\* prepare: polled until the native window is ready or twenty attempts have passed.
WindowReady(id) ==
    /\ id \in DOMAIN view.windows
    /\ view.windows[id].phase = "Preparing"
    /\ LET source == view.windows[id].source IN
       IF ~OutputCurrent(World, source) THEN Do(CloseWindow(World, id)) /\ UNCHANGED failures
       ELSE \/ LET w1 == [World EXCEPT !.view.windows[id].phase = "Visible"]
                   w2 == Emit(w1, Opened(w1.core, id, source))
                   w3 == Emit(w2, DocumentChanged(w2.core, id, w2.view.stored[id].published))
               IN Do(Emit(w3, Completed(w3.core, source[1], source[2], "saved"))) /\ UNCHANGED failures
            \/ /\ failures < MaxFailures
               /\ failures' = failures + 1
               /\ LET w1 == CloseWindow(World, id) IN
                  Do(Emit(w1, Completed(w1.core, source[1], source[2], "failed")))

\* The toolbar or a canvas cannot be created or is lost.  What is drawn on the desktop is
\* lost with it, unless a screenshot or a pin is being edited.
EditorFails ==
    /\ failures < MaxFailures
    /\ view.registry.open
    /\ failures' = failures + 1
    /\ Do([RegistryClose(World) EXCEPT !.view.drawn = @ /\ view.registry.document # "desktop"])

(* Inputs.                                                                   *)

Input(name) == core.shot.session \in UserDoes[name] /\ core.queue = <<>> /\ UNCHANGED failures

Busy(w) == w.view.flow.phase # "Idle" \/ w.view.recovery # None

\* Annotation is opened, or what it does is ended.
ToggleAnnotation ==
    /\ Input("toggle")
    /\ Do(IF view.active # None THEN FinishNow(World)
          ELSE IF Busy(World) THEN Emit(World, Ended(core, view.flow.session))
          ELSE [Toggle(World) EXCEPT !.view.drawn = @ /\ ~view.registry.open])

\* The toolbar's window is closed; Finish and Escape cancel a screenshot instead.
CloseToolbar ==
    /\ Input("close toolbar")
    /\ view.registry.open
    /\ Do([CloseEditor(World) EXCEPT !.view.drawn = @ /\ view.registry.document # "desktop"])

Draw ==
    /\ Input("draw")
    /\ view.registry.open /\ view.registry.editing = None /\ view.registry.document = "blank"
    /\ Do([Document(World, "desktop") EXCEPT !.view.drawn = TRUE])

RequestShot ==
    /\ Input("shot")
    /\ view.registry.open
    /\ core.shot.session < MaxShots
    /\ LET w == FinishNow(World) IN
       Do(IF Busy(w) \/ ~w.view.registry.open THEN w ELSE Emit(w, Requested(w.core)))

\* The selection host: a region, an escape or a failure.
SelectRegion ==
    /\ Input("select")
    /\ view.host # 0
    /\ \/ LET w1 == Emit(World, Selected(core, view.host, 1))
              w2 == [w1 EXCEPT !.view.host = 0,
                               !.view.registry.editing = [k |-> "shot", session |-> view.host, region |-> 1],
                               !.view.registry.capture = "frozen"]
          IN Do(Toggle(w2))
       \/ Do(Emit(World, Ended(core, view.flow.session)))

EditsShot == view.registry.editing # None /\ view.registry.editing.k = "shot"

\* The region is dragged to another place; the core is told by a timer.
DragRegion ==
    /\ Input("drag")
    /\ EditsShot /\ view.flow.phase # "Output"
    /\ view.registry.editing.region = 1
    /\ Do(Defer([World EXCEPT !.view.registry.editing.region = 2],
                [k |-> "region", session |-> view.registry.editing.session, bounds |-> 2]))

RequestOutput(kind) ==
    /\ Input(kind)
    /\ EditsShot
    /\ view.flow.phase = "Editing"
    /\ view.registry.editing.session = view.flow.session
    /\ view.flow.operation < MaxOutputs
    /\ Do(Emit(World, OutputRequested(core, view.flow.session, view.flow.operation + 1, kind,
                                      view.registry.editing.region)))

\* Cancelled by Escape, by the toolbar or by opening the settings window.
CancelShot ==
    /\ Input("cancel")
    /\ core.shot.phase # "Idle"
    /\ Do(Emit(World, Ended(core, core.shot.session)))

Room(id) == Has(core, id) => core.pins[id].operation < MaxOperations /\ core.pins[id].revision < MaxRevisions

Shown(id) == id \in DOMAIN view.windows /\ view.windows[id].phase = "Visible" /\ ~Busy(World)

AnnotatePin(id) ==
    /\ Input("annotate")
    /\ Shown(id) /\ Room(id)
    /\ Do(Emit(World, EditRequested(core, id)))

HidePin(id) ==
    /\ Input("hide")
    /\ Shown(id) /\ Room(id)
    /\ \E hidden \in BOOLEAN : Do(Emit(World, VisibilityChanged(core, id, hidden)))

\* Copy or save: of the pin being edited what is drawn so far.
OutputPin(id) ==
    /\ Input("output pin")
    /\ Shown(id) /\ Room(id)
    /\ Has(core, id) => ~core.pins[id].busy
    /\ LET w == IF view.active # None /\ view.active.id = id THEN Publish(World, id) ELSE World IN
       Do(Emit(w, PinOutputRequested(w.core, id)))

ClosePin(id) ==
    /\ Input("close pin")
    /\ Shown(id)
    /\ Do(RequestClose(World, id))

(* Workers.                                                                  *)

Keeps(job) == core.held # None /\ core.held.session = job.session

\* The screen is captured and composed; the frames are kept if the session still wants them.
PrepareShot(job) ==
    /\ job.k = "prepare"
    /\ \E ok \in IF Keeps(job) THEN BOOLEAN ELSE {FALSE} :
         LET kept == IF ok THEN [core EXCEPT !.held.frames = TRUE] ELSE core IN
         IF Prepared(kept, job.session, ok) = core
         THEN core' = core /\ jobs' = jobs \ {job} /\ UNCHANGED view
         ELSE Dispatch(job, Prepared(kept, job.session, ok))
    /\ UNCHANGED failures

\* Copied, saved, the dialog cancelled, or failed; a cancelled session is cancelled.
WriteShot(job) ==
    /\ job.k = "output" /\ job.kind # "pin"
    /\ \E result \in IF Keeps(job) THEN {"saved", "cancelled", "failed"} ELSE {"cancelled", "failed"} :
         Dispatch(job, Completed(core, job.session, job.operation, result))
    /\ UNCHANGED failures

\* The pixels wait under the output until its window is shown.  Only a failure is told.
PinShot(job) ==
    /\ job.k = "output" /\ job.kind = "pin"
    /\ LET source == <<job.session, job.operation>> IN
       \/ /\ core' = IF Keeps(job)
                     THEN Post([core EXCEPT !.pending = @ \cup {source}],
                               [k |-> "ShowPin", source |-> source])
                     ELSE core
          /\ jobs' = jobs \ {job} /\ UNCHANGED view
       \/ Dispatch(job, Completed(core, job.session, job.operation, "failed"))
    /\ UNCHANGED failures

PreviewPin(job) ==
    /\ job.k = "preview"
    /\ IF job.id \notin DOMAIN core.previews \/ core.previews[job.id] # job.revision
       THEN core' = core /\ jobs' = jobs \ {job} /\ UNCHANGED view
       ELSE \/ /\ core' = Post(core, [k |-> "Present", id |-> job.id, revision |-> job.revision])
               /\ jobs' = jobs \ {job} /\ UNCHANGED view
            \/ Dispatch(job, PreviewFailed(core, job.id, job.revision))
    /\ UNCHANGED failures

WritePin(job) ==
    /\ job.k = "pin output"
    /\ Dispatch(job, PinCompleted(core, job.id, job.operation))
    /\ UNCHANGED failures

ExecuteCommands(job) ==
    /\ job.k = "commands"
    /\ LET after == ExecuteAll(core, job.cmds) IN
       /\ core' = [after EXCEPT !.spawned = {}]
       /\ jobs' = (jobs \ {job}) \cup after.spawned
    /\ UNCHANGED <<view, failures>>

Worker(job) ==
    \/ PrepareShot(job) \/ WriteShot(job) \/ PinShot(job)
    \/ PreviewPin(job) \/ WritePin(job) \/ ExecuteCommands(job)

EventLoop ==
    \/ RunPosted
    \/ \E timer \in view.timers : Fire(timer)
    \/ \E id \in DOMAIN view.windows : WindowReady(id)
    \/ EditorFails

User ==
    \/ ToggleAnnotation \/ CloseToolbar \/ Draw
    \/ RequestShot \/ SelectRegion \/ DragRegion \/ CancelShot
    \/ \E kind \in {"copy", "pin"} : RequestOutput(kind)
    \/ \E id \in DOMAIN view.windows : AnnotatePin(id) \/ HidePin(id) \/ OutputPin(id) \/ ClosePin(id)

Init ==
    /\ core = [shot |-> [session |-> 0, phase |-> "Idle", operation |-> 0, bounds |-> 0],
               pins |-> Empty, lastPin |-> 0, cmds |-> <<>>, spawned |-> {}, queue |-> <<>>,
               held |-> None, pending |-> {}, images |-> {}, previews |-> Empty, outputs |-> Empty]
    /\ view = [flow |-> core.shot, recovery |-> None, active |-> None, stored |-> Empty,
               windows |-> Empty, next |-> 0, host |-> 0, timers |-> {}, drawn |-> FALSE,
               registry |-> [document |-> "blank", open |-> FALSE, editing |-> None,
                             capture |-> "live"]]
    /\ jobs = {}
    /\ failures = 0

Next == EventLoop \/ User \/ \E job \in jobs : Worker(job)

Spec == Init /\ [][Next]_vars

----------------------------------------
(* Properties.                                                               *)

Quiet == core.queue = <<>> /\ view.timers = {} /\ jobs = {}
Idle  == Quiet /\ ~Busy(World) /\ view.active = None

\* What is drawn on the desktop is never lost by a screenshot or the edit of a pin, nor
\* held twice: it is in the editor, put aside for the screenshot or put aside for the edit.
\* When both are over the editor has it back, with the live capture.
DesktopKept ==
    /\ view.drawn => 1 = Cardinality({place \in {"registry", "recovery", "active"} :
                             view[place] # None /\ view[place].document = "desktop"})
    /\ Idle => /\ view.registry.capture = "live"
               /\ view.drawn => view.registry.document = "desktop"

\* Every phase of a screenshot in which the user waits has something that will end it: no
\* answer, window or closure on the way is dropped without one.
ShotHasWork ==
    LET s == core.shot.session
        Job(k) == \E job \in jobs : job.k = k /\ job.session = s
        Posted(k) == \E i \in DOMAIN core.queue : core.queue[i].k = k
        Commands  == \E job \in jobs : job.k = "commands"
        Region == \E timer \in view.timers : timer.k = "shot failed" /\ timer.session = s
    IN CASE core.shot.phase = "Idle"      -> TRUE
         [] core.shot.phase = "Preparing" -> Job("prepare")
         [] core.shot.phase = "Selecting" -> Commands \/ Posted("Show") \/ view.host = s \/ Posted("Suspend")
         [] core.shot.phase = "Editing"   ->
              \/ Region
              \/ EditsShot /\ view.registry.editing.session = s /\ view.registry.open
         [] core.shot.phase = "Output"    ->
              \/ Job("output") \/ Posted("ShowPin")
              \/ \E id \in DOMAIN view.windows :
                   /\ view.windows[id].phase = "Preparing"
                   /\ view.windows[id].source = <<s, core.shot.operation>>

\* Between steps every pin the core knows has its pixels, and none are kept for others:
\* those that waited for their window went with the output.
PinKeepsPixels == core.images = DOMAIN core.pins /\ (Idle => core.pending = {} /\ core.held = None)

\* When nothing is on the way, the windows are those of the pins the core knows, the editor
\* is lent out as the core says, and what the core would copy or save is what was drawn.
WindowsAgree ==
    Quiet /\ (\A id \in DOMAIN view.windows : view.windows[id].phase # "Preparing") =>
    /\ DOMAIN view.windows = DOMAIN core.pins
    /\ DOMAIN view.stored = DOMAIN core.pins
    /\ view.recovery # None <=> Active(core)
    /\ \A id \in DOMAIN core.pins :
         /\ core.pins[id].document = view.stored[id].published
         /\ core.pins[id].editing # 0 <=> view.active # None /\ view.active.id = id
         /\ view.active = None \/ view.active.id # id => view.stored[id].document = "pin"

\* When nothing is on the way, a pin that is not being edited shows its latest picture,
\* unless that could not be made.  (An editor that is lost keeps the document of the pin but
\* publishes nothing, so no picture of what was drawn follows.)
PictureLatest ==
    Quiet /\ failures = 0 => \A id \in DOMAIN core.pins :
        core.pins[id].editing = 0 =>
            core.pins[id].revision \in {view.windows[id].picture, core.pins[id].failed}

\* Once everything has arrived, in whatever order, core and event loop are of one mind about the
\* pins: windows, documents, the editor that is lent out, and the picture each pin shows.
ViewsAgree == WindowsAgree /\ PictureLatest
========================================
