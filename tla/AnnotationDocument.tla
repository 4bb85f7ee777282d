---------------------------- MODULE AnnotationDocument ----------------------------
(***************************************************************************)
(* The document of the annotation editor and everything that edits it: the  *)
(* pointer on the canvas, the parameters of the panel and their delayed     *)
(* completion, the text editor, and the commands.  They share one slot for  *)
(* the snapshot an operation began with, which makes each operation one     *)
(* step of undo.                                                            *)
(*                                                                         *)
(* All of it runs on the thread of the windows, one handler at a time; the  *)
(* handlers are the actions, and the functions they call are operators on   *)
(* the registry, composed as in the code.  Data: an object has a kind, a    *)
(* form (geometry and content), a look (parameters) and whether the eraser  *)
(* cut it.  Coordinates, rendering, focus, the multi-click drawings,        *)
(* magnifiers, masks and the watermark are left out.                        *)
(***************************************************************************)
EXTENDS Naturals, Sequences, SequencesExt

CONSTANTS
    Tools,      \* the toolbar entries: a subset of {"text", "sequence", "shape", "eraser"}
    Crops,      \* whether the editor runs inside a screenshot: a set of Booleans
    MaxIds,     \* bound on the objects ever created
    MaxUndo     \* bound on the undo stack

VARIABLE registry

Unset == [kind |-> "unset"]         \* an absent snapshot, request, gesture, editor or patch
Forms ==   {1, 2}                   \* a caption and a draft may also be blank, 0
Looks ==   {1, 2}

----------------------------------------
(* The session of the document: lexift-core, domain/annotation.rs.           *)

\* Which objects the active entry may edit.
CanEdit(r, object) == IF r.mode = "mouse" THEN r.crop ELSE object.kind = r.mode

EditableSelected(r) ==
    IF r.selected > 0 /\ CanEdit(r, r.objects[r.selected]) THEN r.selected ELSE 0

Snapshot(r) == [kind |-> "snapshot", objects |-> r.objects, selected |-> EditableSelected(r)]

ObjectIndex(r, id) ==
    IF \E i \in DOMAIN r.objects : r.objects[i].id = id
    THEN CHOOSE i \in DOMAIN r.objects : r.objects[i].id = id ELSE 0

SelectedId(r) == IF r.selected = 0 THEN 0 ELSE r.objects[r.selected].id

RestoreSnapshot(r, before) ==
    LET restored == [r EXCEPT !.objects = before.objects, !.selected = before.selected]
    IN  [restored EXCEPT !.selected = EditableSelected(restored)]

\* An edit of its own leaves a snapshot; one inside an operation shares that one's.
Remember(r) == IF r.before = Unset THEN [r EXCEPT !.undo = Append(@, Snapshot(r))] ELSE r

BeginDrag(r) ==
    IF r.before = Unset
    THEN [r EXCEPT !.before = Snapshot(r), !.patchBefore = r.patch] ELSE r

\* Mutant: a gesture that is cancelled keeps what it did.
ForgetDrag(r) == [r EXCEPT !.before = Unset, !.patchBefore = Unset]

\* A rectangle of the eraser returns to where it was, or goes when it is new.
CancelDrag(r) ==
    IF r.before = Unset THEN r
    ELSE [RestoreSnapshot(r, r.before) EXCEPT !.before = Unset, !.patchBefore = Unset,
            !.patch = IF @ = Unset \/ r.patchBefore = Unset THEN Unset
                      ELSE [@ EXCEPT !.wide = r.patchBefore.wide]]

\* A rectangle of no size is given up; an operation that changed nothing leaves no step.
FinishDrag(r) ==
    IF r.patch # Unset /\ ~r.patch.wide THEN CancelDrag(r)
    ELSE LET ended == [r EXCEPT !.before = Unset, !.patchBefore = Unset]
         IN  IF r.before # Unset /\ r.before # Snapshot(r)
             THEN [ended EXCEPT !.undo = Append(@, r.before)] ELSE ended

FinishRectangleErase(r) == [r EXCEPT !.patch = Unset]

Add(r0, object) ==
    LET r == Remember(FinishRectangleErase(r0))
        added == [r EXCEPT !.objects = Append(@, object), !.selected = Len(r.objects) + 1,
                           !.created = @ + 1]
    IN  [added EXCEPT !.selected = EditableSelected(added)]

\* A change outside an operation is an edit of its own, unless it changed nothing.
ReplaceSelected(r, object) ==
    LET changed == [r EXCEPT !.objects[r.selected] = object]
    IN  IF r.before = Unset /\ changed.objects # r.objects
        THEN [changed EXCEPT !.undo = Append(@, Snapshot(r))] ELSE changed

\* An object that changes grows together where the eraser cut it.
UpdateSelected(r, form, look) ==
    LET object == r.objects[r.selected]
    IN  IF EditableSelected(r) = 0 THEN r
        ELSE IF object.form = form /\ object.look = look THEN r
        ELSE ReplaceSelected(r, [object EXCEPT !.form = form, !.look = look, !.cut = FALSE])

DeleteSelected(r) ==
    IF EditableSelected(r) = 0 THEN r
    ELSE [Remember(r) EXCEPT !.objects = RemoveAt(@, r.selected), !.selected = 0]

UndoSession(r0) ==
    LET r == FinishRectangleErase(r0)
    IN  IF r.undo = <<>> THEN r
        ELSE RestoreSnapshot([r EXCEPT !.undo = Front(@), !.before = Unset], Last(r.undo))

ClearAll(r0) ==
    LET r == FinishRectangleErase(r0)
    IN  IF r.objects = <<>> THEN r ELSE [Remember(r) EXCEPT !.objects = <<>>, !.selected = 0]

----------------------------------------
(* The parameters of the panel: lexift-ui, annotation/parameter_transaction  *)
(* and parameter_workflow.                                                   *)

ParameterObject(r, tool) ==
    LET i == EditableSelected(r)
    IN  IF i > 0 /\ r.objects[i].kind = tool THEN r.objects[i].id ELSE 0

\* Whom a parameter is meant for; "fresh" tells whether its revisions are still the latest.
ParameterTarget(r, tool) ==
    [kind |-> "target", tool |-> tool, object |-> ParameterObject(r, tool),
     editor |-> r.editor # Unset, fresh |-> TRUE]

ValueOf(r, tool) ==
    IF tool = "text" /\ r.editor # Unset /\ r.editor.object = 0 THEN r.editor.look
    ELSE IF ParameterObject(r, tool) # 0 THEN r.objects[r.selected].look ELSE r.defaults[tool]

\* Revisions never come back: what waits for an older one reaches nothing any more, and an
\* operation for it matches no later target.
Outdate(r, all) ==
    LET concerned(request) == request # Unset /\ (all \/ request.target.editor)
    IN  [r EXCEPT !.posted   = IF concerned(@) THEN Unset ELSE @,
                  !.deferred = IF concerned(@) THEN Unset ELSE @,
                  !.edit     = IF concerned(@) THEN [@ EXCEPT !.target.fresh = FALSE] ELSE @]

AdvanceProjection(r) == Outdate(r, TRUE)

Deselect(r) == [AdvanceProjection(r) EXCEPT !.selected = 0, !.bound = 0]

Project(r) ==
    [AdvanceProjection(r) EXCEPT
        !.bound = IF r.panel # "none" THEN ParameterObject(r, r.panel) ELSE SelectedId(r)]

RefreshTarget(r) ==
    IF r.panel # "none" /\ r.bound # ParameterObject(r, r.panel) THEN Project(r) ELSE r

FinishStyleEdit(r) == IF r.edit = Unset THEN r ELSE [FinishDrag(r) EXCEPT !.edit = Unset]

\* Another target ends the operation that ran; the delayed completion starts again.
Touch(r0, target) ==
    LET r == IF r0.edit # Unset /\ r0.edit.target # target THEN FinishStyleEdit(r0) ELSE r0
    IN  [BeginDrag(r) EXCEPT
            !.edit = [kind |-> "edit", target |-> target]]

OwnsTransaction(gesture) ==
    \/ gesture.kind \in {"erase", "place", "move", "resize"}
    \/ gesture.kind = "handle" /\ gesture.active /\ ~gesture.editing

BlocksParameters(gesture) ==
    OwnsTransaction(gesture) \/ (gesture.kind = "handle" /\ gesture.active)

\* The editor, the defaults and the object follow; the shape of the eraser ends its rectangle.
Retuned(r, target, look) ==
    [r EXCEPT !.defaults[target.tool] = look,
              !.editor = IF @ # Unset /\ target.tool = "text" THEN [@ EXCEPT !.look = look] ELSE @]

RetuneObject(r, target, look) ==
    IF target.object # 0 /\ SelectedId(r) = target.object
    THEN UpdateSelected(r, r.objects[r.selected].form, look) ELSE r

ApplyParameter(r, target, look) ==
    IF \/ r.mode # target.tool
       \/ target.object # 0 /\ ParameterObject(r, target.tool) # target.object
       \/ (IF target.object = 0 /\ target.tool = "sequence" THEN r.defaults[target.tool]
           ELSE ValueOf(r, target.tool)) = look
    THEN r
    ELSE RetuneObject(
            Retuned(Touch(IF target.tool = "eraser" THEN FinishRectangleErase(r) ELSE r, target),
                    target, look),
            target, look)

\* While a gesture writes the document the parameter waits for it.
ApplyGeometryValues(r, target, look) ==
    IF r.panel # target.tool \/ ParameterTarget(r, target.tool) # target THEN r
    ELSE IF BlocksParameters(r.gesture)
         THEN [r EXCEPT !.deferred = [kind |-> "request", target |-> target, look |-> look]]
         ELSE ApplyParameter(r, target, look)

\* A parameter that waited goes to its own target or nowhere.  A cancelled placement gives back
\* the selection; a default that was meant for the next badge is still meant for it.
ReplayDeferred(r0, placementCancelled) ==
    LET r == [r0 EXCEPT !.deferred = Unset]
        target == r0.deferred.target
        current == ParameterTarget(r0, target.tool)
    IN  IF r0.deferred = Unset THEN r0
        ELSE IF r0.mode # target.tool \/ r0.panel # target.tool THEN r
        ELSE IF current = target THEN ApplyGeometryValues(r, target, r0.deferred.look)
        ELSE IF /\ placementCancelled /\ target.tool = "sequence" /\ ~target.editor
                /\ r0.bound = 0 /\ [current EXCEPT !.object = 0] = target
             THEN ApplyParameter(r, target, r0.deferred.look)
        ELSE r

----------------------------------------
(* The text editor, the gestures and the mode: text_workflow, gesture and    *)
(* canvas_input.                                                             *)

\* The editor closes; its text is written unless its object is gone, locked, or it is blank.
WriteText(r, closed, i) ==
    IF closed.object # 0 /\ i = 0 THEN r
    ELSE IF closed.object # 0 /\ r.objects[i].kind = "sequence"
         THEN IF CanEdit(r, r.objects[i])
              THEN UpdateSelected([r EXCEPT !.selected = i], closed.form, r.objects[i].look) ELSE r
    ELSE IF closed.form = 0 THEN r
    ELSE IF closed.object = 0
         THEN Project(Add(r, [id |-> r.created + 1, kind |-> "text", form |-> closed.form,
                              look |-> closed.look, cut |-> FALSE]))
    ELSE IF CanEdit(r, r.objects[i])
         THEN Project(UpdateSelected([r EXCEPT !.selected = i], closed.form, closed.look)) ELSE r

FinishTextEdit(r, commit) ==
    IF r.editor = Unset THEN r
    ELSE IF commit
         THEN WriteText([Outdate(r, FALSE) EXCEPT !.editor = Unset],
                        r.editor, ObjectIndex(r, r.editor.object))
         ELSE [Outdate(r, FALSE) EXCEPT !.editor = Unset]

\* An object that is gone, locked or has no text is not edited; a draft needs its tool.
ShowEditor(r, id, i) ==
    [r EXCEPT !.editor =
        [kind |-> "editor", object |-> id,
         form |-> IF id = 0 THEN 0 ELSE r.objects[i].form,
         look |-> IF id = 0 THEN r.defaults["text"] ELSE r.objects[i].look]]

MayEditText(r, i) ==
    i # 0 /\ CanEdit(r, r.objects[i]) /\ r.objects[i].kind \in {"text", "sequence"}

OpenTextEditor(r, id) ==
    IF IF id = 0 THEN r.mode # "text" ELSE ~MayEditText(r, ObjectIndex(r, id)) THEN r
    ELSE ShowEditor(FinishTextEdit(r, TRUE), id, ObjectIndex(r, id))

EditingSequence(r) ==
    LET i == ObjectIndex(r, r.editor.object) IN i # 0 /\ r.objects[i].kind = "sequence"

\* Mutant: a gesture starts inside the edit of a parameter.
BeginGestureUnsettled(r) == BeginDrag(r)

\* Parameters settle before a gesture takes the slot of the snapshot.
BeginDocumentGesture(r) == BeginDrag(FinishStyleEdit(r))

\* The object of the press as the pointer shapes it: what the eraser cut moves along, or heals.
Shaped(gesture, form) ==
    IF form = gesture.original.form THEN gesture.original
    ELSE [gesture.original EXCEPT !.form = form,
            !.cut = @ /\ gesture.kind \in {"place", "move"}]

\* It replaces the object it was taken from, while that can be edited; the selection stays.
WriteGeometry(r, object) ==
    LET i == ObjectIndex(r, object.id)
    IN  IF i = 0 THEN r
        ELSE IF CanEdit(r, r.objects[i])
             THEN [ReplaceSelected([r EXCEPT !.selected = i], object) EXCEPT
                    !.selected = r.selected]
             ELSE r

Gesture(kind, original) ==
    [kind |-> kind, original |-> original, editing |-> FALSE, active |-> FALSE]

IsManipulation(gesture) ==
    gesture.kind \in {"erase", "place", "move", "resize", "handle", "draw"}

\* The gesture ends without a trace; what the panel asked for meanwhile is replayed.
WithoutGesture(r, gesture) ==
    Project(ReplayDeferred(IF OwnsTransaction(gesture) THEN CancelDrag(r) ELSE r,
                           gesture.kind = "place"))

CancelActiveGesture(r) ==
    IF r.gesture = Unset THEN r ELSE WithoutGesture([r EXCEPT !.gesture = Unset], r.gesture)

CancelObjectGesture(r) ==
    IF r.gesture.kind \in {"erase", "place", "move", "resize", "handle"}
    THEN CancelActiveGesture(r) ELSE r

SyncEditScope(r) == IF EditableSelected(r) # r.selected THEN Deselect(r) ELSE r

SetMode(r, mode) ==
    SyncEditScope(
        IF r.mode = mode THEN r
        ELSE [FinishRectangleErase(FinishTextEdit(FinishStyleEdit(CancelActiveGesture(r)), TRUE))
                EXCEPT !.mode = mode])

AdoptSelected(r, i) ==
    IF ~CanEdit(r, r.objects[i]) THEN r
    ELSE SetMode([AdvanceProjection(r) EXCEPT !.bound = r.objects[i].id], r.objects[i].kind)

\* What the panel shows: the value that waits for its target, or the one this has.
PanelShows(r) ==
    IF r.posted # Unset THEN r.posted.look
    ELSE IF r.deferred # Unset THEN r.deferred.look
    ELSE ValueOf(r, r.panel)

\* What waits is dropped; what the panel showed is kept for the draft or the next object.
KeepShown(r, shown) ==
    IF r.panel = "none" THEN r
    ELSE IF r.bound # ParameterObject(r, r.panel) THEN [r EXCEPT !.panel = "none"]
    ELSE IF r.panel = "text" /\ r.editor # Unset /\ r.editor.object = 0
         THEN [r EXCEPT !.panel = "none", !.editor.look = shown]
    ELSE [r EXCEPT !.panel = "none", !.defaults[r.panel] = shown]

ClosePanel(r) ==
    KeepShown(FinishStyleEdit([r EXCEPT !.posted = Unset, !.deferred = Unset]),
              IF r.panel = "none" THEN 0 ELSE PanelShows(r))

\* What the eraser touches is cut; its rectangle starts again from what was cut before it.
EraseWithBrush(r, touched) ==
    [r EXCEPT !.objects = [i \in DOMAIN r.objects |->
        [r.objects[i] EXCEPT !.cut = @ \/ r.objects[i].id \in touched]]]

EraseWithRectangle(r, touched, wide) ==
    [r EXCEPT !.objects = [i \in DOMAIN r.objects |->
                IF r.objects[i].id \in r.patch.listed
                THEN [r.objects[i] EXCEPT !.cut = r.objects[i].id \in (r.patch.holes \cup touched)]
                ELSE r.objects[i]],
              !.patch.wide = wide]

----------------------------------------
(* The pointer on the canvas: canvas_pointer.                                *)

Becomes(r) ==
    /\ registry' = r
    /\ r.created <= MaxIds /\ Len(r.undo) <= MaxUndo

ObjectIds(r) == {r.objects[i].id : i \in DOMAIN r.objects}

\* A second press cannot reuse the snapshot of an unfinished gesture.
Pressed(r) == IF IsManipulation(r.gesture) THEN CancelActiveGesture(r) ELSE r

CanPress(r) == r.mode # "mouse" \/ r.crop

BlankDraft(r) == r.editor # Unset /\ r.editor.form = 0 /\ ~EditingSequence(r)

\* A press beside the text that is edited ends its editing; beside a blank draft it does no more.
PressedCanvas(r) == FinishTextEdit(Pressed(r), TRUE)

CanPressCanvas(r) == CanPress(r) /\ ~BlankDraft(Pressed(r))

PressSettled(r) == FinishStyleEdit(PressedCanvas(r))

\* A press on the text that is edited selects in it, or takes one of its handles.
PressEditor(kind) ==
    /\ CanPress(registry)
    /\ \E r \in {Pressed(registry)} :
        /\ r.editor # Unset
        /\ kind = "handle" => ~EditingSequence(r)
        /\ Becomes([r EXCEPT !.gesture = [Gesture(kind, Unset) EXCEPT !.editing = TRUE]])

PressBesideDraft ==
    /\ CanPress(registry) /\ BlankDraft(Pressed(registry))
    /\ Becomes([PressedCanvas(registry) EXCEPT !.gesture = Unset])

\* A new rectangle starts at a point; the one that is there is moved; the brush ends it.
NewRectangle(r) ==
    [kind |-> "patch", listed |-> ObjectIds(r), wide |-> FALSE,
     holes |-> {r.objects[i].id : i \in {j \in DOMAIN r.objects : r.objects[j].cut}}]

BeginErase(r, touched, again) ==
    IF again THEN EraseWithRectangle(BeginDrag(r), touched, TRUE)
    ELSE IF r.defaults["eraser"] = 1
         THEN EraseWithBrush(BeginDrag(FinishRectangleErase(r)), touched)
    ELSE EraseWithRectangle(
            [BeginDrag(FinishRectangleErase(r)) EXCEPT !.patch = NewRectangle(r)], touched, FALSE)

PressErase(touched, again) ==
    /\ registry.mode = "eraser" /\ CanPressCanvas(registry)
    /\ \E r \in {Deselect(PressSettled(registry))} :
        /\ touched \subseteq ObjectIds(r)
        /\ again => r.defaults["eraser"] = 2 /\ r.patch # Unset
        /\ Becomes([BeginErase(r, touched, again) EXCEPT !.gesture = Gesture("erase", Unset)])

\* The controls of the object that is selected.
Controls(object) ==
    CASE object.kind = "sequence" -> {"control", "resize"}
      [] object.kind = "text"     -> {"handle", "toggle", "delete", "resize"}
      [] OTHER                    -> {"resize"}

PressHandle ==
    /\ registry.mode # "eraser" /\ CanPressCanvas(registry)
    /\ \E r \in {PressSettled(registry)} :
        \E i \in {EditableSelected(r)} \ {0} : \E kind \in Controls(r.objects[i]) :
            Becomes(
                [(CASE kind = "delete" -> RefreshTarget(DeleteSelected(r))
                    [] kind = "resize" -> RefreshTarget(BeginDocumentGesture(r))
                    [] OTHER           -> r)
                 EXCEPT !.gesture = Gesture(kind, IF kind = "delete" THEN Unset ELSE r.objects[i])])

\* An object is selected, its tool and parameters are adopted, and it may be dragged.
Grab(r, i) == RefreshTarget([r EXCEPT !.gesture = Gesture("move", r.objects[i])])

PressObject(i) ==
    /\ CanPressCanvas(registry) /\ registry.mode # "eraser"
    /\ \E r \in {PressSettled(registry)} :
        /\ i \in DOMAIN r.objects /\ CanEdit(r, r.objects[i])
        /\ Becomes(Grab(BeginDocumentGesture(AdoptSelected([r EXCEPT !.selected = i], i)), i))

\* The parameters a new object takes are those of the next one.
CaptureCreation(r, tool) == [r EXCEPT !.defaults[tool] = ValueOf(r, tool)]

\* A badge is placed inside an operation of its own, that ends when it is released.
NewBadge(r) ==
    [id |-> r.created + 1, kind |-> "sequence", form |-> 1, look |-> r.defaults["sequence"],
     cut |-> FALSE]

PlaceSequence ==
    /\ registry.mode = "sequence" /\ CanPressCanvas(registry)
    /\ \E r \in {CaptureCreation(PressSettled(registry), "sequence")} :
        Becomes([Deselect(Add(BeginDocumentGesture(r), NewBadge(r))) EXCEPT
            !.gesture = Gesture("place", NewBadge(r))])

\* An object is drawn, or the place of a text is clicked.
PressEmpty ==
    /\ registry.mode \in {"text", "shape"} /\ CanPressCanvas(registry)
    /\ \E r \in {Deselect(CaptureCreation(PressSettled(registry), registry.mode))} :
        Becomes(RefreshTarget([r EXCEPT !.gesture =
            Gesture(IF r.mode = "text" THEN "create" ELSE "draw",
                    [kind |-> "values", look |-> r.defaults[r.mode]])]))

\* What the eraser touches where the pointer is, is cut.
Erased(r, touched, wide) ==
    IF r.patch = Unset THEN EraseWithBrush(r, touched) ELSE EraseWithRectangle(r, touched, wide)

\* The object follows the pointer.  A handle settles parameters when it starts to move; one of
\* the edited text moves the editor only.
Activated(r) ==
    IF r.gesture.active THEN r
    ELSE IF r.gesture.editing THEN [FinishStyleEdit(r) EXCEPT !.gesture.active = TRUE]
    ELSE [BeginDocumentGesture(r) EXCEPT !.gesture.active = TRUE,
            !.gesture.original = r.objects[ObjectIndex(r, @.id)]]

Reshape(r, form) == WriteGeometry(r, Shaped(r.gesture, form))

Dragged(r, form) ==
    IF r.gesture.kind # "handle" THEN Reshape(r, form)
    ELSE IF r.gesture.editing THEN IF r.editor = Unset THEN r ELSE Activated(r)
    ELSE IF ObjectIndex(r, r.gesture.original.id) = 0 THEN r ELSE Reshape(Activated(r), form)

MoveEraser(touched, wide) ==
    /\ registry.gesture.kind = "erase" /\ touched \subseteq ObjectIds(registry)
    /\ Becomes(Erased(registry, touched, wide))

MovePointer(form) ==
    /\ registry.gesture.kind \in {"place", "move", "resize", "handle"}
    /\ Becomes(Dragged(registry, form))

\* The gesture ends with a step of undo if it changed something, then parameters are replayed.
Dropped(r) == ReplayDeferred(FinishDrag([r EXCEPT !.gesture = Unset]), FALSE)

ReleaseErase(touched, wide) ==
    /\ registry.gesture.kind = "erase" /\ touched \subseteq ObjectIds(registry)
    /\ Becomes(Dropped(Erased(registry, touched, wide)))

ReleasePlacement(form) ==
    /\ registry.gesture.kind = "place"
    /\ \E r \in {Dropped(Dragged(registry, form))} :
        Becomes([r EXCEPT !.selected = ObjectIndex(r, registry.gesture.original.id)])

\* A drag ends; a click that did not drag opens the text of the object.
AdoptDropped(r) == RefreshTarget(IF r.selected = 0 THEN r ELSE AdoptSelected(r, r.selected))

ReleaseGeometry(clicked) ==
    /\ registry.gesture.kind \in {"move", "resize"}
    /\ clicked => /\ registry.gesture.kind = "move"
                  /\ ObjectIndex(registry, registry.gesture.original.id) # 0
                  /\ registry.gesture.original.kind \in {"text", "sequence"}
    /\ \E r \in {AdoptDropped(Dropped(registry))} :
        Becomes(IF clicked THEN OpenTextEditor(r, registry.gesture.original.id) ELSE r)

\* A handle of a text: dragged, up to the release, or clicked to delete the text or to toggle
\* its arrow.
DeleteText(r, id) ==
    IF ObjectIndex(r, id) = 0 THEN r ELSE DeleteSelected([r EXCEPT !.selected = ObjectIndex(r, id)])

HandleClicked(r, choice) ==
    CASE choice = "delete" -> DeleteText(FinishTextEdit(r, FALSE), r.editor.object)
      [] choice = "toggle" -> [r EXCEPT !.editor.form = IF @ = 0 THEN 0 ELSE 3 - @]
      [] OTHER             -> r

EndHandle(r, choice) ==
    LET wrote == r.gesture.active /\ ~r.gesture.editing
    IN  IF wrote THEN Dropped(r)
        ELSE ReplayDeferred([HandleClicked(r, choice) EXCEPT !.gesture = Unset], FALSE)

AdoptText(r, id) == IF ObjectIndex(r, id) = 0 THEN r ELSE AdoptSelected(r, ObjectIndex(r, id))

ReleaseHandle(choice, form) ==
    /\ registry.gesture.kind = "handle"
    /\ choice # "none" => /\ form = 0 /\ ~registry.gesture.active /\ registry.gesture.editing
                          /\ registry.editor # Unset
    /\ \E moved \in {IF form = 0 THEN registry ELSE Dragged(registry, form)} :
        Becomes(IF moved.gesture.active /\ ~moved.gesture.editing
                THEN AdoptText(EndHandle(moved, choice), moved.gesture.original.id)
                ELSE EndHandle(moved, choice))

\* A control acts if the pointer is still on it and its object is still selected.
ReleaseControl(choice) ==
    LET r == [registry EXCEPT !.gesture = Unset]
        id == registry.gesture.original.id
        same == id = SelectedId(r)
    IN  /\ registry.gesture.kind \in {"control", "toggle"}
        /\ choice \in (IF registry.gesture.kind = "toggle" THEN {"none", "change"}
                       ELSE {"none", "change", "delete", "caption"})
        /\ Becomes(
            IF ~same \/ choice = "none" THEN r
            ELSE CASE choice = "delete"  -> DeleteSelected(r)
                   [] choice = "caption" -> OpenTextEditor(r, id)
                   [] choice = "change"  ->
                        UpdateSelected(r, IF r.objects[r.selected].form = 1 THEN 2 ELSE 1,
                                       r.objects[r.selected].look))

\* What was drawn is added unless it is too small; a clicked place opens a draft.
ReleaseOther(drawn) ==
    LET r == [registry EXCEPT !.gesture = Unset]
        shape == [id |-> r.created + 1, kind |-> "shape", form |-> 1,
                  look |-> registry.gesture.original.look, cut |-> FALSE]
        draft == [r EXCEPT !.defaults["text"] = registry.gesture.original.look]
    IN  /\ registry.gesture.kind \in {"draw", "create", "delete", "selection"}
        /\ drawn => registry.gesture.kind = "draw"
        /\ Becomes(
            CASE drawn -> RefreshTarget(Add(r, shape))
              [] registry.gesture.kind = "draw" /\ ~drawn -> RefreshTarget(r)
              [] registry.gesture.kind = "create" ->
                    IF r.mode = "text" THEN OpenTextEditor(draft, 0) ELSE r
              [] OTHER -> r)

\* The window loses the pointer.
CancelPointer == registry.gesture # Unset /\ Becomes(RefreshTarget(CancelActiveGesture(registry)))

----------------------------------------
(* Parameters, the text editor and the commands.                             *)

\* The panel posts a value for the target of this moment ...
PostParameter(look) ==
    /\ registry.panel # "none" /\ registry.posted = Unset
    /\ ValueOf(registry, registry.panel) # look
    /\ Becomes([registry EXCEPT !.posted =
        [kind |-> "request", target |-> ParameterTarget(registry, registry.panel), look |-> look]])

\* ... and it is applied when the queue of the panel gets to it.
ApplyPosted ==
    /\ registry.posted # Unset
    /\ Becomes(ApplyGeometryValues([registry EXCEPT !.posted = Unset],
                                   registry.posted.target, registry.posted.look))

\* 300 ms without a change complete the operation, or the end of the drag of a control, which
\* that delay waits for; either is a matter of time only.
StyleEditEnds == registry.edit # Unset /\ Becomes(FinishStyleEdit(registry))

\* The user types, and ends with Enter or by leaving; Escape and a window that fails abandon it.
TypeText(form) ==
    /\ registry.editor # Unset /\ registry.editor.form # form
    /\ Becomes([registry EXCEPT !.editor.form = form])

CloseTextEditor(commit) ==
    registry.editor # Unset /\ Becomes(FinishTextEdit(registry, commit))

UndoSettled(r) == IF r.undo = <<>> THEN UndoSession(r) ELSE Project(UndoSession(r))

UndoCommand ==
    \E r \in {CancelObjectGesture(registry)} :
        Becomes(IF r # registry THEN r
                ELSE UndoSettled(FinishStyleEdit(FinishTextEdit(registry, TRUE))))

DeleteCommand ==
    Becomes(IF registry.gesture.kind = "place" THEN CancelActiveGesture(registry)
            ELSE RefreshTarget(DeleteSelected(
                    FinishTextEdit(CancelObjectGesture(registry), FALSE))))

ClearAllCommand ==
    /\ registry.mode = "eraser" /\ registry.panel # "none"
    /\ \E r \in {FinishStyleEdit(CancelActiveGesture(registry))} :
        Becomes(IF r.objects = <<>> THEN ClearAll(r) ELSE Deselect(ClearAll(r)))

\* Escape ends what is innermost: the editing, the gesture, the selection, the panel.
Escape ==
    Becomes(IF registry.editor # Unset THEN FinishTextEdit(registry, FALSE)
            ELSE IF registry.gesture # Unset THEN CancelActiveGesture(registry)
            ELSE IF registry.selected # 0 THEN Deselect(registry)
            ELSE ClosePanel(registry))

\* A tool is chosen: its panel opens, or closes when it was open.
ShowPanel(r, tool) == [r EXCEPT !.panel = tool, !.bound = ParameterObject(r, tool)]

OpenPanel(tool) ==
    \E r \in {SetMode(registry, tool)} :
        Becomes(IF r.panel = tool THEN ClosePanel(r) ELSE ShowPanel(ClosePanel(r), tool))

MouseMode ==
    Becomes(IF registry.mode = "mouse" THEN ClosePanel(registry)
            ELSE Deselect(ClosePanel(FinishStyleEdit(SetMode(registry, "mouse")))))

----------------------------------------
\* The editor when it opens with one of its tools.
FreshEditor(crop, tool) ==
    [objects |-> <<>>, selected |-> 0, undo |-> <<>>, before |-> Unset, created |-> 0,
     patch |-> Unset, patchBefore |-> Unset, mode |-> tool, crop |-> crop, panel |-> "none",
     bound |-> 0, defaults |-> [t \in Tools |-> 1], edit |-> Unset, posted |-> Unset,
     deferred |-> Unset, gesture |-> Unset, editor |-> Unset]

DocumentInit == \E crop \in Crops, tool \in Tools : registry = FreshEditor(crop, tool)

Pointer ==
    \/ \E kind \in {"handle", "selection"} : PressEditor(kind)
    \/ PressBesideDraft \/ PressHandle \/ PlaceSequence \/ PressEmpty \/ CancelPointer
    \/ \E i \in DOMAIN registry.objects : PressObject(i)
    \/ \E touched \in SUBSET (1 .. MaxIds), flag \in BOOLEAN :
        PressErase(touched, flag) \/ MoveEraser(touched, flag) \/ ReleaseErase(touched, flag)
    \/ \E form \in Forms : MovePointer(form) \/ ReleasePlacement(form)
    \/ \E flag \in BOOLEAN : ReleaseGeometry(flag) \/ ReleaseOther(flag)
    \/ \E choice \in {"none", "delete", "toggle"}, form \in Forms \cup {0} :
        ReleaseHandle(choice, form)
    \/ \E choice \in {"none", "change", "delete", "caption"} : ReleaseControl(choice)

Command ==
    \/ \E look \in Looks : PostParameter(look)
    \/ ApplyPosted \/ StyleEditEnds
    \/ \E form \in Forms \cup {0} : TypeText(form)
    \/ \E commit \in BOOLEAN : CloseTextEditor(commit)
    \/ UndoCommand \/ DeleteCommand \/ ClearAllCommand \/ Escape
    \/ \E tool \in Tools : OpenPanel(tool)
    \/ MouseMode

DocumentNext == Pointer \/ Command
DocumentSpec == DocumentInit /\ [][DocumentNext]_registry

----------------------------------------
\* The snapshot slot is held exactly while one operation runs, a gesture or a change of
\* parameters, never both: no operation completes or takes back the work of another.
SnapshotOwned ==
    /\ (registry.before # Unset) <=>
        (registry.edit # Unset \/ OwnsTransaction(registry.gesture))
    /\ ~(registry.edit # Unset /\ OwnsTransaction(registry.gesture))

\* What the user has without the operation that runs.
WithoutOperation == IF registry.before = Unset THEN registry.objects ELSE registry.before.objects

\* Undo goes back over the documents the user left: every way to change the document leaves
\* exactly one step, whichever handlers, delays and cancellations come between.
History == INSTANCE EditHistory WITH
    current <- WithoutOperation, past <- [i \in DOMAIN registry.undo |-> registry.undo[i].objects]
UndoRetraces == History!Spec
========================================
