------------------------- MODULE AnnotationRenderer -------------------------
(***************************************************************************)
(* The annotation picture and the two that can show it (lexift-ui           *)
(* annotation/presenter.rs and render_workflow.rs, lexift-platform          *)
(* windows/annotation_gpu.rs with its output.rs, content.rs, recovery.rs).  *)
(*                                                                          *)
(* The UI thread compiles a scene for every frame and leaves it in the      *)
(* mailbox of the native worker; once the worker says that a scene is       *)
(* presented, the UI gives its canvases up (it draws them blank) and the    *)
(* native windows below carry the picture.  When the worker fails, or does  *)
(* not answer in time, the UI draws by itself again and keeps the native    *)
(* picture until its own covers every canvas.  The worker samples the       *)
(* desktop for live effects, compares what it composed with what it shows,  *)
(* commits under the lock of the mailbox, and rebuilds a lost device once   *)
(* per session while the windows that were shown stay.                      *)
(*                                                                          *)
(* One canvas.  A picture is the content of the document and, for a content *)
(* with a live effect, the shade of the desktop it was sampled from; the    *)
(* desktop alternates between two shades, so that a change may come back to *)
(* the pixels that are shown.  The revision of a stamp counts the scenes    *)
(* the mailbox was given: the code also numbers the ones it does not hand   *)
(* over, and only compares the numbers.  The render passes no paused        *)
(* regions, so that no completion says Paused.  The magnifier, a scene that *)
(* cannot be compiled, a canvas that changes its size, and a worker whose   *)
(* wait on its own event fails are left out.                                *)
(***************************************************************************)
EXTENDS Integers

CONSTANTS
    Inks, Glasses,      \* contents without and with a live effect
    RendererSessions,   \* bound: annotation sessions
    RendererEdits,      \* bound: changes and repaints of the document
    RendererChanges,    \* bound: changes of the desktop
    RendererFaults,     \* bound: failures, and deadlines that pass
    RendererStalls      \* bound: comparisons, samples and windows that are not ready yet

NoContent == "none"
Contents  == Inks \cup Glasses

ASSUME RendererConstants ==
    /\ NoContent \notin Contents /\ Inks # {} /\ Inks \cap Glasses = {}
    /\ RendererSessions \in Nat /\ RendererEdits \in Nat /\ RendererChanges \in Nat
    /\ RendererFaults \in Nat /\ RendererStalls \in Nat

VARIABLES
    ui,         \* the presenter and the canvas of the UI thread
    box,        \* the mailbox
    gpu,        \* the worker: what it is at, and the variables of its loop
    device,     \* its renderer: capture, effects, comparison, windows
    desktop,    \* the version of the desktop below the annotations
    used        \* what is used up of the bounds

rendererVars == <<ui, box, gpu, device, desktop, used>>

----------------------------------------
NoStamp   == [session |-> 0, revision |-> 0]
NoScene   == [stamp |-> NoStamp, content |-> NoContent]
NoVersion == -1

\* What a window shows: the pixels of a content over a version of the desktop.
Pixels(c, v) == [content |-> c, shade |-> IF c \in Glasses THEN v % 2 ELSE 0]
Dark         == Pixels(NoContent, 0)

\* What the canvas shows when the software draws it, with the effect masked or not yet.
Drawing(c, masked) == [content |-> c, shade |-> IF masked THEN 1 ELSE 0]

\* What the worker answers: sampled names the content whose effects it has.
Completion(stamp, sampled, presented, wait) ==
    [stamp |-> stamp, sampled |-> sampled, presented |-> presented, wait |-> wait]
NoCompletion == Completion(NoStamp, NoContent, FALSE, "none")

\* What the output of the renderer was composed from.
Inputs(c, v) == [content |-> c, version |-> v]
NoInputs     == Inputs(NoContent, NoVersion)
NoCandidate  == [inputs |-> NoInputs, stamp |-> NoStamp]

----------------------------------------
\* The mailbox: the three calls of the port, and the check of the worker.

Delivered(b, scene) ==
    IF b.scene.stamp = scene.stamp THEN b ELSE [b EXCEPT !.scene = scene, !.error = FALSE]

Emptied(b) == [b EXCEPT !.generation = @ + 1, !.scene = NoScene, !.completion = NoCompletion,
                        !.error = FALSE]

Owned(stamp) == box.generation = gpu.generation /\ box.scene.stamp = stamp

----------------------------------------
\* The presenter.  Its functions take and return the UI thread and the mailbox, s.

Retaining(u) == u.failed /\ u.requested # NoStamp

Live(u) == u.accepted \in Glasses

Armed(s, kind) == IF s.ui.timer = "off" THEN [s EXCEPT !.ui.timer = kind] ELSE s

\* The native picture is given back: nothing of it is owned any more.
Suspended(s) ==
    [ui  |-> [s.ui EXCEPT !.timer = "off", !.requested = NoStamp, !.accepted = NoContent,
                          !.confirmed = NoStamp, !.waiting = "none", !.active = FALSE],
     box |-> IF s.ui.requested # NoStamp THEN Emptied(s.box) ELSE s.box]

\* A native picture that is shown stays until the software covers the canvas.
Failing(s) ==
    LET t == IF s.ui.active \/ Retaining(s.ui)
               THEN [s EXCEPT !.ui.timer = "off", !.ui.waiting = "none", !.ui.active = FALSE]
               ELSE Suspended(s)
    IN  [t EXCEPT !.ui.failed = TRUE]

\* The same content is not submitted again: stamp and deadline of the accepted one stay.
Submitted(s) ==
    LET scene == [stamp   |-> [session |-> s.ui.session, revision |-> s.ui.revision + 1],
                  content |-> s.ui.content]
    IN  IF s.ui.accepted = s.ui.content THEN s
        ELSE [ui  |-> [s.ui EXCEPT !.revision = @ + 1, !.requested = scene.stamp,
                                   !.accepted = scene.content,
                                   !.waiting = IF @ = "none" THEN "running" ELSE @],
              box |-> Delivered(s.box, scene)]

\* Mutant: any answer for the scene will do, presented or not.
ConfirmsAnswer(u, c) == c.stamp = u.requested

\* An answer that lets the UI give up the canvas: of this session, not newer than what was
\* asked for, covering the effects (an older one will do while the native picture is shown),
\* and not older than the last one.
Confirms(u, c) ==
    /\ c.presented /\ c.stamp.session = u.requested.session
    /\ c.stamp.revision <= u.requested.revision
    /\ \/ ~Live(u)
       \/ c.stamp = u.requested /\ c.sampled = u.accepted
       \/ u.active /\ c.stamp # u.requested
    /\ u.confirmed = NoStamp \/ c.stamp.revision >= u.confirmed.revision

\* The answer is taken: every new confirmation restarts the deadline, the last one ends it.
Confirmed(u, c) ==
    [u EXCEPT !.active = TRUE, !.confirmed = c.stamp,
              !.waiting = IF c.stamp = u.requested THEN "none"
                          ELSE IF u.confirmed # c.stamp THEN "running" ELSE @]

\* A poll of the worker's answer: wait on, draw with what is confirmed, or fail.
Polled(s) ==
    LET c == s.box.completion
        recovering == c.stamp = s.ui.requested /\ ~c.presented /\ c.wait = "recovering"
        u == IF Confirms(s.ui, c) THEN Confirmed(s.ui, c)
             ELSE IF recovering /\ s.ui.waiting = "none" THEN [s.ui EXCEPT !.waiting = "running"]
             ELSE s.ui
        t == [s EXCEPT !.ui = u]
    IN  IF s.box.error THEN [Failing(s) EXCEPT !.ui.queued = TRUE]
        ELSE IF u.waiting = "passed" THEN [Failing(t) EXCEPT !.ui.queued = TRUE]
        ELSE IF ~Confirms(s.ui, c) THEN Armed(t, "poll")
        ELSE LET ready == IF c.stamp # u.requested \/ Live(u) THEN Armed(t, "poll") ELSE t
             IN  [ready EXCEPT !.ui.queued = @ \/ ~s.ui.active]

----------------------------------------
\* render_canvases, in three parts.  fault says what fails: "submit" the submission of the
\* scene, "hide" the blank frame, "draw" the software frame.

Available(u) == ~u.failed

\* The scene goes to the worker and, once it is shown, the canvas is given up.
NativeRender(s, fault) ==
    LET sent == IF ~Available(s.ui) THEN s
                ELSE IF fault = "submit" /\ s.ui.accepted # s.ui.content
                THEN Failing([s EXCEPT !.ui.sampling = FALSE, !.ui.masked = NoContent])
                ELSE Armed(Submitted([s EXCEPT !.ui.sampling = FALSE, !.ui.masked = NoContent]),
                           "poll")
    IN  IF ~(Available(s.ui) /\ sent.ui.active) \/ sent.ui.hidden THEN sent
        ELSE IF fault = "hide" THEN Failing([sent EXCEPT !.ui.drawn = FALSE])
        ELSE [sent EXCEPT !.ui.hidden = TRUE, !.ui.canvas = Dark, !.ui.drawn = FALSE]

\* The software samples effects only while it is not waiting for the worker, and draws an
\* effect unmasked until its sample is there.  A frame that fails is drawn by the next render.
SoftwareRender(s, fault) ==
    LET u == IF Available(s.ui) THEN s.ui
             ELSE [s.ui EXCEPT !.sampling = s.ui.content \in Glasses,
                               !.masked = IF s.ui.content \in Glasses THEN @ ELSE NoContent]
        frame == Drawing(u.content, u.masked = u.content)
    IN  [s EXCEPT !.ui = [u EXCEPT !.hidden = FALSE,
                                   !.canvas = IF fault = "draw" THEN @ ELSE frame,
                                   !.drawn = fault # "draw"]]

\* The native picture that was kept is released once the software covers the canvas.
HandedOver(s) ==
    IF ~Retaining(s.ui) THEN s
    ELSE IF s.ui.drawn /\ (s.ui.content \in Glasses => s.ui.masked = s.ui.content)
    THEN Suspended(s) ELSE Armed(s, "handoff")

Rendered(s, fault) ==
    LET n == NativeRender([s EXCEPT !.ui.queued = FALSE], fault)
    IN  IF Available(n.ui) /\ n.ui.active THEN n ELSE HandedOver(SoftwareRender(n, fault))

----------------------------------------
\* Actions of the UI thread.

Now == [ui |-> ui, box |-> box]

Become(s) == ui' = s.ui /\ box' = s.box

Keeps == UNCHANGED <<gpu, device, desktop>>

Spend(kind) == used' = [used EXCEPT ![kind] = @ + 1]

NoUi == [session |-> 0, open |-> FALSE, content |-> NoContent, revision |-> 0,
         requested |-> NoStamp, accepted |-> NoContent, confirmed |-> NoStamp,
         waiting |-> "none", active |-> FALSE, failed |-> FALSE, timer |-> "off",
         queued |-> FALSE, hidden |-> FALSE, drawn |-> FALSE, canvas |-> Dark,
         sampling |-> FALSE, masked |-> NoContent]

OpenAnnotation ==
    /\ ~ui.open /\ ui.session < RendererSessions
    /\ \E c \in Inks :
           ui' = [NoUi EXCEPT !.session = ui.session + 1, !.open = TRUE, !.content = c,
                              !.queued = TRUE]
    /\ UNCHANGED <<box, used>> /\ Keeps

\* A change of the document, or of what only needs another frame.
EditDocument(c) ==
    /\ ui.open /\ used.edits < RendererEdits
    /\ ui' = [ui EXCEPT !.content = c, !.queued = TRUE]
    /\ Spend("edits") /\ UNCHANGED box /\ Keeps

\* Undo of an erased stroke: the accepted picture must not be taken for the restored one.
UndoErased(c) ==
    /\ ui.open /\ used.edits < RendererEdits
    /\ Become([Suspended(Now) EXCEPT !.ui.content = c, !.ui.hidden = FALSE, !.ui.drawn = FALSE,
                                     !.ui.queued = TRUE])
    /\ Spend("edits") /\ Keeps

CloseAnnotation ==
    /\ ui.open
    /\ Become([ui |-> [NoUi EXCEPT !.session = ui.session], box |-> Suspended(Now).box])
    /\ UNCHANGED used /\ Keeps

\* A render: the task, or the timer of the hand-over.
RenderAs(fault) ==
    /\ Become(Rendered([Now EXCEPT !.ui.timer = IF @ = "handoff" /\ ~ui.queued THEN "off" ELSE @],
                       fault))
    /\ IF fault = "none" THEN UNCHANGED used
       ELSE used.faults < RendererFaults /\ Spend("faults")
    /\ Keeps

Render(fault) == ui.queued /\ RenderAs(fault)

RetryHandoff(fault) == ui.timer = "handoff" /\ ~ui.queued /\ RenderAs(fault)

PollRenderer ==
    /\ ui.timer = "poll"
    /\ Become(Polled([Now EXCEPT !.ui.timer = "off"]))
    /\ UNCHANGED used /\ Keeps

\* The software has the effects of the document.
SampleArrives ==
    /\ ui.sampling /\ ui.masked # ui.content
    /\ ui' = [ui EXCEPT !.masked = ui.content, !.queued = TRUE]
    /\ UNCHANGED <<box, used>> /\ Keeps

DeadlinePasses ==
    /\ ui.waiting = "running" /\ used.faults < RendererFaults
    /\ ui' = [ui EXCEPT !.waiting = "passed"]
    /\ Spend("faults") /\ UNCHANGED box /\ Keeps

----------------------------------------
\* The desktop, the capture and the device.

NoDevice == [exists |-> FALSE, lost |-> FALSE, source |-> "off", published |-> NoVersion,
             changed |-> FALSE, owing |-> FALSE, effects |-> NoInputs, presented |-> NoStamp,
             inputs |-> NoInputs, candidate |-> NoCandidate, front |-> Dark]

Outside == UNCHANGED <<ui, box, gpu>>

DesktopChanges ==
    /\ desktop < RendererChanges
    /\ desktop' = desktop + 1
    /\ UNCHANGED <<device, used>> /\ Outside

\* The first frame of a capture that was started.
CaptureArrives ==
    /\ device.source = "starting"
    /\ device' = [device EXCEPT !.source = "live"]
    /\ UNCHANGED <<desktop, used>> /\ Outside

DeviceLost ==
    /\ device.exists /\ ~device.lost /\ used.faults < RendererFaults
    /\ device' = [device EXCEPT !.lost = TRUE]
    /\ Spend("faults") /\ UNCHANGED desktop /\ Outside

----------------------------------------
\* The worker.  gpu.at: at the top of its loop, about to compare, sample or compose a
\* scene, about to commit it, or about to publish its result.

Idle == [at |-> "loop", generation |-> 0, session |-> 0, shown |-> NoStamp,
         scope |-> [generation |-> 0, session |-> 0], attempted |-> FALSE, retained |-> Dark,
         scene |-> NoScene, waiting |-> FALSE, result |-> NoCompletion, error |-> FALSE]

Worker == UNCHANGED <<ui, desktop>>

Answers(completion) == gpu' = [gpu EXCEPT !.at = "publish", !.result = completion, !.error = FALSE]

Errs == gpu' = [gpu EXCEPT !.at = "publish", !.error = TRUE]

\* The answers for a scene: nothing sampled, or the effects that are complete.  While the
\* source is waited for, because it is compared or was not sampled, the answer says so.
Unsampled(wait) == Answers(Completion(gpu.scene.stamp, NoContent, FALSE, wait))

\* Mutant: complete effects count as presented, whatever the commit did.
ReadyShown(d, presented, wait) ==
    Answers(Completion(gpu.scene.stamp, d.effects.content, TRUE, wait))

Ready(d, presented, wait) ==
    Answers(Completion(gpu.scene.stamp, d.effects.content, presented,
                       IF gpu.waiting THEN "source" ELSE wait))

\* Another generation: everything of the one before is dropped.
Reset ==
    /\ gpu.at = "loop" /\ gpu.generation # box.generation
    /\ gpu' = [gpu EXCEPT !.generation = box.generation, !.session = 0, !.shown = NoStamp,
                          !.retained = Dark]
    /\ device' = NoDevice
    /\ UNCHANGED <<box, used>> /\ Worker

\* Mutant: a scene that was shown is never sampled again.
NeedsFirstFrame == gpu.shown # box.scene.stamp

NeedsFrame == \/ gpu.shown # box.scene.stamp
              \/ ~box.error /\ box.scene.content \in Glasses

\* A scene is taken: one not shown yet, one with live effects, or any when the device is lost.
Take ==
    /\ gpu.at = "loop" /\ gpu.generation = box.generation /\ box.scene # NoScene
    /\ NeedsFrame \/ device.lost
    /\ LET scope == [generation |-> gpu.generation, session |-> box.scene.stamp.session]
           new   == gpu.session # box.scene.stamp.session
       IN  /\ gpu' = [gpu EXCEPT !.at = IF NeedsFrame THEN "compare" ELSE "publish",
                                 !.error = ~NeedsFrame, !.waiting = TRUE,
                                 !.scene = box.scene, !.scope = scope,
                                 !.attempted = @ /\ gpu.scope = scope,
                                 !.session = scope.session,
                                 !.retained = IF new THEN Dark ELSE @]
           /\ device' = IF new THEN NoDevice ELSE device
    /\ UNCHANGED <<box, used>> /\ Worker

Stall == used.stalls < RendererStalls /\ Spend("stalls")

\* The renderer cannot be created, its device is lost, or it refuses a call.
Fails ==
    /\ gpu.at \in {"compare", "sample", "compose", "commit"}
    /\ \/ device.lost /\ UNCHANGED used
       \/ ~device.lost /\ used.faults < RendererFaults /\ Spend("faults")
    /\ Errs /\ UNCHANGED <<box, device>> /\ Worker

\* The output is settled: pixels equal to the ones shown need no commit, others do.
Resolved(d) ==
    IF Pixels(d.candidate.inputs.content, d.candidate.inputs.version) = d.front
      THEN LET latest == d.candidate.inputs = d.effects
           IN  /\ device' = [d EXCEPT !.presented = gpu.scene.stamp, !.inputs = d.candidate.inputs,
                                      !.candidate = NoCandidate, !.owing = @ /\ ~latest]
               /\ Ready(d, TRUE, "source") /\ UNCHANGED used
      ELSE /\ device' = d
           /\ \/ gpu' = [gpu EXCEPT !.at = "commit"] /\ UNCHANGED used
              \/ Stall /\ Ready(d, FALSE, "source")

\* A frozen output is settled before anything is sampled, for the scene it was composed for only.
Compare ==
    /\ gpu.at = "compare" /\ ~device.lost
    /\ LET d == IF device.exists THEN device ELSE [NoDevice EXCEPT !.exists = TRUE]
       IN  \/ /\ d.candidate # NoCandidate
              /\ Stall /\ Ready(d, FALSE, "source") /\ UNCHANGED device
           \/ /\ d.candidate # NoCandidate /\ d.candidate.stamp = gpu.scene.stamp
              /\ Resolved(d)
           \/ /\ d.candidate.stamp # gpu.scene.stamp
              /\ device' = [d EXCEPT !.candidate = NoCandidate]
              /\ gpu' = [gpu EXCEPT !.at = "sample"] /\ UNCHANGED used
    /\ UNCHANGED box /\ Worker

\* A scene without live effects stops the capture; a capture without a frame yet gives nothing.
Sample ==
    /\ gpu.at = "sample" /\ ~device.lost
    /\ IF gpu.scene.content \notin Glasses
         THEN /\ device' = [device EXCEPT !.source = "off", !.published = NoVersion,
                                          !.changed = FALSE]
              /\ gpu' = [gpu EXCEPT !.at = "compose", !.waiting = FALSE] /\ UNCHANGED used
         ELSE IF device.source # "live"
         THEN /\ device' = [device EXCEPT !.source = "starting"]
              /\ Unsampled("source") /\ UNCHANGED used
         ELSE \/ /\ device' = [device EXCEPT !.published = desktop,
                                             !.changed = @ \/ device.published # desktop,
                                             !.owing = @ \/ device.published # desktop]
                 /\ gpu' = [gpu EXCEPT !.at = "compose", !.waiting = FALSE]
                 /\ UNCHANGED used
              \/ /\ device.published # NoVersion /\ Stall /\ UNCHANGED device
                 /\ gpu' = [gpu EXCEPT !.at = "compose"]
    /\ UNCHANGED box /\ Worker

\* The effects are brought up to the sample when it or the document changed.
WithEffects(d, c) ==
    IF c \notin Glasses THEN [d EXCEPT !.effects = Inputs(c, 0), !.changed = FALSE]
    ELSE IF d.changed \/ d.effects.content # c
    THEN [d EXCEPT !.effects = Inputs(c, d.published), !.changed = FALSE] ELSE d

\* Nothing to show, windows that cannot take a frame yet, inputs that are shown already, or a
\* new output: the first one of the windows is known to differ, later ones are compared.
Compose ==
    /\ gpu.at = "compose" /\ ~device.lost
    /\ LET d == WithEffects(device, gpu.scene.content)
           c == [inputs |-> d.effects, stamp |-> gpu.scene.stamp]
       IN  IF ~device.owing /\ device.presented = gpu.scene.stamp
             THEN /\ Ready(device, TRUE, "none") /\ UNCHANGED <<device, used>>
             ELSE \/ Stall /\ Unsampled("presentation") /\ UNCHANGED device
                  \/ /\ d.inputs = d.effects
                     /\ device' = [d EXCEPT !.presented = gpu.scene.stamp, !.owing = FALSE]
                     /\ Ready(d, TRUE, "none") /\ UNCHANGED used
                  \/ /\ d.inputs # d.effects
                     /\ device' = [d EXCEPT !.candidate = c]
                     /\ IF d.front = Dark THEN gpu' = [gpu EXCEPT !.at = "commit"]
                        ELSE Ready(d, FALSE, "source")
                     /\ UNCHANGED used
    /\ UNCHANGED box /\ Worker

\* Under the lock: only the scene the mailbox still holds is shown.
Commit ==
    /\ gpu.at = "commit" /\ ~device.lost
    /\ LET c == device.candidate.inputs
           latest == c = device.effects
       IN  IF Owned(gpu.scene.stamp)
             THEN \/ /\ device' = [device EXCEPT !.front = Pixels(c.content, c.version),
                                                 !.presented = gpu.scene.stamp, !.inputs = c,
                                                 !.candidate = NoCandidate,
                                                 !.owing = @ /\ ~latest]
                     /\ Ready(device, TRUE, IF latest THEN "none" ELSE "source")
                     /\ UNCHANGED used
                  \/ Stall /\ Ready(device, FALSE, "presentation") /\ UNCHANGED device
             ELSE Ready(device, FALSE, "presentation") /\ UNCHANGED <<device, used>>
    /\ UNCHANGED box /\ Worker

\* The result of a scene that is no longer wanted is dropped.  A lost device, or one that
\* could not be created, is rebuilt once; the windows that were shown stay meanwhile.
Publish ==
    /\ gpu.at = "publish"
    /\ IF ~Owned(gpu.scene.stamp)
         THEN gpu' = [gpu EXCEPT !.at = "loop"] /\ UNCHANGED <<box, device>>
         ELSE IF ~gpu.error
         THEN /\ box' = [box EXCEPT !.completion = gpu.result, !.error = FALSE]
              /\ gpu' = [gpu EXCEPT !.at = "loop",
                                    !.shown = IF gpu.result.presented THEN gpu.scene.stamp ELSE @,
                                    !.retained = IF gpu.result.presented THEN Dark ELSE @]
              /\ UNCHANGED device
         ELSE IF (device.lost \/ ~device.exists) /\ ~gpu.attempted
         THEN /\ box' = [box EXCEPT !.completion = Completion(gpu.scene.stamp, NoContent, FALSE,
                                                              "recovering"),
                                    !.error = FALSE]
              /\ gpu' = [gpu EXCEPT !.at = "loop", !.attempted = TRUE, !.shown = NoStamp,
                                    !.retained = IF device.presented # NoStamp THEN device.front
                                                 ELSE @]
              /\ device' = NoDevice
         ELSE /\ box' = [box EXCEPT !.error = TRUE]
              /\ gpu' = [gpu EXCEPT !.at = "loop", !.shown = gpu.scene.stamp]
              /\ UNCHANGED device
    /\ UNCHANGED used /\ Worker

----------------------------------------
RendererInit ==
    /\ ui = NoUi
    /\ box = [scene |-> NoScene, completion |-> NoCompletion, error |-> FALSE, generation |-> 0]
    /\ gpu = Idle
    /\ device = NoDevice
    /\ desktop = 0
    /\ used = [edits |-> 0, faults |-> 0, stalls |-> 0]

RenderFaults == {"none", "submit", "hide", "draw"}

UiStep == (\E f \in RenderFaults : Render(f) \/ RetryHandoff(f)) \/ PollRenderer

GpuStep == Reset \/ Take \/ Compare \/ Sample \/ Compose \/ Commit \/ Publish \/ Fails

RendererNext ==
    \/ OpenAnnotation \/ CloseAnnotation
    \/ \E c \in Contents : EditDocument(c) \/ UndoErased(c)
    \/ UiStep \/ SampleArrives \/ DeadlinePasses
    \/ DesktopChanges \/ CaptureArrives \/ DeviceLost
    \/ GpuStep

\* The event loop runs its tasks and timers, the worker its loop, captures deliver.
RendererFairness ==
    /\ WF_rendererVars(\E f \in RenderFaults : Render(f))
    /\ WF_rendererVars(\E f \in RenderFaults : RetryHandoff(f))
    /\ WF_rendererVars(PollRenderer) /\ WF_rendererVars(SampleArrives)
    /\ WF_rendererVars(CaptureArrives) /\ WF_rendererVars(GpuStep)

RendererSpec == RendererInit /\ [][RendererNext]_rendererVars /\ RendererFairness

----------------------------------------
\* What is on the screen below the canvas: the windows of the renderer, or the kept ones.
Shown == IF device.front # Dark THEN device.front ELSE gpu.retained

\* A canvas the UI has given up is carried by native windows of its own session, whatever
\* fails, times out or is rebuilt meanwhile; and a blank canvas the UI has not given up is
\* about to be drawn, waits for an answer, or could not be drawn.
PictureCovered ==
    ui.open =>
        /\ ui.hidden => Shown # Dark /\ gpu.session = ui.session
        /\ (ui.canvas = Dark /\ ~ui.hidden) => ui.queued \/ ui.timer # "off" \/ ~ui.drawn

\* When the worker rests and the answer for the scene of the mailbox is that it is shown, the
\* windows show that scene over the desktop sampled last: no comparison, debt or commit of an
\* earlier scene, sample or device is taken for it.
FrameHonest ==
    (/\ gpu.at = "loop" /\ gpu.generation = box.generation
     /\ box.completion.presented
     /\ box.completion.stamp = box.scene.stamp /\ ~box.error)
        => Shown = Pixels(box.scene.content, device.published)

\* The picture the user sees is the document over the desktop as it is.
Follows ==
    IF ui.hidden THEN Shown = Pixels(ui.content, desktop)
    ELSE ui.drawn /\ ui.canvas = Drawing(ui.content, ui.content \in Glasses)

\* Once the user, the desktop and the faults rest, the user sees the document: by the native
\* windows or by the canvas, unless the last frame of the canvas could not be drawn.
PictureFollows == <>[](ui.open => Follows \/ (~ui.drawn /\ ~ui.hidden))
========================================
