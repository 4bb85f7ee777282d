---------------------- MODULE AnnotationRendererProofs ----------------------
(***************************************************************************)
(* Proof that the annotation picture is always covered, for any number of   *)
(* sessions, edits, changes of the desktop, faults and waits.               *)
(***************************************************************************)
EXTENDS AnnotationRenderer, TLAPS

Stamps      == [session : Nat, revision : Nat]
Content     == Contents \cup {NoContent}
Scenes      == [stamp : Stamps, content : Content]
Pictures    == [content : Content, shade : Int]
Waits       == {"none", "source", "presentation", "recovering"}
Completions == [stamp : Stamps, sampled : Content, presented : BOOLEAN, wait : Waits]
Sources     == [content : Content, version : Int]

UiStates ==
    [session : Nat, open : BOOLEAN, content : Content, revision : Nat, requested : Stamps,
     accepted : Content, confirmed : Stamps, waiting : {"none", "running", "passed"},
     active : BOOLEAN, failed : BOOLEAN, timer : {"off", "poll", "handoff"}, queued : BOOLEAN,
     hidden : BOOLEAN, drawn : BOOLEAN, canvas : Pictures, sampling : BOOLEAN, masked : Content]
Boxes == [scene : Scenes, completion : Completions, error : BOOLEAN, generation : Nat]
Sides == [ui : UiStates, box : Boxes]
Places == {"loop", "compare", "sample", "compose", "commit", "publish"}
Workers ==
    [at : Places, generation : Nat, session : Nat, shown : Stamps,
     scope : [generation : Nat, session : Nat], attempted : BOOLEAN, retained : Pictures,
     scene : Scenes, waiting : BOOLEAN, result : Completions, error : BOOLEAN]
Devices ==
    [exists : BOOLEAN, lost : BOOLEAN, source : {"off", "starting", "live"}, published : Int,
     changed : BOOLEAN, owing : BOOLEAN, effects : Sources, presented : Stamps, inputs : Sources,
     candidate : [inputs : Sources, stamp : Stamps], front : Pictures]

Usage == [edits : Nat, faults : Nat, stalls : Nat]

TypeOK ==
    /\ ui \in UiStates /\ box \in Boxes /\ gpu \in Workers /\ device \in Devices
    /\ desktop \in Nat /\ used \in Usage

----------------------------------------
\* The worker is at the generation of the mailbox, at the session of the UI, and shows something.
NativeShows(s) ==
    gpu.generation = s.box.generation /\ gpu.session = s.ui.session /\ Shown # Dark

\* The mailbox holds what the UI asked for in its session, and nothing when it asked for nothing.
Asked(s) ==
    /\ s.box.scene.stamp = s.ui.requested
    /\ s.ui.requested = NoStamp => s.box.scene = NoScene
    /\ s.ui.requested # NoStamp =>
          s.ui.requested.session = s.ui.session /\ s.box.scene.content \in Contents
    /\ s.ui.active => s.ui.requested # NoStamp /\ ~s.ui.failed
    /\ s.ui.timer = "poll" => ~s.ui.failed
    /\ s.ui.open => s.ui.content \in Contents
    /\ ~s.ui.open => s.ui.requested = NoStamp /\ ~s.ui.queued /\ s.ui.timer = "off"

\* What the answer says, and what the UI took over from it, is on the screen.
Carried(s) ==
    /\ s.box.completion.presented => s.ui.requested # NoStamp
    /\ s.box.completion.presented \/ s.ui.active \/ Retaining(s.ui) => NativeShows(s)
    /\ s.ui.hidden => s.ui.active \/ Retaining(s.ui)

\* The picture that became active is handed over by the render that is queued, and a blank
\* canvas is not forgotten; a closed annotation expects nothing.
Expected(s) ==
    /\ ~s.ui.open => ~s.ui.sampling /\ s.ui.waiting = "none"
    /\ s.ui.active => s.ui.hidden \/ s.ui.queued
    /\ (s.ui.open /\ s.ui.canvas = Dark /\ ~s.ui.hidden) =>
          s.ui.queued \/ s.ui.timer # "off" \/ ~s.ui.drawn

\* The windows of the device show something exactly when something was presented.
Fronted(d) ==
    /\ d.presented # NoStamp <=> d.front # Dark
    /\ d.inputs.content # NoContent => d.front # Dark
    /\ d.candidate # NoCandidate => d.candidate.inputs.content \in Contents
    /\ ~d.exists => d.front = Dark /\ d.candidate = NoCandidate

\* The worker is at a scene of its session, and says presented only of what it shows.
AtScene ==
    /\ gpu.at # "loop" =>
          /\ gpu.session = gpu.scene.stamp.session
          /\ gpu.scene.stamp # NoStamp /\ gpu.scene.content \in Contents
    /\ gpu.at \in {"sample", "compose", "commit"} => device.exists
    /\ gpu.at = "commit" => device.candidate # NoCandidate
    /\ (gpu.at = "publish" /\ ~gpu.error /\ gpu.result.presented) => device.front # Dark

Good(s) == s \in Sides /\ Asked(s) /\ Carried(s)

\* How a step of the UI moves the mailbox: it empties it, leaves its scene and what was said of
\* it, or puts in a scene under a later stamp; no answer comes from the UI.
Steps(s, t) ==
    /\ t.ui.session = s.ui.session /\ t.ui.open = s.ui.open /\ t.ui.revision >= s.ui.revision
    /\ t.box.completion.presented => t.box.completion = s.box.completion
    /\ \/ t.box.scene = NoScene
       \/ t.box.scene = s.box.scene /\ t.box.error = s.box.error
       \/ /\ t.box.scene.stamp.session = s.ui.session
          /\ t.box.scene.stamp.revision > s.ui.revision
          /\ t.box.scene.stamp.revision <= t.ui.revision

IInv == TypeOK /\ Good(Now) /\ Expected(Now) /\ Fronted(device) /\ AtScene

----------------------------------------
\* What the worker knows by a stamp, and the content it takes it for.
Labels ==
    {box.scene, gpu.scene,
     [stamp |-> device.presented, content |-> device.inputs.content],
     [stamp |-> device.candidate.stamp, content |-> device.candidate.inputs.content]}

\* A stamp of the UI's past: the next scene gets another one.
OldFor(u, stamp) ==
    /\ stamp.session <= u.session
    /\ u.open /\ stamp.session = u.session => stamp.revision <= u.revision

Old(stamp) == OldFor(ui, stamp)

\* A stamp stands for one content, and all of them were given out by the UI.
Labelled ==
    /\ \A l \in Labels : Old(l.stamp)
    /\ \A l, m \in Labels : l.stamp = m.stamp /\ l.stamp # NoStamp => l.content = m.content
    /\ box.completion.presented => Old(box.completion.stamp)

\* The effects d has are those of the sample it took last.
Fresh(d) == d.effects.content \in Glasses => d.effects.version = d.published

\* What the windows show was composed from the inputs, which are the latest ones unless the
\* device owes a frame; a candidate is always composed from the latest ones.
Composed(d) ==
    /\ d.presented # NoStamp => d.front = Pixels(d.inputs.content, d.inputs.version)
    /\ ~d.changed /\ d.published # NoVersion => Fresh(d)
    /\ d.candidate # NoCandidate => d.candidate.inputs = d.effects /\ Fresh(d)
    /\ (/\ ~d.owing /\ d.presented # NoStamp /\ d.published # NoVersion
        /\ d.inputs.content \in Glasses) => d.inputs.version = d.published

\* What a step of the worker relies on: no candidate outlives a sample, a live effect has one,
\* and what is said to be presented shows the scene.
Honest ==
    /\ gpu.at \in {"sample", "compose"} => device.candidate = NoCandidate
    /\ gpu.at = "compose" /\ gpu.scene.content \in Glasses => device.published # NoVersion
    /\ gpu.at = "commit" => device.candidate.stamp = gpu.scene.stamp
    /\ gpu.at = "publish" /\ ~gpu.error =>
          /\ gpu.result.stamp = gpu.scene.stamp
          /\ gpu.result.presented =>
                device.front = Pixels(gpu.scene.content, device.published)

\* The answer for the scene of the mailbox was given for the scene the worker took last.
Answered ==
    box.completion.presented /\ box.completion.stamp = box.scene.stamp =>
        /\ gpu.scene.stamp = box.scene.stamp
        /\ gpu.at = "loop" /\ ~box.error =>
              device.front = Pixels(box.scene.content, device.published)

HonestInv == Labelled /\ Composed(device) /\ Honest /\ Answered

----------------------------------------
\* The presenter: each of its functions keeps the relation of the UI and the mailbox.

LEMMA ValuesOK ==
    /\ NoContent \notin Contents /\ NoContent \in Content /\ Contents \subseteq Content
    /\ NoStamp \in Stamps /\ NoScene \in Scenes /\ NoCompletion \in Completions
    /\ Dark \in Pictures /\ NoInputs \in Sources
BY RendererConstants
   DEF Content, Contents, Stamps, NoStamp, Scenes, NoScene, Completions, NoCompletion, Completion,
       Waits, Dark, Pixels, Pictures, NoInputs, Inputs, NoVersion, Sources

\* A picture of the document, by the native windows or by the software, is not blank.
LEMMA DrawnIsNotDark ==
    /\ \A c \in Contents, v \in Int : Pixels(c, v) # Dark /\ Pixels(c, v) \in Pictures
    /\ \A c \in Contents, m \in BOOLEAN : Drawing(c, m) # Dark /\ Drawing(c, m) \in Pictures
BY ValuesOK DEF Pixels, Drawing, Dark, Pictures

LEMMA StepsTransitive ==
    ASSUME NEW s \in Sides, NEW t \in Sides, NEW v \in Sides, Steps(s, t), Steps(t, v)
    PROVE  Steps(s, v)
  BY DEF Sides, UiStates, Boxes, Scenes, Stamps, Steps

LEMMA SameSteps ==
    ASSUME NEW s \in Sides, NEW t, t.box = s.box, t.ui.session = s.ui.session,
           t.ui.open = s.ui.open, t.ui.revision = s.ui.revision
    PROVE  Steps(s, t)
  BY DEF Sides, UiStates, Steps

LEMMA EmptiedType ==
    ASSUME NEW b \in Boxes
    PROVE  /\ Emptied(b) \in Boxes /\ Emptied(b).scene = NoScene
           /\ ~Emptied(b).completion.presented
<1>1. ~NoCompletion.presented BY DEF NoCompletion, Completion
<1>2. NoScene \in Scenes /\ NoCompletion \in Completions BY ValuesOK
<1>3. b.generation + 1 \in Nat BY DEF Boxes
<1>4. Emptied(b) \in Boxes BY <1>2, <1>3 DEF Boxes, Emptied
<1>5. Emptied(b).scene = NoScene /\ Emptied(b).completion = NoCompletion BY DEF Boxes, Emptied
<1>6. QED BY <1>1, <1>4, <1>5

\* Giving the native picture back leaves nothing asked for and nothing carried.
LEMMA SuspendedKeeps ==
    ASSUME NEW s, s \in Sides, Asked(s), Carried(s)
    PROVE  LET t == Suspended(s)
           IN  /\ t \in Sides /\ Asked(t) /\ Steps(s, t)
               /\ t.box.scene = NoScene /\ ~t.box.completion.presented
               /\ t.ui.requested = NoStamp /\ ~t.ui.active /\ t.ui.timer = "off"
               /\ t.ui.open = s.ui.open /\ t.ui.hidden = s.ui.hidden
               /\ t.ui.canvas = s.ui.canvas /\ t.ui.drawn = s.ui.drawn
               /\ t.ui.failed = s.ui.failed /\ t.ui.queued = s.ui.queued
<1> DEFINE u == [s.ui EXCEPT !.timer = "off", !.requested = NoStamp, !.accepted = NoContent,
                             !.confirmed = NoStamp, !.waiting = "none", !.active = FALSE]
           b == IF s.ui.requested # NoStamp THEN Emptied(s.box) ELSE s.box
<1>1. u \in UiStates BY ValuesOK DEF Sides, UiStates
<1>2. b \in Boxes /\ b.scene = NoScene /\ ~b.completion.presented
      BY EmptiedType DEF Sides, Asked, Carried
<1>3. Suspended(s) = [ui |-> u, box |-> b] BY DEF Suspended
<1>4. /\ u.requested = NoStamp /\ ~u.active /\ u.timer = "off"
      /\ u.open = s.ui.open /\ u.hidden = s.ui.hidden /\ u.canvas = s.ui.canvas
      /\ u.drawn = s.ui.drawn /\ u.failed = s.ui.failed /\ u.queued = s.ui.queued
      /\ u.content = s.ui.content /\ u.session = s.ui.session /\ u.revision = s.ui.revision
      /\ u.revision \in Nat
      BY DEF Sides, UiStates
<1>8. \/ b.scene = NoScene /\ ~b.completion.presented
      \/ b = s.box
      BY <1>2
<1> HIDE DEF u, b
<1>9. Steps(s, [ui |-> u, box |-> b]) BY <1>2, <1>4, <1>8 DEF Steps
<1>5. Asked([ui |-> u, box |-> b]) BY <1>2, <1>4 DEF Asked, NoScene
<1>6. [ui |-> u, box |-> b] \in Sides BY <1>1, <1>2 DEF Sides
<1>7. QED BY <1>2, <1>3, <1>4, <1>5, <1>6, <1>9

\* After a failure the software draws; a native picture that is shown is retained.
LEMMA FailingKeeps ==
    ASSUME NEW s, s \in Sides, Asked(s), Carried(s)
    PROVE  LET t == Failing(s)
           IN  /\ t \in Sides /\ Asked(t) /\ Carried(t) /\ Steps(s, t)
               /\ t.ui.failed /\ ~t.ui.active /\ t.ui.open = s.ui.open
               /\ t.ui.canvas = s.ui.canvas /\ t.ui.drawn = s.ui.drawn
<1> DEFINE k == [s EXCEPT !.ui.timer = "off", !.ui.waiting = "none", !.ui.active = FALSE]
           r == IF s.ui.active \/ Retaining(s.ui) THEN k ELSE Suspended(s)
           t == [r EXCEPT !.ui.failed = TRUE]
<1>1. /\ k \in Sides /\ k.box = s.box /\ k.ui.timer = "off" /\ ~k.ui.active
      /\ k.ui.requested = s.ui.requested /\ k.ui.session = s.ui.session
      /\ k.ui.open = s.ui.open /\ k.ui.hidden = s.ui.hidden /\ k.ui.content = s.ui.content
      /\ k.ui.canvas = s.ui.canvas /\ k.ui.drawn = s.ui.drawn /\ k.ui.queued = s.ui.queued
      /\ k.ui.revision = s.ui.revision
      BY DEF Sides, UiStates
<1>2. r \in Sides /\ Asked(r) /\ Steps(s, r) /\ ~r.ui.active /\ r.ui.timer = "off"
      /\ r.ui.open = s.ui.open /\ r.ui.canvas = s.ui.canvas /\ r.ui.drawn = s.ui.drawn
      /\ (r.box.completion.presented => r.ui.requested # NoStamp /\ NativeShows(r))
      /\ (r.ui.requested # NoStamp => NativeShows(r))
      /\ (r.ui.hidden => r.ui.requested # NoStamp)
  <2>1. CASE s.ui.active \/ Retaining(s.ui)
        BY <1>1, <2>1, SameSteps DEF Asked, Carried, NativeShows, Retaining
  <2>2. CASE ~(s.ui.active \/ Retaining(s.ui)) BY <2>2, SuspendedKeeps DEF Carried
  <2>3. QED BY <2>1, <2>2
<1> HIDE DEF k, r
<1>3. /\ t \in Sides /\ t.box = r.box /\ t.ui.timer = "off" /\ ~t.ui.active /\ t.ui.failed
      /\ t.ui.requested = r.ui.requested /\ t.ui.session = r.ui.session
      /\ t.ui.open = r.ui.open /\ t.ui.hidden = r.ui.hidden /\ t.ui.content = r.ui.content
      /\ t.ui.canvas = r.ui.canvas /\ t.ui.drawn = r.ui.drawn /\ t.ui.queued = r.ui.queued
      /\ t.ui.revision = r.ui.revision
      BY <1>2 DEF Sides, UiStates
<1>4. Failing(s) = t BY DEF Failing, k, r
<1> HIDE DEF t
<1>5. Asked(t) /\ Carried(t) BY <1>2, <1>3 DEF Asked, Carried, NativeShows, Retaining
<1>6. Steps(s, t) BY <1>2, <1>3, SameSteps, StepsTransitive
<1>7. QED BY <1>2, <1>3, <1>4, <1>5, <1>6

\* A scene is asked for under a stamp of its own, and is in the mailbox then.
LEMMA SubmittedKeeps ==
    ASSUME NEW s, s \in Sides, Asked(s), Carried(s), s.ui.open, ~s.ui.failed
    PROVE  LET t == Submitted(s)
           IN  /\ t \in Sides /\ Asked(t) /\ Carried(t) /\ ~t.ui.failed
               /\ Steps(s, t)
               /\ t.ui.open = s.ui.open /\ t.ui.content = s.ui.content
<1> DEFINE stamp == [session |-> s.ui.session, revision |-> s.ui.revision + 1]
           scene == [stamp |-> stamp, content |-> s.ui.content]
           u == [s.ui EXCEPT !.revision = @ + 1, !.requested = stamp,
                             !.accepted = s.ui.content,
                             !.waiting = IF @ = "none" THEN "running" ELSE @]
           b == Delivered(s.box, scene)
<1>1. stamp \in Stamps /\ stamp # NoStamp /\ stamp.session = s.ui.session
      BY DEF Sides, UiStates, Stamps, NoStamp
<1>2. s.ui.content \in Contents BY DEF Asked
<1> HIDE DEF stamp
<1>u. u \in UiStates
  <2>1. s.ui.revision + 1 \in Nat /\ s.ui.content \in Content /\ s.ui \in UiStates
        BY DEF Sides, UiStates
  <2>2. QED BY <1>1, <2>1 DEF UiStates
<1>3. /\ u.requested = stamp /\ u.session = s.ui.session
      /\ u.open = s.ui.open /\ u.active = s.ui.active /\ u.failed = s.ui.failed
      /\ u.timer = s.ui.timer /\ u.hidden = s.ui.hidden /\ u.content = s.ui.content
      /\ u.queued = s.ui.queued /\ u.revision = s.ui.revision + 1
      BY DEF Sides, UiStates
<1>4. b \in Boxes /\ b.scene.stamp = stamp /\ b.scene.content \in Contents
      /\ b.completion = s.box.completion /\ b.generation = s.box.generation
      BY <1>1, <1>2, ValuesOK DEF Sides, Boxes, Delivered, Scenes, Asked
<1>n. stamp.revision = s.ui.revision + 1 /\ s.ui.revision \in Nat
      BY DEF stamp, Sides, UiStates
<1>5. Submitted(s) = IF s.ui.accepted = s.ui.content THEN s ELSE [ui |-> u, box |-> b]
      BY DEF Submitted, stamp
<1> HIDE DEF u, b
<1>6. [ui |-> u, box |-> b] \in Sides BY <1>u, <1>4 DEF Sides
<1>7. Asked([ui |-> u, box |-> b]) /\ Carried([ui |-> u, box |-> b])
      BY <1>1, <1>2, <1>3, <1>4 DEF Asked, Carried, NativeShows, Retaining
<1>s. Steps(s, [ui |-> u, box |-> b])
  <2> DEFINE t == [ui |-> u, box |-> b]
  <2>1. t.ui = u /\ t.box = b OBVIOUS
  <2> HIDE DEF t
  <2>2. /\ t.box.scene.stamp.session = s.ui.session
        /\ t.box.scene.stamp.revision > s.ui.revision
        /\ t.box.scene.stamp.revision <= t.ui.revision
        /\ t.ui.revision >= s.ui.revision
        BY <1>1, <1>3, <1>4, <1>n, <2>1
  <2>3. Steps(s, t) BY <1>3, <1>4, <2>1, <2>2 DEF Steps
  <2>4. QED BY <2>3 DEF t
<1>8. CASE s.ui.accepted = s.ui.content BY <1>5, <1>8, SameSteps
<1>9. CASE s.ui.accepted # s.ui.content
  <2>1. Submitted(s) = [ui |-> u, box |-> b] BY <1>5, <1>9
  <2>2. [ui |-> u, box |-> b].ui = u OBVIOUS
  <2>3. QED BY <1>3, <1>6, <1>7, <1>s, <2>1, <2>2
<1>10. QED BY <1>8, <1>9

\* A timer changes nothing else; the poll belongs to a presenter that did not fail.
LEMMA ArmedKeeps ==
    ASSUME NEW s, s \in Sides, Asked(s), Carried(s), s.ui.open, NEW kind \in {"poll", "handoff"},
           kind = "poll" => ~s.ui.failed
    PROVE  LET t == Armed(s, kind)
           IN  /\ t \in Sides /\ Asked(t) /\ Carried(t) /\ t.ui.timer # "off"
               /\ Steps(s, t)
               /\ t.box = s.box /\ t.ui.active = s.ui.active /\ t.ui.failed = s.ui.failed
               /\ t.ui.open = s.ui.open /\ t.ui.hidden = s.ui.hidden
               /\ t.ui.queued = s.ui.queued /\ t.ui.canvas = s.ui.canvas
               /\ t.ui.drawn = s.ui.drawn /\ t.ui.content = s.ui.content
<1> DEFINE t == [s EXCEPT !.ui.timer = kind]
<1>1. /\ t \in Sides /\ t.box = s.box /\ t.ui.timer = kind /\ t.ui.active = s.ui.active
      /\ t.ui.failed = s.ui.failed /\ t.ui.open = s.ui.open /\ t.ui.hidden = s.ui.hidden
      /\ t.ui.queued = s.ui.queued /\ t.ui.canvas = s.ui.canvas /\ t.ui.drawn = s.ui.drawn
      /\ t.ui.content = s.ui.content /\ t.ui.requested = s.ui.requested
      /\ t.ui.session = s.ui.session /\ t.ui.revision = s.ui.revision
      BY DEF Sides, UiStates
<1>2. Armed(s, kind) = IF s.ui.timer = "off" THEN t ELSE s BY DEF Armed
<1> HIDE DEF t
<1>3. Asked(t) /\ Carried(t) BY <1>1 DEF Asked, Carried, NativeShows, Retaining
<1>4. QED BY <1>1, <1>2, <1>3, SameSteps

\* The native part of a render: while it is active, the canvas is given up.
LEMMA NativeRenderKeeps ==
    ASSUME NEW s, s \in Sides, Asked(s), Carried(s), s.ui.open, NEW fault
    PROVE  LET t == NativeRender(s, fault)
           IN  /\ t \in Sides /\ Asked(t) /\ Carried(t) /\ t.ui.open /\ Steps(s, t)
               /\ Available(t.ui) /\ t.ui.active => t.ui.hidden
<1> DEFINE r == [s EXCEPT !.ui.sampling = FALSE, !.ui.masked = NoContent]
           sent == IF ~Available(s.ui) THEN s
                   ELSE IF fault = "submit" /\ s.ui.accepted # s.ui.content THEN Failing(r)
                   ELSE Armed(Submitted(r), "poll")
           blank == [sent EXCEPT !.ui.drawn = FALSE]
           away == [sent EXCEPT !.ui.hidden = TRUE, !.ui.canvas = Dark, !.ui.drawn = FALSE]
<1>1. /\ r \in Sides /\ r.box = s.box /\ r.ui.timer = s.ui.timer /\ r.ui.active = s.ui.active
      /\ r.ui.failed = s.ui.failed /\ r.ui.open = s.ui.open /\ r.ui.hidden = s.ui.hidden
      /\ r.ui.queued = s.ui.queued /\ r.ui.content = s.ui.content
      /\ r.ui.requested = s.ui.requested /\ r.ui.session = s.ui.session
      /\ r.ui.revision = s.ui.revision
      BY ValuesOK DEF Sides, UiStates
<1> HIDE DEF r
<1>2. Asked(r) /\ Carried(r) /\ Steps(s, r)
      BY ZenonT(60), <1>1, SameSteps DEF Asked, Carried, NativeShows, Retaining
<1>3. sent \in Sides /\ Asked(sent) /\ Carried(sent) /\ sent.ui.open /\ Steps(s, sent)
  <2>1. CASE ~Available(s.ui) BY <2>1, SameSteps
  <2>2. LET t == Failing(r)
        IN  t \in Sides /\ Asked(t) /\ Carried(t) /\ t.ui.open /\ Steps(s, t)
        BY <1>1, <1>2, FailingKeeps, StepsTransitive
  <2>3. CASE Available(s.ui)
    <3>1. LET t == Submitted(r)
          IN  t \in Sides /\ Asked(t) /\ Carried(t) /\ ~t.ui.failed /\ t.ui.open
              /\ Steps(s, t)
          BY <1>1, <1>2, <2>3, SubmittedKeeps, StepsTransitive DEF Available
    <3>2. LET t == Armed(Submitted(r), "poll")
          IN  t \in Sides /\ Asked(t) /\ Carried(t) /\ t.ui.open /\ Steps(s, t)
          BY <3>1, ArmedKeeps, StepsTransitive
    <3>3. QED BY <2>2, <2>3, <3>2
  <2>4. QED BY <2>1, <2>3
<1>4. NativeRender(s, fault) =
          IF ~(Available(s.ui) /\ sent.ui.active) \/ sent.ui.hidden THEN sent
          ELSE IF fault = "hide" THEN Failing(blank) ELSE away
      BY DEF NativeRender, r
<1>5. Available(s.ui) \/ sent.ui.failed BY DEF Available
<1> HIDE DEF sent
<1>6. /\ blank \in Sides /\ blank.box = sent.box /\ blank.ui.timer = sent.ui.timer
      /\ blank.ui.active = sent.ui.active /\ blank.ui.failed = sent.ui.failed
      /\ blank.ui.open = sent.ui.open /\ blank.ui.hidden = sent.ui.hidden
      /\ blank.ui.queued = sent.ui.queued /\ blank.ui.content = sent.ui.content
      /\ blank.ui.requested = sent.ui.requested /\ blank.ui.session = sent.ui.session
      /\ blank.ui.revision = sent.ui.revision
      BY <1>3 DEF Sides, UiStates
<1>7. /\ away \in Sides /\ away.box = sent.box /\ away.ui.timer = sent.ui.timer
      /\ away.ui.active = sent.ui.active /\ away.ui.failed = sent.ui.failed
      /\ away.ui.open = sent.ui.open /\ away.ui.hidden
      /\ away.ui.queued = sent.ui.queued /\ away.ui.content = sent.ui.content
      /\ away.ui.requested = sent.ui.requested /\ away.ui.session = sent.ui.session
      /\ away.ui.revision = sent.ui.revision
      BY ZenonT(60), <1>3, ValuesOK DEF Sides, UiStates
<1> HIDE DEF blank, away
<1>8. CASE ~(Available(s.ui) /\ sent.ui.active) \/ sent.ui.hidden
      BY <1>3, <1>4, <1>5, <1>8 DEF Available
<1>9. CASE Available(s.ui) /\ sent.ui.active /\ ~sent.ui.hidden
  <2>1. Asked(blank) /\ Carried(blank) /\ Steps(s, blank)
        BY ZenonT(60), <1>3, <1>6, SameSteps, StepsTransitive DEF Asked, Carried, NativeShows,
           Retaining
  <2>2. LET t == Failing(blank)
        IN  t \in Sides /\ Asked(t) /\ Carried(t) /\ t.ui.open /\ ~Available(t.ui) /\ Steps(s, t)
        BY <1>3, <1>6, <2>1, FailingKeeps, StepsTransitive DEF Available
  <2>3. Asked(away) /\ Carried(away) /\ Steps(s, away)
        BY ZenonT(60), <1>3, <1>7, <1>9, SameSteps, StepsTransitive DEF Asked, Carried, NativeShows,
           Retaining
  <2>4. QED BY <1>3, <1>4, <1>7, <1>9, <2>2, <2>3
<1>10. QED BY <1>8, <1>9

\* The software part: the canvas is drawn, or the frame failed and is noted as not drawn.
LEMMA SoftwareRenderKeeps ==
    ASSUME NEW s, s \in Sides, Asked(s), Carried(s), s.ui.open, ~s.ui.active, NEW fault
    PROVE  LET t == SoftwareRender(s, fault)
           IN  /\ t \in Sides /\ Asked(t) /\ Carried(t) /\ t.ui.open /\ Steps(s, t)
               /\ ~t.ui.active /\ ~t.ui.hidden
               /\ t.ui.canvas = Dark => ~t.ui.drawn
<1> DEFINE u == IF Available(s.ui) THEN s.ui
                ELSE [s.ui EXCEPT !.sampling = s.ui.content \in Glasses,
                                  !.masked = IF s.ui.content \in Glasses THEN @ ELSE NoContent]
           frame == Drawing(u.content, u.masked = u.content)
           w == [u EXCEPT !.hidden = FALSE, !.canvas = IF fault = "draw" THEN @ ELSE frame,
                          !.drawn = fault # "draw"]
<1>1. /\ u \in UiStates /\ u.timer = s.ui.timer /\ u.active = s.ui.active
      /\ u.failed = s.ui.failed /\ u.open = s.ui.open /\ u.queued = s.ui.queued
      /\ u.content = s.ui.content /\ u.requested = s.ui.requested /\ u.session = s.ui.session
      /\ u.revision = s.ui.revision
  <2> DEFINE live == s.ui.content \in Glasses
             mask == IF s.ui.content \in Glasses THEN s.ui.masked ELSE NoContent
             v == [s.ui EXCEPT !.sampling = live, !.masked = mask]
  <2>1. live \in BOOLEAN /\ mask \in Content /\ s.ui \in UiStates BY ValuesOK DEF Sides, UiStates
  <2>5. u = IF Available(s.ui) THEN s.ui ELSE v OBVIOUS
  <2> HIDE DEF live, mask
  <2>2. v \in UiStates BY <2>1 DEF UiStates
  <2>3. /\ v.timer = s.ui.timer /\ v.active = s.ui.active
        /\ v.failed = s.ui.failed /\ v.open = s.ui.open /\ v.queued = s.ui.queued
        /\ v.content = s.ui.content /\ v.requested = s.ui.requested
        /\ v.session = s.ui.session /\ v.revision = s.ui.revision
        BY DEF Sides, UiStates
  <2> HIDE DEF v
  <2>4. QED BY <2>1, <2>2, <2>3, <2>5
<1> HIDE DEF u
<1>2. frame \in Pictures /\ frame # Dark BY <1>1, DrawnIsNotDark DEF Asked
<1> HIDE DEF frame
<1>3. /\ w \in UiStates /\ w.timer = u.timer /\ w.active = u.active /\ w.failed = u.failed
      /\ w.open = u.open /\ w.queued = u.queued /\ w.content = u.content
      /\ w.requested = u.requested /\ w.session = u.session /\ ~w.hidden
      /\ w.revision = u.revision
      /\ w.canvas = (IF fault = "draw" THEN u.canvas ELSE frame) /\ w.drawn = (fault # "draw")
      BY ZenonT(60), <1>1, <1>2 DEF UiStates
<1>4. SoftwareRender(s, fault) = [s EXCEPT !.ui = w] BY DEF SoftwareRender, u, frame
<1> HIDE DEF w
<1> DEFINE t == [s EXCEPT !.ui = w]
<1>5. t \in Sides /\ t.ui = w /\ t.box = s.box BY <1>3 DEF Sides
<1> HIDE DEF t
<1>6. Asked(t) /\ Carried(t) /\ Steps(s, t)
      BY ZenonT(60), <1>1, <1>3, <1>5, SameSteps DEF Asked, Carried, NativeShows, Retaining
<1>7. QED BY ZenonT(60), <1>1, <1>2, <1>3, <1>4, <1>5, <1>6 DEF t

\* The native picture that was retained is given back only while the canvas is drawn.
LEMMA HandedOverKeeps ==
    ASSUME NEW s, s \in Sides, Asked(s), Carried(s), s.ui.open, ~s.ui.active, ~s.ui.hidden,
           s.ui.canvas = Dark => ~s.ui.drawn
    PROVE  LET t == HandedOver(s)
           IN  t \in Sides /\ Asked(t) /\ Carried(t) /\ Expected(t) /\ Steps(s, t)
  BY SuspendedKeeps, ArmedKeeps, SameSteps DEF Carried, Expected, Retaining, HandedOver

LEMMA RenderedKeeps ==
    ASSUME NEW s, s \in Sides, Asked(s), Carried(s), s.ui.open, NEW fault
    PROVE  LET t == Rendered(s, fault)
           IN  t \in Sides /\ Asked(t) /\ Carried(t) /\ Expected(t) /\ Steps(s, t)
<1> DEFINE r == [s EXCEPT !.ui.queued = FALSE]
           n == NativeRender(r, fault)
<1>1. /\ r \in Sides /\ r.box = s.box /\ r.ui.timer = s.ui.timer /\ r.ui.active = s.ui.active
      /\ r.ui.failed = s.ui.failed /\ r.ui.open = s.ui.open /\ r.ui.hidden = s.ui.hidden
      /\ r.ui.content = s.ui.content /\ ~r.ui.queued
      /\ r.ui.requested = s.ui.requested /\ r.ui.session = s.ui.session
      /\ r.ui.revision = s.ui.revision
      BY DEF Sides, UiStates
<1>2. Rendered(s, fault) = IF Available(n.ui) /\ n.ui.active THEN n
                           ELSE HandedOver(SoftwareRender(n, fault))
      BY DEF Rendered
<1> HIDE DEF r
<1>3. Asked(r) /\ Carried(r) /\ Steps(s, r)
      BY ZenonT(60), <1>1, SameSteps DEF Asked, Carried, NativeShows, Retaining
<1>4. /\ n \in Sides /\ Asked(n) /\ Carried(n) /\ n.ui.open
      /\ Available(n.ui) /\ n.ui.active => n.ui.hidden
      /\ Steps(s, n)
      BY <1>1, <1>3, NativeRenderKeeps, StepsTransitive
<1> HIDE DEF n
<1>5. CASE Available(n.ui) /\ n.ui.active BY <1>2, <1>4, <1>5 DEF Expected
<1>6. CASE ~(Available(n.ui) /\ n.ui.active)
  <2>1. ~n.ui.active BY <1>4, <1>6 DEF Asked, Available
  <2> DEFINE t == SoftwareRender(n, fault)
  <2>2. /\ t \in Sides /\ Asked(t) /\ Carried(t) /\ t.ui.open
        /\ ~t.ui.active /\ ~t.ui.hidden
        /\ t.ui.canvas = Dark => ~t.ui.drawn
        /\ Steps(s, t)
        BY <1>4, <2>1, SoftwareRenderKeeps, StepsTransitive
  <2>3. Rendered(s, fault) = HandedOver(t) BY <1>2, <1>6
  <2> HIDE DEF t
  <2>4. QED BY <2>2, <2>3, HandedOverKeeps, StepsTransitive
<1>7. QED BY <1>5, <1>6

\* A poll that takes an answer over has one that says presented, and queues the render.
LEMMA PolledKeeps ==
    ASSUME NEW s, s \in Sides, Asked(s), Carried(s), s.ui.open, ~s.ui.failed,
           s.ui.active => s.ui.hidden \/ s.ui.queued
    PROVE  LET t == Polled(s)
           IN  t \in Sides /\ Asked(t) /\ Carried(t) /\ Expected(t) /\ Steps(s, t)
<1> DEFINE c == s.box.completion
           recovering == c.stamp = s.ui.requested /\ ~c.presented /\ c.wait = "recovering"
           u == IF Confirms(s.ui, c) THEN Confirmed(s.ui, c)
                ELSE IF recovering /\ s.ui.waiting = "none"
                THEN [s.ui EXCEPT !.waiting = "running"]
                ELSE s.ui
           t == [s EXCEPT !.ui = u]
           ready == IF c.stamp # u.requested \/ Live(u) THEN Armed(t, "poll") ELSE t
           drop(x) == [x EXCEPT !.ui.queued = TRUE]
           later == [ready EXCEPT !.ui.queued = @ \/ ~s.ui.active]
<1>1. Polled(s) = IF s.box.error THEN drop(Failing(s))
                  ELSE IF u.waiting = "passed" THEN drop(Failing(t))
                  ELSE IF ~Confirms(s.ui, c) THEN Armed(t, "poll") ELSE later
      BY DEF Polled
<1>2. \A x : x \in Sides /\ Asked(x) /\ Carried(x) /\ x.ui.open /\ ~x.ui.active
             => LET y == drop(x)
                IN  y \in Sides /\ Asked(y) /\ Carried(y) /\ Expected(y) /\ Steps(x, y)
  <2> SUFFICES ASSUME NEW x, x \in Sides, Asked(x), Carried(x), x.ui.open, ~x.ui.active
               PROVE  /\ drop(x) \in Sides /\ Asked(drop(x)) /\ Carried(drop(x))
                      /\ Expected(drop(x)) /\ Steps(x, drop(x))
      OBVIOUS
  <2> DEFINE y == drop(x)
  <2>1. /\ y \in Sides /\ y.box = x.box /\ y.ui.timer = x.ui.timer /\ ~y.ui.active
        /\ y.ui.failed = x.ui.failed /\ y.ui.open /\ y.ui.hidden = x.ui.hidden
        /\ y.ui.content = x.ui.content /\ y.ui.queued
        /\ y.ui.requested = x.ui.requested /\ y.ui.session = x.ui.session
        /\ y.ui.revision = x.ui.revision
        BY DEF Sides, UiStates
  <2> HIDE DEF y
  <2>2. Asked(y) /\ Carried(y) /\ Expected(y) /\ Steps(x, y)
        BY ZenonT(60), <2>1, SameSteps DEF Asked, Carried, Expected, NativeShows, Retaining
  <2>3. QED BY <2>1, <2>2 DEF y
<1>3. /\ u \in UiStates /\ u.timer = s.ui.timer /\ u.failed = s.ui.failed
      /\ u.open = s.ui.open /\ u.queued = s.ui.queued /\ u.hidden = s.ui.hidden
      /\ u.content = s.ui.content /\ u.requested = s.ui.requested /\ u.session = s.ui.session
      /\ u.revision = s.ui.revision
      /\ u.canvas = s.ui.canvas /\ u.drawn = s.ui.drawn
      /\ u.active = (s.ui.active \/ Confirms(s.ui, c))
      BY ZenonT(60) DEF Confirmed, Sides, UiStates, Boxes, Completions
<1>4. Confirms(s.ui, c) => c.presented BY DEF Confirms
<1> HIDE DEF u
<1>5. t \in Sides /\ t.ui = u /\ t.box = s.box BY <1>3 DEF Sides
<1> HIDE DEF t
<1>6. Asked(t) /\ Carried(t) /\ Steps(s, t)
      BY <1>3, <1>4, <1>5, SameSteps DEF Asked, Carried, NativeShows, Retaining
<1>7. CASE s.box.error
  <2>1. LET x == Failing(s)
        IN  x \in Sides /\ Asked(x) /\ Carried(x) /\ x.ui.open /\ ~x.ui.active /\ Steps(s, x)
        BY FailingKeeps
  <2> HIDE DEF drop
  <2>2. LET y == drop(Failing(s)) IN y \in Sides /\ Asked(y) /\ Carried(y) /\ Expected(y) /\ Steps(s, y)
        BY <1>2, <2>1, StepsTransitive
  <2>3. QED BY <1>1, <1>7, <2>2
<1>8. CASE ~s.box.error /\ u.waiting = "passed"
  <2>1. LET x == Failing(t)
        IN  x \in Sides /\ Asked(x) /\ Carried(x) /\ x.ui.open /\ ~x.ui.active /\ Steps(s, x)
        BY <1>3, <1>5, <1>6, FailingKeeps, StepsTransitive
  <2> HIDE DEF drop
  <2>2. LET y == drop(Failing(t)) IN y \in Sides /\ Asked(y) /\ Carried(y) /\ Expected(y) /\ Steps(s, y)
        BY <1>2, <2>1, StepsTransitive
  <2>3. QED BY <1>1, <1>8, <2>2
<1>9. LET x == Armed(t, "poll")
      IN  /\ x \in Sides /\ Asked(x) /\ Carried(x) /\ x.ui.timer # "off" /\ x.ui.open
          /\ x.ui.active = t.ui.active /\ x.ui.hidden = t.ui.hidden
          /\ x.ui.queued = t.ui.queued /\ Steps(s, x)
      BY ZenonT(60), <1>3, <1>5, <1>6, ArmedKeeps, StepsTransitive
<1>10. CASE ~s.box.error /\ u.waiting # "passed" /\ ~Confirms(s.ui, c)
  BY <1>1, <1>3, <1>5, <1>9, <1>10 DEF Expected
<1>11. CASE ~s.box.error /\ u.waiting # "passed" /\ Confirms(s.ui, c)
  <2>1. Polled(s) = later BY <1>1, <1>11
  <2>2. /\ ready \in Sides /\ Asked(ready) /\ Carried(ready) /\ ready.ui.open
        /\ ready.ui.active /\ ready.ui.hidden = s.ui.hidden /\ ready.ui.queued = s.ui.queued
        /\ Steps(s, ready)
        BY <1>3, <1>5, <1>6, <1>9, <1>11
  <2> HIDE DEF ready
  <2> DEFINE more == ready.ui.queued \/ ~s.ui.active
  <2>3. more \in BOOLEAN /\ later = [ready EXCEPT !.ui.queued = more] OBVIOUS
  <2>4. more \/ s.ui.hidden BY <2>2
  <2> HIDE DEF more, later
  <2>5. /\ later \in Sides /\ later.box = ready.box /\ later.ui.timer = ready.ui.timer
        /\ later.ui.active = ready.ui.active
        /\ later.ui.failed = ready.ui.failed /\ later.ui.open = ready.ui.open
        /\ later.ui.hidden = ready.ui.hidden
        /\ later.ui.content = ready.ui.content /\ later.ui.queued = more
        /\ later.ui.requested = ready.ui.requested /\ later.ui.session = ready.ui.session
        /\ later.ui.revision = ready.ui.revision
        BY <2>2, <2>3 DEF Sides, UiStates
  <2>6. Asked(later) /\ Carried(later) /\ Expected(later) /\ Steps(s, later)
        BY ZenonT(60), <2>2, <2>4, <2>5, SameSteps, StepsTransitive DEF Asked, Carried, Expected,
           NativeShows, Retaining
  <2>7. QED BY <2>1, <2>5, <2>6
<1>12. QED BY <1>7, <1>8, <1>10, <1>11

----------------------------------------
\* The actions of the UI thread.

LEMMA SideIs == \A s \in Sides : s = [ui |-> s.ui, box |-> s.box]
BY DEF Sides

LEMMA SpendType ==
    ASSUME NEW kind \in {"edits", "faults", "stalls"}, used \in Usage, Spend(kind)
    PROVE  used' \in Usage
BY DEF Usage, Spend

\* What a step of the UI has to show: the worker, and what it shows, stay as they are.
LEMMA UiKeeps ==
    ASSUME IInv, Keeps, used' \in Usage,
           LET t == [ui |-> ui', box |-> box']
           IN  t \in Sides /\ Asked(t) /\ Carried(t) /\ Expected(t)
    PROVE  IInv'
  BY DEF IInv, TypeOK, Keeps, Sides, Fronted, AtScene, Shown, Asked, Expected, Now, Carried,
     NativeShows, Good

LEMMA BecomeKeeps ==
    ASSUME IInv, Keeps, used' \in Usage, NEW s, Become(s),
           s \in Sides, Asked(s), Carried(s), Expected(s)
    PROVE  IInv' /\ s = [ui |-> ui', box |-> box']
BY SideIs, UiKeeps DEF Become

LEMMA NowOK ==
    ASSUME IInv
    PROVE  /\ Now \in Sides /\ Asked(Now) /\ Carried(Now) /\ Expected(Now)
           /\ Now.ui = ui /\ Now.box = box /\ used \in Usage
BY DEF IInv, Good, Now, TypeOK

LEMMA OpenKeeps ==
    ASSUME IInv, OpenAnnotation
    PROVE  IInv'
<1>1. PICK c \in Inks : ui' = [NoUi EXCEPT !.session = ui.session + 1, !.open = TRUE,
                                           !.content = c, !.queued = TRUE]
      BY DEF OpenAnnotation
<1>2. c \in Contents /\ ui.session + 1 \in Nat BY DEF Contents, IInv, TypeOK, UiStates
<1>3. ui' \in UiStates BY <1>1, <1>2, ValuesOK DEF NoUi, UiStates
<1>4. /\ ui'.requested = NoStamp /\ ui'.content = c /\ ui'.queued /\ ui'.timer = "off"
      /\ ~ui'.active /\ ~ui'.failed /\ ~ui'.hidden /\ ui'.open
      BY <1>1 DEF NoUi
<1>5. ~ui.open /\ box' = box /\ used' = used /\ Keeps BY DEF OpenAnnotation
<1>6. box.scene = NoScene /\ ~box.completion.presented /\ box \in Boxes
      BY <1>5, NowOK DEF Asked, Carried, Sides
<1> DEFINE t == [ui |-> ui', box |-> box']
<1>7. t \in Sides BY <1>3, <1>5, <1>6 DEF Sides
<1>8. Asked(t) /\ Carried(t) /\ Expected(t)
      BY <1>2, <1>4, <1>5, <1>6 DEF Asked, Carried, Expected, Retaining, NoScene
<1>9. QED BY <1>5, <1>7, <1>8, NowOK, UiKeeps

LEMMA CloseKeeps ==
    ASSUME IInv, CloseAnnotation
    PROVE  IInv'
<1> DEFINE t == [ui |-> [NoUi EXCEPT !.session = ui.session], box |-> Suspended(Now).box]
<1>1. /\ Suspended(Now).box.scene = NoScene /\ ~Suspended(Now).box.completion.presented
      /\ Suspended(Now).box \in Boxes
      BY NowOK, SuspendedKeeps DEF Sides
<1>2. ui.session \in Nat BY DEF IInv, TypeOK, UiStates
<1>3. /\ t.ui \in UiStates /\ t.box = Suspended(Now).box
      /\ t.ui.requested = NoStamp /\ ~t.ui.queued /\ t.ui.timer = "off"
      /\ ~t.ui.active /\ ~t.ui.failed /\ ~t.ui.hidden /\ ~t.ui.open
      /\ ~t.ui.sampling /\ t.ui.waiting = "none"
      BY <1>2, ValuesOK DEF NoUi, UiStates
<1>4. Become(t) /\ used' = used /\ Keeps BY DEF CloseAnnotation
<1>5. t \in Sides BY <1>1, <1>3 DEF Sides
<1> HIDE DEF t
<1>6. Asked(t) /\ Carried(t) /\ Expected(t)
      BY <1>1, <1>3 DEF Asked, Carried, Expected, Retaining, NoScene
<1>7. QED BY <1>4, <1>5, <1>6, NowOK, BecomeKeeps

\* A change of the document, a sample, or a deadline leaves what was asked and what is shown.
LEMMA UiFieldsKeep ==
    ASSUME IInv, Keeps, used' \in Usage, box' = box, ui' \in UiStates,
           ui'.open = ui.open, ui'.session = ui.session, ui'.revision = ui.revision, ui'.requested = ui.requested,
           ui'.active = ui.active, ui'.failed = ui.failed, ui'.hidden = ui.hidden,
           ui'.timer = ui.timer, ui'.canvas = ui.canvas, ui'.drawn = ui.drawn,
           ui.open, ui'.content \in Contents, ui.queued => ui'.queued
    PROVE  IInv' /\ Steps(Now, [ui |-> ui', box |-> box'])
<1> DEFINE t == [ui |-> ui', box |-> box']
<1>1. t \in Sides BY NowOK DEF Sides
<1>2. Asked(t) /\ Carried(t) /\ Expected(t)
      BY ZenonT(60), NowOK DEF Asked, Carried, Expected, Retaining, NativeShows
<1>3. t.ui.session = ui.session /\ t.ui.open = ui.open /\ t.ui.revision = ui.revision
      /\ t.box = box
      OBVIOUS
<1> HIDE DEF t
<1>4. Steps(Now, t) BY <1>3, NowOK, SameSteps
<1>5. QED BY <1>1, <1>2, <1>4, UiKeeps DEF t

LEMMA EditKeeps ==
    ASSUME IInv, NEW c \in Contents, EditDocument(c)
    PROVE  IInv' /\ Steps(Now, [ui |-> ui', box |-> box']) /\ ui.open
  BY NowOK, SpendType, ValuesOK, UiFieldsKeep DEF EditDocument, IInv, TypeOK, UiStates

LEMMA SampleArrivesKeeps ==
    ASSUME IInv, SampleArrives
    PROVE  IInv' /\ Steps(Now, [ui |-> ui', box |-> box']) /\ ui.open
  BY NowOK, UiFieldsKeep DEF IInv, TypeOK, SampleArrives, Asked, Expected, UiStates

LEMMA DeadlineKeeps ==
    ASSUME IInv, DeadlinePasses
    PROVE  IInv' /\ Steps(Now, [ui |-> ui', box |-> box']) /\ ui.open
  BY NowOK, SpendType, UiFieldsKeep DEF DeadlinePasses, IInv, TypeOK, Asked, Expected, UiStates

LEMMA UndoKeeps ==
    ASSUME IInv, NEW c \in Contents, UndoErased(c)
    PROVE  IInv' /\ Steps(Now, [ui |-> ui', box |-> box']) /\ ui.open
<1> DEFINE r == Suspended(Now)
           t == [r EXCEPT !.ui.content = c, !.ui.hidden = FALSE, !.ui.drawn = FALSE,
                          !.ui.queued = TRUE]
<1>1. used' \in Usage /\ Keeps /\ Become(t) /\ ui.open BY NowOK, SpendType DEF UndoErased
<1>2. /\ r \in Sides /\ Asked(r) /\ r.box.scene = NoScene /\ ~r.box.completion.presented
      /\ r.ui.requested = NoStamp /\ ~r.ui.active /\ r.ui.timer = "off" /\ r.ui.open
      /\ Steps(Now, r)
      BY <1>1, NowOK, SuspendedKeeps
<1> HIDE DEF r
<1>3. /\ t \in Sides /\ t.box = r.box /\ t.ui.timer = "off" /\ ~t.ui.active
      /\ t.ui.open /\ t.ui.content = c /\ t.ui.requested = NoStamp
      /\ ~t.ui.hidden /\ t.ui.queued
      /\ t.ui.session = r.ui.session /\ t.ui.revision = r.ui.revision
      BY ZenonT(60), <1>2, ValuesOK DEF Sides, UiStates
<1> HIDE DEF t
<1>4. Asked(t) /\ Carried(t) /\ Expected(t) BY <1>2, <1>3 DEF Asked, Carried, Expected, Retaining
<1>5. Steps(Now, t) BY <1>2, <1>3, NowOK, SameSteps, StepsTransitive
<1>6. QED BY <1>1, <1>3, <1>4, <1>5, BecomeKeeps

LEMMA RenderKeeps ==
    ASSUME IInv, NEW fault, RenderAs(fault), ui.open
    PROVE  IInv' /\ Steps(Now, [ui |-> ui', box |-> box'])
<1> DEFINE timer == IF ui.timer = "handoff" /\ ~ui.queued THEN "off" ELSE ui.timer
           s == [Now EXCEPT !.ui.timer = timer]
<1>1. used' \in Usage /\ Keeps BY NowOK, SpendType DEF RenderAs
<1>2. Become(Rendered(s, fault)) BY NowOK DEF RenderAs
<1>3. timer \in {"off", "poll", "handoff"} /\ (timer = "poll" => ui.timer = "poll")
      BY DEF IInv, TypeOK, UiStates
<1> HIDE DEF timer
<1>4. /\ s \in Sides /\ s.box = box /\ s.ui.timer = timer /\ s.ui.active = ui.active
      /\ s.ui.failed = ui.failed /\ s.ui.open = ui.open /\ s.ui.hidden = ui.hidden
      /\ s.ui.content = ui.content /\ s.ui.queued = ui.queued
      /\ s.ui.requested = ui.requested /\ s.ui.session = ui.session
      /\ s.ui.revision = ui.revision
      BY <1>3, NowOK DEF Sides, UiStates
<1> HIDE DEF s
<1>5. Asked(s) /\ Carried(s) /\ Steps(Now, s)
      BY ZenonT(60), <1>3, <1>4, NowOK, SameSteps DEF Asked, Carried, NativeShows, Retaining
<1> DEFINE t == Rendered(s, fault)
<1>6. t \in Sides /\ Asked(t) /\ Carried(t) /\ Expected(t) /\ Steps(Now, t)
      BY <1>4, <1>5, NowOK, RenderedKeeps, StepsTransitive
<1> HIDE DEF t
<1>7. Become(t) BY <1>2 DEF t
<1>8. QED BY <1>1, <1>6, <1>7, BecomeKeeps

LEMMA PollKeeps ==
    ASSUME IInv, PollRenderer
    PROVE  IInv' /\ Steps(Now, [ui |-> ui', box |-> box']) /\ ui.open
<1> DEFINE s == [Now EXCEPT !.ui.timer = "off"]
<1>1. used' \in Usage /\ Keeps /\ Become(Polled(s)) /\ ui.timer = "poll" BY NowOK DEF PollRenderer
<1>2. /\ s \in Sides /\ s.box = box /\ s.ui.timer = "off" /\ s.ui.active = ui.active
      /\ s.ui.failed = ui.failed /\ s.ui.open = ui.open /\ s.ui.hidden = ui.hidden
      /\ s.ui.content = ui.content /\ s.ui.queued = ui.queued
      /\ s.ui.requested = ui.requested /\ s.ui.session = ui.session
      /\ s.ui.revision = ui.revision
      BY NowOK DEF Sides, UiStates
<1> HIDE DEF s
<1>3. Asked(s) /\ Carried(s) /\ s.ui.open /\ ~s.ui.failed
      /\ (s.ui.active => s.ui.hidden \/ s.ui.queued) /\ Steps(Now, s)
      BY <1>1, <1>2, NowOK, SameSteps DEF Asked, Carried, Expected, NativeShows, Retaining
<1> DEFINE t == Polled(s)
<1>4. t \in Sides /\ Asked(t) /\ Carried(t) /\ Expected(t) /\ Steps(Now, t)
      BY <1>2, <1>3, NowOK, PolledKeeps, StepsTransitive
<1> HIDE DEF t
<1>5. Become(t) BY <1>1 DEF t
<1>6. QED BY <1>1, <1>2, <1>3, <1>4, <1>5, BecomeKeeps

----------------------------------------
\* The actions of the worker, of its device, and of the desktop.

\* Outside a reset and a new session, what is shown stays shown.
LEMMA WorkKeeps ==
    ASSUME IInv, ui' = ui, box' = box, used' \in Usage, desktop' \in Nat,
           gpu' \in Workers, device' \in Devices,
           gpu'.generation = gpu.generation, gpu'.session = gpu.session,
           gpu'.retained = gpu.retained, gpu'.scene = gpu.scene,
           gpu.at # "loop" \/ gpu'.at = "loop",
           device'.front = device.front \/ device'.front # Dark,
           Fronted(device'),
           gpu'.at \in {"sample", "compose", "commit"} => device'.exists,
           gpu'.at = "commit" => device'.candidate # NoCandidate,
           (gpu'.at = "publish" /\ ~gpu'.error /\ gpu'.result.presented) => device'.front # Dark
    PROVE  IInv'
  BY NowOK DEF IInv, TypeOK, AtScene, Shown, Asked, Expected, Now, Carried, NativeShows, Good

\* A step that answers, or that goes on to another place.
LEMMA AnswersType ==
    ASSUME gpu \in Workers, NEW completion \in Completions, Answers(completion)
    PROVE  /\ gpu' \in Workers /\ gpu'.generation = gpu.generation
           /\ gpu'.session = gpu.session /\ gpu'.retained = gpu.retained
           /\ gpu'.scene = gpu.scene /\ gpu'.at = "publish" /\ ~gpu'.error
           /\ gpu'.result = completion
BY DEF Answers, Workers, Places

LEMMA ReadyType ==
    ASSUME gpu \in Workers, NEW d, d.effects \in Sources, NEW presented \in BOOLEAN,
           NEW wait \in Waits, Ready(d, presented, wait)
    PROVE  /\ gpu' \in Workers /\ gpu'.generation = gpu.generation
           /\ gpu'.session = gpu.session /\ gpu'.retained = gpu.retained
           /\ gpu'.scene = gpu.scene /\ gpu'.at = "publish" /\ ~gpu'.error
           /\ gpu'.result.presented = presented
           /\ gpu'.result.stamp = gpu.scene.stamp
<1> DEFINE c == Completion(gpu.scene.stamp, d.effects.content, presented,
                           IF gpu.waiting THEN "source" ELSE wait)
<1>1. c \in Completions /\ c.presented = presented /\ c.stamp = gpu.scene.stamp
      BY DEF Completion, Completions, Workers, Scenes, Sources, Waits
<1>2. Answers(c) BY DEF Ready
<1> HIDE DEF c
<1>3. QED BY <1>1, <1>2, AnswersType

LEMMA UnsampledType ==
    ASSUME gpu \in Workers, NEW wait \in Waits, Unsampled(wait)
    PROVE  /\ gpu' \in Workers /\ gpu'.generation = gpu.generation
           /\ gpu'.session = gpu.session /\ gpu'.retained = gpu.retained
           /\ gpu'.scene = gpu.scene /\ gpu'.at = "publish" /\ ~gpu'.error
           /\ ~gpu'.result.presented
           /\ gpu'.result.stamp = gpu.scene.stamp
<1> DEFINE c == Completion(gpu.scene.stamp, NoContent, FALSE, wait)
<1>1. c \in Completions /\ ~c.presented /\ c.stamp = gpu.scene.stamp
      BY ValuesOK DEF Completion, Completions, Workers, Scenes
<1>2. Answers(c) BY DEF Unsampled
<1> HIDE DEF c
<1>3. QED BY <1>1, <1>2, AnswersType

LEMMA NoDeviceOK ==
    LET d == [NoDevice EXCEPT !.exists = TRUE]
    IN  /\ NoDevice \in Devices /\ Fronted(NoDevice) /\ NoDevice.front = Dark
        /\ d \in Devices /\ Fronted(d) /\ d.front = Dark /\ d.exists
        /\ d.candidate = NoCandidate /\ d.effects \in Sources
<1> DEFINE d == [NoDevice EXCEPT !.exists = TRUE]
<1>1. NoVersion \in Int /\ NoCandidate \in [inputs : Sources, stamp : Stamps]
      BY ValuesOK DEF NoVersion, NoCandidate
<1>2. NoInputs.content = NoContent BY DEF NoInputs, Inputs
<1>3. NoDevice \in Devices BY <1>1, ValuesOK DEF NoDevice, Devices
<1>4. d \in Devices /\ d.exists BY <1>3 DEF Devices
<1>5. /\ NoDevice.front = Dark /\ NoDevice.presented = NoStamp /\ NoDevice.inputs = NoInputs
      /\ NoDevice.candidate = NoCandidate
      BY DEF NoDevice
<1>6. /\ d.front = Dark /\ d.presented = NoStamp /\ d.inputs = NoInputs
      /\ d.candidate = NoCandidate
      BY <1>3, <1>5 DEF Devices
<1>7. d.effects \in Sources BY <1>4 DEF Devices
<1> HIDE DEF d
<1>8. Fronted(NoDevice) /\ Fronted(d) BY <1>2, <1>5, <1>6 DEF Fronted
<1>9. QED BY <1>3, <1>4, <1>5, <1>6, <1>7, <1>8 DEF d

LEMMA WorkerOK ==
    ASSUME IInv
    PROVE  /\ gpu \in Workers /\ device \in Devices /\ desktop \in Nat /\ used \in Usage
           /\ box \in Boxes /\ ui \in UiStates
           /\ Fronted(device) /\ AtScene
BY DEF IInv, TypeOK

LEMMA DesktopKeeps ==
    ASSUME IInv, DesktopChanges
    PROVE  IInv'
BY WorkerOK, WorkKeeps DEF DesktopChanges, Outside, AtScene

LEMMA CaptureKeeps ==
    ASSUME IInv, CaptureArrives
    PROVE  IInv'
  BY WorkerOK, WorkKeeps DEF CaptureArrives, Devices, Fronted, Outside, AtScene

LEMMA LostKeeps ==
    ASSUME IInv, DeviceLost
    PROVE  IInv'
  BY WorkerOK, SpendType, WorkKeeps DEF DeviceLost, Devices, Fronted, Outside, AtScene

LEMMA FailsKeeps ==
    ASSUME IInv, Fails
    PROVE  IInv'
  BY WorkerOK, SpendType, WorkKeeps DEF Fails, Errs, Workers, Places, Worker

LEMMA FrontedSame ==
    ASSUME NEW d, Fronted(d), NEW e, e.front = d.front, e.exists = d.exists,
           e.candidate = d.candidate, e.inputs = d.inputs, e.presented = d.presented
    PROVE  Fronted(e)
BY DEF Fronted

LEMMA ResolvedKeeps ==
    ASSUME IInv, gpu.at = "compare", Worker, box' = box, NEW d \in Devices, d.exists,
           d.candidate # NoCandidate, Fronted(d), d.front = device.front, Resolved(d)
    PROVE  IInv'
<1>1. d.effects \in Sources /\ d.candidate.inputs \in Sources /\ d.front \in Pictures
      /\ d.owing \in BOOLEAN /\ d.candidate.inputs.content \in Contents
      BY DEF Devices, Fronted
<1>2. gpu.scene.stamp \in Stamps /\ gpu.scene.stamp # NoStamp
      BY WorkerOK DEF AtScene, Workers, Scenes
<1>3. ui' = ui /\ desktop' = desktop BY DEF Worker
<1>4. CASE Pixels(d.candidate.inputs.content, d.candidate.inputs.version) = d.front
  <2>1. d.front # Dark BY <1>1, <1>4, DrawnIsNotDark DEF Sources
  <2> DEFINE owing == d.owing /\ ~(d.candidate.inputs = d.effects)
             stamp == gpu.scene.stamp
             c == d.candidate.inputs
  <2>2. owing \in BOOLEAN /\ NoCandidate \in [inputs : Sources, stamp : Stamps]
        BY ValuesOK DEF NoCandidate
  <2>3. Ready(d, TRUE, "source") /\ used' = used BY <1>4 DEF Resolved
  <2>4. device' = [d EXCEPT !.presented = stamp, !.inputs = c, !.candidate = NoCandidate,
                            !.owing = owing]
        BY <1>4 DEF Resolved
  <2>5. stamp \in Stamps /\ stamp # NoStamp /\ c \in Sources BY <1>1, <1>2
  <2> HIDE DEF owing, stamp, c
  <2>9. /\ device' \in Devices /\ device'.front = d.front /\ device'.exists
        /\ device'.candidate = NoCandidate /\ device'.presented = stamp
        BY <2>2, <2>4, <2>5 DEF Devices
  <2>6. Fronted(device') BY <2>1, <2>5, <2>9 DEF Fronted
  <2>7. /\ gpu' \in Workers /\ gpu'.generation = gpu.generation
        /\ gpu'.session = gpu.session /\ gpu'.retained = gpu.retained
        /\ gpu'.scene = gpu.scene /\ gpu'.at = "publish"
        BY <1>1, <2>3, WorkerOK, ReadyType DEF Waits
  <2>8. QED BY <1>3, <2>1, <2>3, <2>6, <2>7, <2>9, WorkerOK, WorkKeeps
<1>5. CASE Pixels(d.candidate.inputs.content, d.candidate.inputs.version) # d.front
  <2>1. device' = d BY <1>5 DEF Resolved
  <2>2. CASE gpu' = [gpu EXCEPT !.at = "commit"] /\ used' = used
    BY <1>3, <2>1, <2>2, WorkerOK, WorkKeeps DEF Workers, Places
  <2>3. CASE Stall /\ Ready(d, FALSE, "source")
    BY <1>1, <1>3, <2>1, <2>3, WorkerOK, SpendType, ReadyType, WorkKeeps DEF Stall, Waits
  <2>4. QED BY <1>5, <2>2, <2>3 DEF Resolved
<1>6. QED BY <1>4, <1>5

LEMMA CompareKeeps ==
    ASSUME IInv, Compare
    PROVE  IInv'
<1> DEFINE d == IF device.exists THEN device ELSE [NoDevice EXCEPT !.exists = TRUE]
<1>1. /\ gpu.at = "compare" /\ ui' = ui /\ desktop' = desktop /\ box' = box /\ Worker
      BY DEF Compare, Worker
<1>2. /\ d \in Devices /\ Fronted(d) /\ d.front = device.front /\ d.exists
      /\ d.effects \in Sources
      BY WorkerOK, NoDeviceOK DEF Fronted, Devices
<1>3. \/ d.candidate # NoCandidate /\ Stall /\ Ready(d, FALSE, "source") /\ device' = device
      \/ d.candidate # NoCandidate /\ Resolved(d)
      \/ /\ device' = [d EXCEPT !.candidate = NoCandidate]
         /\ gpu' = [gpu EXCEPT !.at = "sample"] /\ used' = used
      BY DEF Compare
<1> HIDE DEF d
<1>4. CASE d.candidate # NoCandidate /\ Stall /\ Ready(d, FALSE, "source") /\ device' = device
  BY <1>1, <1>2, <1>4, WorkerOK, SpendType, ReadyType, WorkKeeps DEF Stall, Waits
<1>5. CASE d.candidate # NoCandidate /\ Resolved(d) BY <1>1, <1>2, <1>5, ResolvedKeeps
<1>6. CASE /\ device' = [d EXCEPT !.candidate = NoCandidate]
           /\ gpu' = [gpu EXCEPT !.at = "sample"] /\ used' = used
  BY <1>1, <1>2, <1>6, ValuesOK, WorkerOK, WorkKeeps DEF NoCandidate, Devices, Fronted, Workers,
     Places
<1>7. QED BY <1>3, <1>4, <1>5, <1>6

\* A sample changes what the device has of the desktop, and nothing it shows.
LEMMA SampleKeeps ==
    ASSUME IInv, Sample
    PROVE  IInv'
<1> DEFINE differs == device.published # desktop
           more == device.changed \/ differs
           owes == device.owing \/ differs
           off == [device EXCEPT !.source = "off", !.published = NoVersion, !.changed = FALSE,
                                 !.owing = device.owing]
           starting == [device EXCEPT !.source = "starting", !.published = device.published,
                                      !.changed = device.changed, !.owing = device.owing]
           fresh == [device EXCEPT !.source = device.source, !.published = desktop,
                                   !.changed = more, !.owing = owes]
           next == {off, starting, fresh, device}
<1>1. /\ gpu.at = "sample" /\ ui' = ui /\ desktop' \in Nat /\ box' = box
      /\ device.exists /\ device \in Devices
      BY WorkerOK DEF Sample, Worker, AtScene
<1>2. used' \in Usage BY WorkerOK, SpendType DEF Sample, Stall
<1>3. device' \in next
  <2>1. /\ off = [device EXCEPT !.source = "off", !.published = NoVersion, !.changed = FALSE]
        /\ starting = [device EXCEPT !.source = "starting"]
        /\ fresh = [device EXCEPT !.published = desktop, !.changed = more, !.owing = owes]
        BY <1>1 DEF Devices
  <2> HIDE DEF off, starting, fresh
  <2>2. QED BY <2>1 DEF Sample
<1>4. \A e \in next : e \in Devices /\ Fronted(e) /\ e.front = device.front /\ e.exists
  <2>1. /\ device.source \in {"off", "starting", "live"} /\ device.published \in Int
        /\ device.changed \in BOOLEAN /\ device.owing \in BOOLEAN /\ desktop \in Int
        /\ NoVersion \in Int /\ differs \in BOOLEAN /\ more \in BOOLEAN /\ owes \in BOOLEAN
        BY WorkerOK DEF Devices, NoVersion
  <2> HIDE DEF differs, more, owes
  <2>2. \A e \in next :
            /\ e \in Devices /\ e.front = device.front /\ e.exists = device.exists
            /\ e.candidate = device.candidate /\ e.inputs = device.inputs
            /\ e.presented = device.presented
    <3>1. /\ off \in Devices /\ off.front = device.front /\ off.exists = device.exists
          /\ off.candidate = device.candidate /\ off.inputs = device.inputs
          /\ off.presented = device.presented
          BY <1>1, <2>1 DEF Devices
    <3>2. /\ starting \in Devices /\ starting.front = device.front
          /\ starting.exists = device.exists
          /\ starting.candidate = device.candidate /\ starting.inputs = device.inputs
          /\ starting.presented = device.presented
          BY <1>1, <2>1 DEF Devices
    <3>3. /\ fresh \in Devices /\ fresh.front = device.front /\ fresh.exists = device.exists
          /\ fresh.candidate = device.candidate /\ fresh.inputs = device.inputs
          /\ fresh.presented = device.presented
          BY <1>1, <2>1 DEF Devices
    <3> HIDE DEF off, starting, fresh
    <3>4. QED BY <1>1, <3>1, <3>2, <3>3
  <2> HIDE DEF next
  <2>3. QED BY <1>1, <2>2, WorkerOK, FrontedSame
<1> HIDE DEF next
<1>5. \/ gpu' = [gpu EXCEPT !.at = "compose", !.waiting = FALSE]
      \/ gpu' = [gpu EXCEPT !.at = "compose"]
      \/ Unsampled("source")
      BY DEF Sample
<1>6. /\ gpu' \in Workers /\ gpu'.generation = gpu.generation
      /\ gpu'.session = gpu.session /\ gpu'.retained = gpu.retained
      /\ gpu'.scene = gpu.scene
      /\ \/ gpu'.at = "compose"
         \/ gpu'.at = "publish" /\ ~gpu'.result.presented
  BY <1>5, WorkerOK, UnsampledType DEF Workers, Places, Waits
<1>7. device' \in Devices /\ Fronted(device') /\ device'.front = device.front /\ device'.exists
      BY <1>3, <1>4
<1>8. CASE gpu'.at = "compose" BY <1>1, <1>2, <1>6, <1>7, <1>8, WorkKeeps
<1>9. CASE gpu'.at = "publish" /\ ~gpu'.result.presented BY <1>1, <1>2, <1>6, <1>7, <1>9, WorkKeeps
<1>10. QED BY <1>6, <1>8, <1>9

\* The effects are those of the scene; nothing that is shown changes with them.
LEMMA WithEffectsType ==
    ASSUME device \in Devices, Fronted(device), NEW c \in Contents
    PROVE  LET d == WithEffects(device, c)
           IN  /\ d \in Devices /\ Fronted(d) /\ d.effects \in Sources /\ d.effects.content = c
               /\ d.front = device.front /\ d.exists = device.exists
               /\ d.candidate = device.candidate /\ d.inputs = device.inputs
               /\ d.presented = device.presented
<1>1. \A v \in Int : Inputs(c, v) \in Sources /\ Inputs(c, v).content = c
      BY ValuesOK DEF Inputs, Sources
<1>3. device.published \in Int /\ device.effects \in Sources BY DEF Devices
<1> DEFINE d == WithEffects(device, c)
           kept == /\ d \in Devices /\ d.effects \in Sources /\ d.effects.content = c
                   /\ d.front = device.front /\ d.exists = device.exists
                   /\ d.candidate = device.candidate /\ d.inputs = device.inputs
                   /\ d.presented = device.presented
<1>4. \/ d = [device EXCEPT !.effects = Inputs(c, 0), !.changed = FALSE]
      \/ d = [device EXCEPT !.effects = Inputs(c, device.published), !.changed = FALSE]
      \/ d = device /\ device.effects.content = c
      BY DEF WithEffects
<1> DEFINE s == Inputs(c, 0)
           p == Inputs(c, device.published)
<1>5. s \in Sources /\ s.content = c /\ p \in Sources /\ p.content = c BY <1>1, <1>3
<1>6. \/ \E e \in {s, p} : d = [device EXCEPT !.effects = e, !.changed = FALSE]
      \/ d = device /\ device.effects.content = c
  <2> HIDE DEF d, s, p
  <2>1. \/ d = [device EXCEPT !.effects = s, !.changed = FALSE]
        \/ d = [device EXCEPT !.effects = p, !.changed = FALSE]
        \/ d = device /\ device.effects.content = c
        BY <1>4 DEF s, p
  <2>2. QED BY <2>1
<1> HIDE DEF d, s, p
<1>7. kept
  <2>1. CASE \E e \in {s, p} : d = [device EXCEPT !.effects = e, !.changed = FALSE]
    <3>1. PICK e \in {s, p} : d = [device EXCEPT !.effects = e, !.changed = FALSE] BY <2>1
    <3>2. e \in Sources /\ e.content = c BY <1>5
    <3>3. QED BY <3>1, <3>2 DEF Devices
  <2>2. CASE d = device /\ device.effects.content = c BY <1>3, <2>2
  <2>3. QED BY <1>6, <2>1, <2>2
<1>8. Fronted(d) BY <1>7 DEF Fronted
<1>9. QED BY <1>7, <1>8 DEF d

LEMMA ComposeKeeps ==
    ASSUME IInv, Compose
    PROVE  IInv'
<1> DEFINE stamp == gpu.scene.stamp
           d == WithEffects(device, gpu.scene.content)
           c == [inputs |-> d.effects, stamp |-> stamp]
<1>1. /\ gpu.at = "compose" /\ ui' = ui /\ desktop' \in Nat /\ box' = box
      /\ device.exists /\ device \in Devices /\ Fronted(device)
      /\ stamp \in Stamps /\ stamp # NoStamp /\ gpu.scene.content \in Contents
      BY WorkerOK DEF Compose, Worker, AtScene, Workers, Scenes
<1>2. used' \in Usage BY WorkerOK, SpendType DEF Compose, Stall
<1>3. /\ d \in Devices /\ Fronted(d) /\ d.effects \in Sources /\ d.effects.content \in Contents
      /\ d.front = device.front /\ d.exists = device.exists
      /\ d.candidate = device.candidate /\ d.inputs = device.inputs
      /\ d.presented = device.presented
      BY <1>1, WithEffectsType
<1>4. c \in [inputs : Sources, stamp : Stamps] /\ c.inputs.content \in Contents /\ c # NoCandidate
      BY <1>1, <1>3 DEF NoCandidate
<1>5. \/ device.presented = stamp /\ Ready(device, TRUE, "none") /\ device' = device
      \/ Unsampled("presentation") /\ device' = device
      \/ /\ d.inputs = d.effects
         /\ device' = [d EXCEPT !.presented = stamp, !.owing = FALSE]
         /\ Ready(d, TRUE, "none")
      \/ /\ device' = [d EXCEPT !.candidate = c]
         /\ \/ gpu' = [gpu EXCEPT !.at = "commit"]
            \/ Ready(d, FALSE, "source")
      BY DEF Compose
<1>6. device.effects \in Sources BY <1>1 DEF Devices
<1> DEFINE same == /\ gpu' \in Workers /\ gpu'.generation = gpu.generation
                   /\ gpu'.session = gpu.session /\ gpu'.retained = gpu.retained
                   /\ gpu'.scene = gpu.scene
           shows == gpu'.at = "publish" /\ gpu'.result.presented = TRUE
           waits == gpu'.at = "publish" /\ gpu'.result.presented = FALSE
<1> HIDE DEF stamp, d, c
<1>7. CASE device.presented = stamp /\ Ready(device, TRUE, "none") /\ device' = device
  BY <1>1, <1>2, <1>6, <1>7, WorkerOK, ReadyType, WorkKeeps DEF Waits, Fronted
<1>8. CASE Unsampled("presentation") /\ device' = device
  BY <1>1, <1>2, <1>8, WorkerOK, UnsampledType, WorkKeeps DEF Waits
<1>9. CASE /\ d.inputs = d.effects
           /\ device' = [d EXCEPT !.presented = stamp, !.owing = FALSE]
           /\ Ready(d, TRUE, "none")
  <2>1. same /\ shows BY <1>3, <1>9, WorkerOK, ReadyType DEF Waits
  <2>2. device.front # Dark BY <1>1, <1>3, <1>9, ValuesOK DEF Fronted
  <2>3. /\ device' \in Devices /\ device'.front = d.front /\ device'.exists = d.exists
        /\ device'.candidate = d.candidate /\ device'.inputs = d.inputs
        /\ device'.presented = stamp
        BY <1>1, <1>3, <1>9 DEF Devices
  <2>4. Fronted(device') BY <1>1, <1>3, <2>2, <2>3 DEF Fronted
  <2>5. QED BY <1>1, <1>2, <1>3, <2>1, <2>2, <2>3, <2>4, WorkKeeps
<1>10. CASE /\ device' = [d EXCEPT !.candidate = c]
            /\ \/ gpu' = [gpu EXCEPT !.at = "commit"]
               \/ Ready(d, FALSE, "source")
  <2>1. /\ device' \in Devices /\ device'.front = d.front /\ device'.exists = d.exists
        /\ device'.candidate = c /\ device'.inputs = d.inputs
        /\ device'.presented = d.presented
        BY <1>3, <1>4, <1>10 DEF Devices
  <2>2. Fronted(device') BY <1>1, <1>3, <1>4, <2>1 DEF Fronted
  <2>3. CASE gpu' = [gpu EXCEPT !.at = "commit"]
    BY <1>1, <1>2, <1>3, <1>4, <2>1, <2>2, <2>3, WorkerOK, WorkKeeps DEF Workers, Places
  <2>4. CASE Ready(d, FALSE, "source")
    BY <1>1, <1>2, <1>3, <2>1, <2>2, <2>4, WorkerOK, ReadyType, WorkKeeps DEF Waits
  <2>5. QED BY <1>10, <2>3, <2>4
<1>11. QED BY <1>5, <1>7, <1>8, <1>9, <1>10

LEMMA CommitKeeps ==
    ASSUME IInv, Commit
    PROVE  IInv'
<1> DEFINE stamp == gpu.scene.stamp
           c == device.candidate.inputs
           front == Pixels(c.content, c.version)
           latest == c = device.effects
           owing == device.owing /\ ~latest
           wait == IF latest THEN "none" ELSE "source"
<1>1. /\ gpu.at = "commit" /\ ui' = ui /\ desktop' \in Nat /\ box' = box
      /\ device.exists /\ device \in Devices /\ Fronted(device)
      /\ device.candidate # NoCandidate /\ device.effects \in Sources
      /\ stamp \in Stamps /\ stamp # NoStamp
      BY WorkerOK DEF Commit, Worker, AtScene, Workers, Scenes, Devices
<1>2. used' \in Usage BY WorkerOK, SpendType DEF Commit, Stall
<1>3. c \in Sources /\ c.content \in Contents /\ c.version \in Int
      BY <1>1 DEF Fronted, Devices, Sources
<1>4. \/ /\ device' = [device EXCEPT !.front = front, !.presented = stamp, !.inputs = c,
                                      !.candidate = NoCandidate, !.owing = owing]
         /\ Ready(device, TRUE, wait)
      \/ Ready(device, FALSE, "presentation") /\ device' = device
      BY DEF Commit
<1>5. /\ owing \in BOOLEAN /\ wait \in Waits
      /\ NoCandidate \in [inputs : Sources, stamp : Stamps]
      BY ValuesOK DEF Waits, NoCandidate
<1> HIDE DEF owing, latest, wait, c, stamp
<1>6. front \in Pictures /\ front # Dark BY <1>3, DrawnIsNotDark
<1> HIDE DEF front
<1> DEFINE same == /\ gpu' \in Workers /\ gpu'.generation = gpu.generation
                   /\ gpu'.session = gpu.session /\ gpu'.retained = gpu.retained
                   /\ gpu'.scene = gpu.scene /\ gpu'.at = "publish"
<1>7. CASE /\ device' = [device EXCEPT !.front = front, !.presented = stamp, !.inputs = c,
                                        !.candidate = NoCandidate, !.owing = owing]
           /\ Ready(device, TRUE, wait)
  BY <1>1, <1>2, <1>3, <1>5, <1>6, <1>7, WorkerOK, ReadyType, WorkKeeps DEF Devices, Fronted
<1>8. CASE Ready(device, FALSE, "presentation") /\ device' = device
  BY <1>1, <1>2, <1>8, WorkerOK, ReadyType, WorkKeeps DEF Waits
<1>9. QED BY <1>4, <1>7, <1>8

\* Another generation: nothing of the one before was carried for the UI any more.
LEMMA ResetKeeps ==
    ASSUME IInv, Reset
    PROVE  IInv'
<1>1. /\ ui' = ui /\ box' = box /\ desktop' = desktop /\ used' = used /\ device' = NoDevice
      /\ gpu.generation # box.generation /\ gpu.at = "loop"
      BY DEF Reset, Worker
<1>2. gpu' \in Workers /\ gpu'.at = "loop" BY <1>1, WorkerOK, ValuesOK DEF Reset, Workers, Boxes
<1>3. TypeOK' /\ Fronted(device)' /\ AtScene'
      BY <1>1, <1>2, WorkerOK, NoDeviceOK DEF TypeOK, AtScene
<1>4. Asked(Now)' /\ Expected(Now)' /\ Now' \in Sides BY <1>1, NowOK DEF Asked, Expected, Now
<1>5. Carried(Now)' BY <1>1, NowOK DEF Carried, Now, NativeShows
<1>6. QED BY <1>3, <1>4, <1>5 DEF IInv, Good

\* A scene of another session: nothing of the one before was carried for the UI any more.
LEMMA TakeKeeps ==
    ASSUME IInv, Take
    PROVE  IInv'
<1> DEFINE scope == [generation |-> gpu.generation, session |-> box.scene.stamp.session]
           new == gpu.session # box.scene.stamp.session
           at == IF NeedsFrame THEN "compare" ELSE "publish"
           error == ~NeedsFrame
           attempted == gpu.attempted /\ gpu.scope = scope
           retained == IF new THEN Dark ELSE gpu.retained
<1>1. /\ ui' = ui /\ box' = box /\ desktop' = desktop /\ used' = used
      /\ gpu.generation = box.generation /\ gpu.at = "loop" /\ box.scene # NoScene
      /\ device' = IF new THEN NoDevice ELSE device
      BY DEF Take, Worker
<1>2. gpu' = [gpu EXCEPT !.at = at, !.error = error, !.waiting = TRUE, !.scene = box.scene,
                         !.scope = scope, !.attempted = attempted,
                         !.session = scope.session, !.retained = retained]
      BY DEF Take
<1>3. /\ box.scene.stamp = ui.requested /\ ui.requested # NoStamp
      /\ ui.requested.session = ui.session /\ box.scene.content \in Contents
      /\ box.scene \in Scenes /\ ui.session \in Nat
      BY <1>1, NowOK, WorkerOK DEF Asked, Boxes, UiStates
<1>4. /\ at \in {"compare", "publish"} /\ error \in BOOLEAN /\ attempted \in BOOLEAN
      /\ retained \in Pictures /\ scope \in [generation : Nat, session : Nat]
      /\ scope.session = ui.session /\ (at = "publish" => error)
  BY <1>3, WorkerOK, ValuesOK DEF Workers
<1>5. (new <=> gpu.session # ui.session) /\ (~new => retained = gpu.retained) BY <1>3
<1> HIDE DEF at, error, attempted, retained, scope, new
<1>6. /\ gpu' \in Workers /\ gpu'.at = at /\ gpu'.error = error /\ gpu'.scene = box.scene
      /\ gpu'.session = ui.session /\ gpu'.retained = retained
      /\ gpu'.generation = gpu.generation
  BY ZenonT(60), <1>2, <1>3, <1>4, WorkerOK DEF Workers, Places
<1>7. device' \in Devices /\ Fronted(device') BY <1>1, WorkerOK, NoDeviceOK
<1>8. TypeOK' /\ Fronted(device)' BY <1>1, <1>6, <1>7, WorkerOK DEF TypeOK
<1>9. AtScene' BY <1>3, <1>4, <1>6 DEF AtScene
<1>10. Asked(Now)' /\ Expected(Now)' /\ Now' \in Sides BY <1>1, NowOK DEF Asked, Expected, Now
<1>11. Carried(Now)' BY <1>1, <1>5, <1>6, NowOK DEF Carried, Now, NativeShows, Shown
<1>12. QED BY <1>8, <1>9, <1>10, <1>11 DEF IInv, Good

\* An answer that says presented is of the scene the mailbox holds, and its windows show; a
\* device that is dropped leaves what it showed behind.
LEMMA PublishKeeps ==
    ASSUME IInv, Publish
    PROVE  IInv'
<1>1. /\ gpu.at = "publish" /\ ui' = ui /\ desktop' = desktop /\ used' = used
      /\ gpu \in Workers /\ box \in Boxes /\ device \in Devices /\ Fronted(device)
      BY WorkerOK DEF Publish, Worker
<1> DEFINE stamp == gpu.scene.stamp
           shown == IF gpu.result.presented THEN stamp ELSE gpu.shown
           retained == IF gpu.result.presented THEN Dark ELSE gpu.retained
           kept == IF device.presented # NoStamp THEN device.front ELSE gpu.retained
           again == Completion(stamp, NoContent, FALSE, "recovering")
<1>2. /\ stamp \in Stamps /\ shown \in Stamps /\ retained \in Pictures /\ kept \in Pictures
      /\ gpu.result \in Completions
      BY <1>1, ValuesOK DEF Workers, Scenes, Devices
<1>3. again \in Completions /\ ~again.presented BY <1>2, ValuesOK DEF Completion, Completions, Waits
<1>4. gpu.session = stamp.session /\ stamp # NoStamp
      /\ (~gpu.error /\ gpu.result.presented => device.front # Dark)
      BY <1>1, WorkerOK DEF AtScene
<1>5. \/ /\ gpu' = [gpu EXCEPT !.at = "loop"] /\ box' = box /\ device' = device
      \/ /\ Owned(stamp) /\ ~gpu.error
         /\ box' = [box EXCEPT !.completion = gpu.result, !.error = FALSE]
         /\ gpu' = [gpu EXCEPT !.at = "loop", !.shown = shown, !.retained = retained]
         /\ device' = device
      \/ /\ box' = [box EXCEPT !.completion = again, !.error = FALSE]
         /\ gpu' = [gpu EXCEPT !.at = "loop", !.attempted = TRUE, !.shown = NoStamp,
                               !.retained = kept]
         /\ device' = NoDevice
      \/ /\ box' = [box EXCEPT !.error = TRUE]
         /\ gpu' = [gpu EXCEPT !.at = "loop", !.shown = stamp]
         /\ device' = device
      BY DEF Publish
<1>6. kept = Shown BY <1>1 DEF Fronted, Shown
<1> HIDE DEF stamp, shown, retained, kept, again
<1>7. /\ gpu' \in Workers /\ gpu'.at = "loop" /\ gpu'.generation = gpu.generation
      /\ gpu'.session = gpu.session
  <2>1. CASE gpu' = [gpu EXCEPT !.at = "loop"] BY <1>1, <2>1 DEF Workers, Places
  <2>2. CASE gpu' = [gpu EXCEPT !.at = "loop", !.shown = shown, !.retained = retained]
        BY <1>1, <1>2, <2>2 DEF Workers, Places
  <2>3. CASE gpu' = [gpu EXCEPT !.at = "loop", !.attempted = TRUE, !.shown = NoStamp,
                                !.retained = kept]
        BY <1>1, <1>2, <2>3, ValuesOK DEF Workers, Places
  <2>4. CASE gpu' = [gpu EXCEPT !.at = "loop", !.shown = stamp]
        BY <1>1, <1>2, <2>4 DEF Workers, Places
  <2>5. QED BY <1>5, <2>1, <2>2, <2>3, <2>4
<1>8. /\ box' \in Boxes /\ box'.scene = box.scene /\ box'.generation = box.generation
      BY ZenonT(60), <1>1, <1>2, <1>3, <1>5 DEF Boxes
<1>9. device' \in Devices /\ Fronted(device') BY <1>1, <1>5, NoDeviceOK
<1>10. TypeOK' /\ Fronted(device)' /\ AtScene'
      BY <1>1, <1>7, <1>8, <1>9, WorkerOK DEF TypeOK, AtScene
<1>11. Asked(Now)' /\ Expected(Now)' /\ Now' \in Sides
      BY <1>1, <1>8, NowOK DEF Asked, Expected, Now, Sides
<1>12. Shown # Dark => Shown' # Dark
  BY <1>1, <1>4, <1>5, <1>6, NoDeviceOK DEF Shown, Workers, retained
<1>13. box'.completion.presented =>
          \/ box.completion.presented
          \/ Owned(stamp) /\ device.front # Dark /\ device' = device
      BY <1>1, <1>3, <1>4, <1>5 DEF Boxes
<1>14. Carried(Now)'
  BY <1>1, <1>4, <1>7, <1>8, <1>12, <1>13, NowOK DEF Carried, Now, NativeShows, Owned, Asked,
     Shown
<1>15. QED BY <1>10, <1>11, <1>14 DEF IInv, Good

----------------------------------------
\* What is said to be presented is shown.

LEMMA LabelTypes ==
    ASSUME IInv
    PROVE  /\ \A l \in Labels : l.stamp \in Stamps
           /\ NoStamp.session = 0 /\ NoStamp.revision = 0 /\ Old(NoStamp)
           /\ ui.session \in Nat /\ ui.revision \in Nat
  BY WorkerOK DEF UiStates, Boxes, Workers, Scenes, Devices, NoStamp, Labels, Old, OldFor

\* The worker makes no stamp: it passes on the labels it has.
LEMMA WorkLabels ==
    ASSUME IInv, Labelled, ui' = ui, box'.scene = box.scene,
           box'.completion.presented => Old(box'.completion.stamp),
           gpu'.scene \in {gpu.scene, box.scene},
           \/ device'.presented = NoStamp
           \/ \E l \in Labels : /\ l.stamp = device'.presented
                              /\ l.content = device'.inputs.content,
           \/ device'.candidate.stamp = NoStamp
           \/ \E l \in Labels : /\ l.stamp = device'.candidate.stamp
                              /\ l.content = device'.candidate.inputs.content
    PROVE  Labelled'
  BY LabelTypes DEF Labels, Labelled, Old

LEMMA UiHonest ==
    ASSUME IInv, HonestInv, Keeps,
           \A stamp \in Stamps : Old(stamp) => OldFor(ui', stamp),
           box'.completion.presented => box'.completion = box.completion,
           \/ box'.scene = NoScene /\ ~box'.completion.presented
           \/ box'.scene = box.scene /\ box'.error = box.error
           \/ ~Old(box'.scene.stamp) /\ OldFor(ui', box'.scene.stamp)
    PROVE  HonestInv'
<1>1. gpu' = gpu /\ device' = device BY DEF Keeps
<1>2. Composed(device)' /\ Honest' BY <1>1 DEF HonestInv, Composed, Honest, Fresh
<1>3. \A l \in Labels : Old(l.stamp) /\ OldFor(ui', l.stamp) BY LabelTypes DEF HonestInv, Labelled
<1>4. NoScene.stamp = NoStamp BY DEF NoScene
<1>5. box.completion.stamp \in Stamps BY WorkerOK DEF Boxes, Completions
<1>6. box'.completion.presented =>
          box'.completion = box.completion /\ Old(box.completion.stamp)
          /\ OldFor(ui', box'.completion.stamp)
      BY <1>5 DEF HonestInv, Labelled
<1>7. \A m \in Labels' : m \in Labels \/ m = box'.scene BY <1>1 DEF Labels
<1>8. CASE box'.scene = NoScene /\ ~box'.completion.presented
  BY <1>2, <1>3, <1>4, <1>7, <1>8, LabelTypes, ValuesOK DEF HonestInv, Labelled, Old, Answered
<1>9. CASE box'.scene = box.scene /\ box'.error = box.error
  BY <1>1, <1>2, <1>3, <1>6, <1>9 DEF Labels, HonestInv, Labelled, Old, Answered
<1>10. CASE ~Old(box'.scene.stamp) /\ OldFor(ui', box'.scene.stamp)
  BY <1>2, <1>3, <1>6, <1>7, <1>10 DEF HonestInv, Labelled, Old, Answered
<1>11. QED BY <1>8, <1>9, <1>10

LEMMA StepsHonest ==
    ASSUME IInv, HonestInv, IInv', Keeps, ui.open, Steps(Now, [ui |-> ui', box |-> box'])
    PROVE  HonestInv'
<1> DEFINE scene == box'.scene
<1>1. /\ ui'.session = ui.session /\ ui'.open = ui.open /\ ui'.revision >= ui.revision
      /\ box'.completion.presented => box'.completion = box.completion
      /\ \/ scene = NoScene
         \/ scene = box.scene /\ box'.error = box.error
         \/ /\ scene.stamp.session = ui.session
            /\ scene.stamp.revision > ui.revision
            /\ scene.stamp.revision <= ui'.revision
      BY DEF Steps, Now
<1>2. ui.session \in Nat /\ ui.revision \in Nat /\ ui'.revision \in Nat /\ scene.stamp \in Stamps
      BY DEF IInv, TypeOK, UiStates, Boxes, Scenes
<1>3. \A stamp \in Stamps : Old(stamp) => OldFor(ui', stamp) BY <1>1, <1>2 DEF Old, OldFor, Stamps
<1>4. scene = NoScene => ~box'.completion.presented BY DEF IInv, Good, Carried, Asked, Now, NoScene
<1>5. (/\ scene.stamp.session = ui.session
       /\ scene.stamp.revision > ui.revision
       /\ scene.stamp.revision <= ui'.revision)
          => ~Old(scene.stamp) /\ OldFor(ui', scene.stamp)
      BY <1>1, <1>2 DEF Old, OldFor, Stamps
<1>6. QED BY <1>1, <1>3, <1>4, <1>5, UiHonest

LEMMA OpenHonest ==
    ASSUME IInv, HonestInv, OpenAnnotation
    PROVE  HonestInv'
<1>1. PICK c \in Inks : ui' = [NoUi EXCEPT !.session = ui.session + 1, !.open = TRUE,
                                           !.content = c, !.queued = TRUE]
      BY DEF OpenAnnotation
<1>2. ui'.session = ui.session + 1 BY <1>1 DEF NoUi
<1>3. box' = box /\ Keeps BY DEF OpenAnnotation
<1>4. \A stamp \in Stamps : Old(stamp) => OldFor(ui', stamp)
      BY <1>2, LabelTypes DEF Old, OldFor, Stamps
<1>5. QED BY <1>3, <1>4, UiHonest

LEMMA CloseHonest ==
    ASSUME IInv, HonestInv, CloseAnnotation
    PROVE  HonestInv'
  BY NowOK, SuspendedKeeps, UiHonest DEF CloseAnnotation, Become, NoUi, Old, OldFor

\* The desktop, a capture and the loss of a device change nothing of what is presented.
LEMMA DeviceHonest ==
    ASSUME IInv, HonestInv, Outside,
           device'.front = device.front, device'.presented = device.presented,
           device'.inputs = device.inputs, device'.candidate = device.candidate,
           device'.published = device.published, device'.effects = device.effects,
           device'.changed = device.changed, device'.owing = device.owing
    PROVE  HonestInv'
  BY DEF Outside, Labels, HonestInv, Labelled, Old, Composed, Fresh, Honest, Answered

LEMMA OutsideHonest ==
    ASSUME IInv, HonestInv, DesktopChanges \/ CaptureArrives \/ DeviceLost
    PROVE  HonestInv'
  BY DeviceHonest, WorkerOK DEF DesktopChanges, CaptureArrives, Devices, DeviceLost

\* A new device has shown nothing.
LEMMA NoDeviceComposed ==
    LET d == [NoDevice EXCEPT !.exists = TRUE]
    IN  /\ Composed(NoDevice) /\ NoDevice.presented = NoStamp
        /\ NoDevice.candidate = NoCandidate /\ NoCandidate.stamp = NoStamp
        /\ Composed(d) /\ d.presented = NoStamp /\ d.candidate = NoCandidate
<1> DEFINE d == [NoDevice EXCEPT !.exists = TRUE]
<1>1. /\ NoDevice.presented = NoStamp /\ NoDevice.candidate = NoCandidate
      /\ NoDevice.published = NoVersion
      BY DEF NoDevice
<1>2. d.presented = NoStamp /\ d.candidate = NoCandidate /\ d.published = NoVersion BY DEF NoDevice
<1>3. NoCandidate.stamp = NoStamp BY DEF NoCandidate
<1> HIDE DEF d
<1>4. Composed(NoDevice) /\ Composed(d) BY <1>1, <1>2 DEF Composed
<1>5. QED BY <1>1, <1>2, <1>3, <1>4 DEF d

\* A step of the worker within its scene.
LEMMA WithinHonest ==
    ASSUME IInv, HonestInv, ui' = ui, box' = box, gpu'.scene = gpu.scene, gpu'.at # "loop",
           \/ device'.presented = NoStamp
           \/ \E l \in Labels : /\ l.stamp = device'.presented
                              /\ l.content = device'.inputs.content,
           \/ device'.candidate.stamp = NoStamp
           \/ \E l \in Labels : /\ l.stamp = device'.candidate.stamp
                              /\ l.content = device'.candidate.inputs.content,
           Composed(device'), Honest'
    PROVE  HonestInv'
  BY WorkLabels DEF HonestInv, Labelled, Answered

LEMMA LabelsOf ==
    /\ \E l \in Labels : l.stamp = device.presented /\ l.content = device.inputs.content
    /\ \E l \in Labels : /\ l.stamp = device.candidate.stamp
                       /\ l.content = device.candidate.inputs.content
    /\ gpu.scene \in Labels
BY DEF Labels

LEMMA FailsHonest ==
    ASSUME IInv, HonestInv, Fails
    PROVE  HonestInv'
  BY WorkerOK, LabelsOf, WithinHonest DEF Fails, Errs, Workers, Worker, HonestInv, Honest

LEMMA ResetHonest ==
    ASSUME IInv, HonestInv, Reset
    PROVE  HonestInv'
  BY WorkerOK, NowOK, NoDeviceComposed, WorkLabels DEF Reset, Worker, Workers, Carried,
     NativeShows, HonestInv, Honest, Answered

LEMMA TakeHonest ==
    ASSUME IInv, HonestInv, Take
    PROVE  HonestInv'
  BY WorkerOK, LabelsOf, NoDeviceComposed, WorkLabels DEF Take, Worker, Workers, HonestInv,
     Labelled, Honest, Answered

\* Pixels of one content are the same over the same desktop, and over any without a live effect.
LEMMA PixelsSame ==
    ASSUME NEW c \in Content, NEW v, NEW w, c \in Glasses => v = w
    PROVE  Pixels(c, v) = Pixels(c, w)
BY DEF Pixels

\* An output that is settled shows the scene it was composed for over the latest sample.
LEMMA SettledHonest ==
    ASSUME IInv, HonestInv, NEW d \in Devices, d.candidate = device.candidate, Composed(d),
           d.candidate # NoCandidate, d.candidate.stamp = gpu.scene.stamp, gpu.at # "loop",
           NEW e, e.front = Pixels(d.candidate.inputs.content, d.candidate.inputs.version),
           e.presented = gpu.scene.stamp, e.inputs = d.candidate.inputs,
           e.candidate = NoCandidate, e.published = d.published, e.effects = d.effects,
           e.changed = d.changed
    PROVE  /\ Composed(e)
           /\ \E l \in Labels : l.stamp = e.presented /\ l.content = e.inputs.content
           /\ e.candidate.stamp = NoStamp
           /\ e.front = Pixels(gpu.scene.content, e.published)
<1>1. d.candidate.inputs = d.effects /\ Fresh(d) /\ d.effects \in Sources BY DEF Composed, Devices
<1>2. Composed(e) BY <1>1 DEF Composed, Fresh
<1>3. gpu.scene.stamp # NoStamp BY WorkerOK DEF AtScene
<1>4. gpu.scene.content = d.effects.content BY <1>1, <1>3, LabelsOf DEF HonestInv, Labelled
<1>5. \E l \in Labels : l.stamp = e.presented /\ l.content = e.inputs.content
      BY <1>1, <1>4, LabelsOf
<1>6. e.front = Pixels(gpu.scene.content, e.published) BY <1>1, <1>4, PixelsSame DEF Fresh, Sources
<1>7. QED BY <1>2, <1>5, <1>6, NoDeviceComposed

LEMMA CompareHonest ==
    ASSUME IInv, HonestInv, Compare
    PROVE  HonestInv'
<1> DEFINE d == IF device.exists THEN device ELSE [NoDevice EXCEPT !.exists = TRUE]
<1>1. /\ gpu.at = "compare" /\ ui' = ui /\ box' = box BY DEF Compare, Worker
<1>2. /\ d \in Devices /\ d.effects \in Sources /\ Composed(d) /\ d.candidate = device.candidate
      /\ \/ d.presented = NoStamp
         \/ d.presented = device.presented /\ d.inputs = device.inputs
  <2>1. CASE device.exists BY <2>1, WorkerOK DEF Devices, HonestInv
  <2>2. CASE ~device.exists
    <3> DEFINE n == [NoDevice EXCEPT !.exists = TRUE]
    <3>1. d = n /\ device.candidate = NoCandidate BY <2>2, WorkerOK DEF Fronted
    <3>2. /\ n \in Devices /\ n.effects \in Sources /\ Composed(n)
          /\ n.candidate = NoCandidate /\ n.presented = NoStamp
          BY NoDeviceOK, NoDeviceComposed
    <3> HIDE DEF d, n
    <3>3. QED BY <3>1, <3>2
  <2>3. QED BY <2>1, <2>2
<1>3. \/ d.candidate # NoCandidate /\ Ready(d, FALSE, "source") /\ device' = device
      \/ d.candidate # NoCandidate /\ d.candidate.stamp = gpu.scene.stamp /\ Resolved(d)
      \/ /\ device' = [d EXCEPT !.candidate = NoCandidate]
         /\ gpu' = [gpu EXCEPT !.at = "sample"]
      BY DEF Compare
<1> HIDE DEF d
<1> DEFINE waits == /\ gpu'.scene = gpu.scene /\ gpu'.at = "publish"
                    /\ gpu'.result.presented = FALSE /\ gpu'.result.stamp = gpu.scene.stamp
<1>4. CASE d.candidate # NoCandidate /\ Ready(d, FALSE, "source") /\ device' = device
  BY <1>1, <1>2, <1>4, WorkerOK, ReadyType, LabelsOf, WithinHonest DEF Waits, Honest, HonestInv
<1>5. CASE d.candidate # NoCandidate /\ d.candidate.stamp = gpu.scene.stamp /\ Resolved(d)
  <2> DEFINE c == d.candidate.inputs
             owing == d.owing /\ ~(c = d.effects)
             stamp == gpu.scene.stamp
  <2>1. CASE Pixels(c.content, c.version) = d.front
    <3>1. /\ device' = [d EXCEPT !.presented = stamp, !.inputs = c,
                                  !.candidate = NoCandidate, !.owing = owing]
          /\ Ready(d, TRUE, "source")
          BY <1>5, <2>1 DEF Resolved
    <3> HIDE DEF owing, stamp, c
    <3>2. /\ device'.front = d.front /\ device'.presented = stamp /\ device'.inputs = c
          /\ device'.candidate = NoCandidate /\ device'.published = d.published
          /\ device'.effects = d.effects /\ device'.changed = d.changed
          BY <1>2, <3>1 DEF Devices
    <3> USE DEF stamp, c
    <3>3. /\ Composed(device')
          /\ \E l \in Labels : l.stamp = device'.presented /\ l.content = device'.inputs.content
          /\ device'.candidate.stamp = NoStamp
          /\ device'.front = Pixels(gpu.scene.content, device'.published)
          BY <1>1, <1>2, <1>5, <2>1, <3>2, SettledHonest
    <3>4. /\ gpu'.scene = gpu.scene /\ gpu'.at = "publish"
          /\ gpu'.result.presented = TRUE /\ gpu'.result.stamp = gpu.scene.stamp
          BY <1>2, <3>1, WorkerOK, ReadyType DEF Waits
    <3>5. Honest' BY <3>3, <3>4 DEF Honest
    <3>6. QED BY <1>1, <3>3, <3>4, <3>5, WithinHonest
  <2>2. CASE Pixels(c.content, c.version) # d.front
    <3>1. /\ device' = d
          /\ \/ gpu' = [gpu EXCEPT !.at = "commit"]
             \/ Ready(d, FALSE, "source")
          BY <1>5, <2>2 DEF Resolved
    <3>2. \/ gpu'.scene = gpu.scene /\ gpu'.at = "commit"
          \/ waits
      BY <1>2, <3>1, WorkerOK, ReadyType DEF Workers, Waits
    <3>3. Honest' /\ Composed(device') /\ gpu'.scene = gpu.scene /\ gpu'.at # "loop"
          BY <1>2, <1>5, <3>1, <3>2 DEF Honest
    <3>4. QED BY <1>1, <1>2, <3>1, <3>3, LabelsOf, WithinHonest
  <2>3. QED BY <2>1, <2>2
<1>6. CASE /\ device' = [d EXCEPT !.candidate = NoCandidate]
           /\ gpu' = [gpu EXCEPT !.at = "sample"]
  BY <1>1, <1>2, <1>6, WorkerOK, LabelsOf, NoDeviceComposed, WithinHonest DEF Devices, Composed,
     Fresh, Workers, Honest
<1>7. QED BY <1>3, <1>4, <1>5, <1>6

LEMMA SampleHonest ==
    ASSUME IInv, HonestInv, Sample
    PROVE  HonestInv'
<1>1. /\ gpu.at = "sample" /\ ui' = ui /\ box' = box /\ device \in Devices
      /\ device.candidate = NoCandidate /\ desktop \in Nat
      BY WorkerOK DEF Sample, Worker, HonestInv, Honest
<1> DEFINE differs == device.published # desktop
           more == device.changed \/ differs
           owes == device.owing \/ differs
<1>2. \/ /\ gpu.scene.content \notin Glasses
         /\ device' = [device EXCEPT !.source = "off", !.published = NoVersion, !.changed = FALSE]
         /\ gpu' = [gpu EXCEPT !.at = "compose", !.waiting = FALSE]
      \/ device' = [device EXCEPT !.source = "starting"] /\ Unsampled("source")
      \/ /\ device' = [device EXCEPT !.published = desktop, !.changed = more, !.owing = owes]
         /\ gpu' = [gpu EXCEPT !.at = "compose", !.waiting = FALSE]
      \/ /\ device.published # NoVersion /\ device' = device
         /\ gpu' = [gpu EXCEPT !.at = "compose"]
      BY DEF Sample
<1> DEFINE on == gpu'.scene = gpu.scene /\ gpu'.at = "compose"
           same == /\ device'.front = device.front /\ device'.presented = device.presented
                   /\ device'.inputs = device.inputs /\ device'.candidate = NoCandidate
                   /\ device'.effects = device.effects
<1>3. CASE /\ gpu.scene.content \notin Glasses
           /\ device' = [device EXCEPT !.source = "off", !.published = NoVersion, !.changed = FALSE]
           /\ gpu' = [gpu EXCEPT !.at = "compose", !.waiting = FALSE]
  BY <1>1, <1>3, WorkerOK, LabelsOf, NoDeviceComposed, WithinHonest DEF Workers, Devices,
     Composed, Honest, HonestInv
<1>4. CASE device' = [device EXCEPT !.source = "starting"] /\ Unsampled("source")
  BY <1>1, <1>4, WorkerOK, UnsampledType, LabelsOf, NoDeviceComposed, WithinHonest DEF Waits,
     Devices, Composed, Honest, HonestInv, Fresh
<1>5. CASE /\ device' = [device EXCEPT !.published = desktop, !.changed = more, !.owing = owes]
           /\ gpu' = [gpu EXCEPT !.at = "compose", !.waiting = FALSE]
  <2>1. on BY <1>5, WorkerOK DEF Workers
  <2>2. /\ ~more => ~device.changed /\ device.published = desktop
        /\ ~owes => ~device.owing /\ device.published = desktop
        OBVIOUS
  <2> HIDE DEF more, owes
  <2>3. /\ same /\ device'.published = desktop /\ device'.changed = more /\ device'.owing = owes
        BY <1>1, <1>5 DEF Devices
  <2>4. desktop # NoVersion BY <1>1 DEF NoVersion
  <2>5. Composed(device') /\ Honest'
        BY <2>1, <2>2, <2>3, <2>4 DEF Composed, Honest, HonestInv, Fresh
  <2>6. QED BY <1>1, <2>1, <2>3, <2>5, LabelsOf, NoDeviceComposed, WithinHonest
<1>6. CASE /\ device.published # NoVersion /\ device' = device
           /\ gpu' = [gpu EXCEPT !.at = "compose"]
  BY <1>1, <1>6, WorkerOK, LabelsOf, WithinHonest DEF Workers, Honest, HonestInv
<1>7. QED BY <1>2, <1>3, <1>4, <1>5, <1>6

\* With the effects brought up to the sample, what is composed next is the latest.
LEMMA WithEffectsHonest ==
    ASSUME IInv, HonestInv, gpu.at = "compose"
    PROVE  LET d == WithEffects(device, gpu.scene.content)
           IN  /\ d.owing = device.owing /\ d.published = device.published
               /\ Fresh(d) /\ Composed(d)
<1> DEFINE c == gpu.scene.content
           d == WithEffects(device, c)
<1>1. /\ c \in Contents /\ device \in Devices /\ Fronted(device)
      /\ device.candidate = NoCandidate
      /\ c \in Glasses => device.published # NoVersion
      BY WorkerOK DEF AtScene, HonestInv, Honest
<1>2. /\ d.front = device.front /\ d.inputs = device.inputs
      /\ d.presented = device.presented /\ d.candidate = NoCandidate
      BY <1>1, WithEffectsType
<1> DEFINE s == Inputs(c, 0)
           p == Inputs(c, device.published)
<1>3. \/ d = [device EXCEPT !.effects = s, !.changed = FALSE] /\ c \notin Glasses
      \/ d = [device EXCEPT !.effects = p, !.changed = FALSE]
      \/ /\ d = device /\ ~device.changed /\ device.effects.content = c /\ c \in Glasses
      BY DEF WithEffects
<1>4. s.content = c /\ p.content = c /\ p.version = device.published BY DEF Inputs
<1> HIDE DEF d, s, p, c
<1>5. d.owing = device.owing /\ d.published = device.published /\ Fresh(d)
  <2>1. CASE d = [device EXCEPT !.effects = s, !.changed = FALSE] /\ c \notin Glasses
        BY <1>1, <1>4, <2>1 DEF Devices, Fresh
  <2>2. CASE d = [device EXCEPT !.effects = p, !.changed = FALSE]
        BY <1>1, <1>4, <2>2 DEF Devices, Fresh
  <2>3. CASE d = device /\ ~device.changed /\ device.effects.content = c /\ c \in Glasses
        BY <1>1, <2>3 DEF HonestInv, Composed
  <2>4. QED BY <1>3, <2>1, <2>2, <2>3
<1>6. Composed(d) BY <1>2, <1>5 DEF HonestInv, Composed
<1>7. QED BY <1>5, <1>6 DEF d, c

LEMMA ComposeHonest ==
    ASSUME IInv, HonestInv, Compose
    PROVE  HonestInv'
<1> DEFINE stamp == gpu.scene.stamp
           d == WithEffects(device, gpu.scene.content)
           c == [inputs |-> d.effects, stamp |-> stamp]
<1>1. /\ gpu.at = "compose" /\ ui' = ui /\ box' = box
      /\ device \in Devices /\ Fronted(device) /\ device.effects \in Sources
      /\ stamp # NoStamp /\ gpu.scene.content \in Contents
      /\ Composed(device) /\ device.candidate = NoCandidate
      BY WorkerOK DEF Compose, Worker, AtScene, HonestInv, Honest, Devices
<1>2. /\ d \in Devices /\ Fronted(d) /\ d.effects \in Sources
      /\ d.effects.content = gpu.scene.content
      /\ d.front = device.front /\ d.candidate = NoCandidate
      /\ d.inputs = device.inputs /\ d.presented = device.presented
      BY <1>1, WithEffectsType
<1>3. d.owing = device.owing /\ d.published = device.published /\ Fresh(d) /\ Composed(d)
      BY <1>1, WithEffectsHonest
<1>4. c.inputs = d.effects /\ c.stamp = stamp OBVIOUS
<1>5. \/ /\ ~device.owing /\ device.presented = stamp
         /\ Ready(device, TRUE, "none") /\ device' = device
      \/ Unsampled("presentation") /\ device' = device
      \/ /\ d.inputs = d.effects
         /\ device' = [d EXCEPT !.presented = stamp, !.owing = FALSE]
         /\ Ready(d, TRUE, "none")
      \/ /\ device' = [d EXCEPT !.candidate = c]
         /\ \/ gpu' = [gpu EXCEPT !.at = "commit"]
            \/ Ready(d, FALSE, "source")
      BY DEF Compose
<1> DEFINE answers == /\ gpu'.scene = gpu.scene /\ gpu'.at = "publish"
                      /\ gpu'.result.stamp = gpu.scene.stamp
<1> HIDE DEF d, c
<1>6. CASE /\ ~device.owing /\ device.presented = stamp
           /\ Ready(device, TRUE, "none") /\ device' = device
  <2>1. answers BY <1>1, <1>6, WorkerOK, ReadyType DEF Waits
  <2>2. device.inputs.content = gpu.scene.content BY <1>1, <1>6, LabelsOf DEF HonestInv, Labelled
  <2>3. gpu.scene.content \in Glasses =>
            device.published # NoVersion /\ device.inputs.version = device.published
        BY <1>1, <1>6, <2>2 DEF HonestInv, Honest, Composed
  <2>4. device.front = Pixels(device.inputs.content, device.inputs.version)
        BY <1>1, <1>6 DEF Composed
  <2>5. gpu.scene.content \in Content BY <1>1, ValuesOK
  <2>6. device.front = Pixels(gpu.scene.content, device.published)
        BY <2>2, <2>3, <2>4, <2>5, PixelsSame
  <2>7. Honest' BY <1>6, <2>1, <2>6 DEF Honest
  <2>8. QED BY <1>1, <1>6, <2>1, <2>7, LabelsOf, WithinHonest
<1>7. CASE Unsampled("presentation") /\ device' = device
  BY <1>1, <1>7, WorkerOK, UnsampledType, LabelsOf, WithinHonest DEF Waits, Honest
<1>8. CASE /\ d.inputs = d.effects
           /\ device' = [d EXCEPT !.presented = stamp, !.owing = FALSE]
           /\ Ready(d, TRUE, "none")
  <2>1. answers BY <1>2, <1>8, WorkerOK, ReadyType DEF Waits
  <2>2. /\ device'.front = d.front /\ device'.presented = stamp /\ device'.inputs = d.inputs
        /\ device'.candidate = NoCandidate /\ device'.published = d.published
        /\ device'.effects = d.effects /\ device'.changed = d.changed /\ ~device'.owing
        BY <1>2, <1>8 DEF Devices
  <2>3. d.inputs.content = gpu.scene.content /\ d.inputs.content # NoContent
        BY <1>1, <1>2, <1>8, ValuesOK
  <2>4. d.presented # NoStamp BY <1>2, <2>3 DEF Fronted
  <2>5. d.front = Pixels(d.inputs.content, d.inputs.version) BY <1>3, <2>4 DEF Composed
  <2>6. d.inputs.content \in Glasses => d.inputs.version = d.published BY <1>3, <1>8 DEF Fresh
  <2>7. Composed(device') BY <1>3, <2>2, <2>5, <2>6 DEF Composed, Fresh
  <2>8. gpu.scene.content \in Content BY <1>1, ValuesOK
  <2>9. device'.front = Pixels(gpu.scene.content, device'.published)
        BY <2>2, <2>3, <2>5, <2>6, <2>8, PixelsSame
  <2>10. Honest' BY <2>1, <2>9 DEF Honest
  <2>11. \E l \in Labels : l.stamp = device'.presented /\ l.content = device'.inputs.content
        BY <2>2, <2>3, LabelsOf
  <2>12. QED BY <1>1, <2>1, <2>2, <2>7, <2>10, <2>11, NoDeviceComposed, WithinHonest
<1>9. CASE /\ device' = [d EXCEPT !.candidate = c]
           /\ \/ gpu' = [gpu EXCEPT !.at = "commit"]
              \/ Ready(d, FALSE, "source")
  <2>1. /\ device'.front = d.front /\ device'.presented = d.presented
        /\ device'.inputs = d.inputs /\ device'.candidate = c
        /\ device'.published = d.published /\ device'.effects = d.effects
        /\ device'.changed = d.changed /\ device'.owing = d.owing
        BY <1>2, <1>9 DEF Devices
  <2>2. Composed(device') BY <1>3, <1>4, <2>1 DEF Composed, Fresh
  <2>3. /\ gpu'.scene = gpu.scene
        /\ \/ gpu'.at = "commit"
           \/ answers /\ ~gpu'.result.presented
    BY <1>2, <1>9, WorkerOK, ReadyType DEF Workers, Waits
  <2>4. Honest' /\ gpu'.at # "loop" BY <1>4, <2>1, <2>3 DEF Honest
  <2>5. /\ \E l \in Labels : l.stamp = device'.presented /\ l.content = device'.inputs.content
        /\ \E l \in Labels : /\ l.stamp = device'.candidate.stamp
                            /\ l.content = device'.candidate.inputs.content
        BY <1>2, <1>4, <2>1, LabelsOf
  <2>6. QED BY <1>1, <2>2, <2>3, <2>4, <2>5, WithinHonest
<1>10. QED BY <1>5, <1>6, <1>7, <1>8, <1>9

LEMMA CommitHonest ==
    ASSUME IInv, HonestInv, Commit
    PROVE  HonestInv'
<1> DEFINE stamp == gpu.scene.stamp
           c == device.candidate.inputs
           front == Pixels(c.content, c.version)
           latest == c = device.effects
           owing == device.owing /\ ~latest
           wait == IF latest THEN "none" ELSE "source"
<1>1. /\ gpu.at = "commit" /\ ui' = ui /\ box' = box
      /\ device \in Devices /\ device.effects \in Sources /\ Composed(device)
      /\ device.candidate # NoCandidate /\ device.candidate.stamp = stamp
      BY WorkerOK DEF Commit, Worker, AtScene, HonestInv, Honest, Devices
<1>2. \/ /\ device' = [device EXCEPT !.front = front, !.presented = stamp, !.inputs = c,
                                      !.candidate = NoCandidate, !.owing = owing]
         /\ Ready(device, TRUE, wait)
      \/ Ready(device, FALSE, "presentation") /\ device' = device
      BY DEF Commit
<1>3. wait \in Waits BY DEF Waits
<1> DEFINE answers == /\ gpu'.scene = gpu.scene /\ gpu'.at = "publish"
                      /\ gpu'.result.stamp = gpu.scene.stamp
<1> HIDE DEF owing, latest, wait
<1>4. CASE /\ device' = [device EXCEPT !.front = front, !.presented = stamp, !.inputs = c,
                                        !.candidate = NoCandidate, !.owing = owing]
           /\ Ready(device, TRUE, wait)
  <2> HIDE DEF front, stamp, c
  <2>1. answers BY <1>1, <1>3, <1>4, WorkerOK, ReadyType
  <2>2. /\ device'.front = front /\ device'.presented = stamp /\ device'.inputs = c
        /\ device'.candidate = NoCandidate /\ device'.published = device.published
        /\ device'.effects = device.effects /\ device'.changed = device.changed
        BY <1>1, <1>4 DEF Devices
  <2> USE DEF front, stamp, c
  <2>3. /\ Composed(device')
        /\ \E l \in Labels : l.stamp = device'.presented /\ l.content = device'.inputs.content
        /\ device'.candidate.stamp = NoStamp
        /\ device'.front = Pixels(gpu.scene.content, device'.published)
        BY <1>1, <2>2, SettledHonest
  <2>4. Honest' BY <2>1, <2>3 DEF Honest
  <2>5. QED BY <1>1, <2>1, <2>3, <2>4, WithinHonest
<1>5. CASE Ready(device, FALSE, "presentation") /\ device' = device
  BY <1>1, <1>5, WorkerOK, ReadyType, LabelsOf, WithinHonest DEF Waits, Honest
<1>6. QED BY <1>2, <1>4, <1>5

\* An answer that is dropped was not for the scene of the mailbox; one that is given says
\* presented only of what the windows show.
LEMMA PublishHonest ==
    ASSUME IInv, HonestInv, Publish
    PROVE  HonestInv'
<1> DEFINE stamp == gpu.scene.stamp
           again == Completion(stamp, NoContent, FALSE, "recovering")
<1>1. /\ gpu.at = "publish" /\ ui' = ui /\ gpu \in Workers /\ box \in Boxes
      /\ stamp # NoStamp
      BY WorkerOK DEF Publish, Worker, AtScene
<1>2. \/ ~Owned(stamp) /\ box' = box /\ device' = device
      \/ /\ Owned(stamp) /\ ~gpu.error /\ device' = device
         /\ box' = [box EXCEPT !.completion = gpu.result, !.error = FALSE]
      \/ /\ box' = [box EXCEPT !.completion = again, !.error = FALSE]
         /\ device' = NoDevice
      \/ Owned(stamp) /\ box' = [box EXCEPT !.error = TRUE] /\ device' = device
      BY DEF Publish
<1>3. gpu'.at = "loop" /\ gpu'.scene = gpu.scene BY ZenonT(60), <1>1 DEF Publish, Workers
<1>4. ~again.presented BY DEF Completion
<1> HIDE DEF again
<1>5. box'.scene = box.scene BY <1>1, <1>2 DEF Boxes
<1>6. Owned(stamp) => box.scene.stamp = stamp /\ box.scene.content = gpu.scene.content
      BY <1>1 DEF Owned, HonestInv, Labelled, Labels
<1>7. Old(stamp) BY LabelsOf DEF HonestInv, Labelled
<1>8. Honest' BY <1>3 DEF Honest
<1>9. ASSUME box'.completion.presented => Old(box'.completion.stamp),
             device' \in {device, NoDevice}
      PROVE  Labelled' /\ Composed(device)'
  BY <1>1, <1>3, <1>5, <1>9, NoDeviceComposed, LabelsOf, WorkLabels DEF HonestInv
<1>10. CASE ~Owned(stamp) /\ box' = box /\ device' = device
  BY <1>8, <1>9, <1>10, NowOK DEF Carried, NativeShows, HonestInv, Answered, Owned, Labelled
<1>11. CASE /\ Owned(stamp) /\ ~gpu.error /\ device' = device
            /\ box' = [box EXCEPT !.completion = gpu.result, !.error = FALSE]
  BY <1>1, <1>3, <1>5, <1>6, <1>7, <1>8, <1>9, <1>11 DEF Boxes, HonestInv, Honest, Answered
<1>12. CASE /\ box' = [box EXCEPT !.completion = again, !.error = FALSE]
            /\ device' = NoDevice
  BY <1>1, <1>4, <1>8, <1>9, <1>12 DEF Boxes, HonestInv, Answered
<1>13. CASE Owned(stamp) /\ box' = [box EXCEPT !.error = TRUE] /\ device' = device
  BY <1>1, <1>3, <1>5, <1>6, <1>8, <1>9, <1>13 DEF Boxes, HonestInv, Labelled, Answered
<1>14. QED BY <1>2, <1>10, <1>11, <1>12, <1>13

----------------------------------------
LEMMA InitIInv == RendererInit => IInv
<1> SUFFICES ASSUME RendererInit PROVE IInv OBVIOUS
<1>1. ui \in UiStates /\ desktop \in Nat /\ used \in Usage
      BY ValuesOK DEF RendererInit, NoUi, UiStates, Usage
<1>2. box \in Boxes /\ box.scene = NoScene /\ ~box.completion.presented
      BY ValuesOK DEF RendererInit, Boxes, NoCompletion, Completion
<1>3. gpu \in Workers /\ gpu.at = "loop" BY ValuesOK DEF RendererInit, Idle, Workers, Places
<1>4. device \in Devices /\ Fronted(device) BY NoDeviceOK DEF RendererInit
<1>5. /\ ui.requested = NoStamp /\ ~ui.active /\ ~ui.failed /\ ui.timer = "off" /\ ~ui.open
      /\ ~ui.queued /\ ~ui.hidden /\ ~ui.sampling /\ ui.waiting = "none"
      BY DEF RendererInit, NoUi
<1>6. Good(Now) /\ Expected(Now)
      BY <1>1, <1>2, <1>5 DEF Good, Now, Sides, Asked, Carried, Expected, Retaining, NoScene
<1>7. AtScene BY <1>3 DEF AtScene
<1>8. QED BY <1>1, <1>2, <1>3, <1>4, <1>6, <1>7 DEF IInv, TypeOK

LEMMA NextIInv == IInv /\ [RendererNext]_rendererVars => IInv'
<1> SUFFICES ASSUME IInv, [RendererNext]_rendererVars PROVE IInv' OBVIOUS
<1>1. CASE OpenAnnotation BY <1>1, OpenKeeps
<1>2. CASE CloseAnnotation BY <1>2, CloseKeeps
<1>3. ASSUME NEW c \in Contents, EditDocument(c) \/ UndoErased(c) PROVE IInv'
      BY <1>3, EditKeeps, UndoKeeps
<1>4. ASSUME NEW f \in RenderFaults, Render(f) \/ RetryHandoff(f) PROVE IInv'
  BY <1>4, NowOK, RenderKeeps DEF Render, RetryHandoff, Asked
<1>5. CASE PollRenderer BY <1>5, PollKeeps
<1>6. CASE SampleArrives \/ DeadlinePasses BY <1>6, SampleArrivesKeeps, DeadlineKeeps
<1>7. CASE DesktopChanges \/ CaptureArrives \/ DeviceLost
      BY <1>7, DesktopKeeps, CaptureKeeps, LostKeeps
<1>8. CASE GpuStep
      BY <1>8, ResetKeeps, TakeKeeps, CompareKeeps, SampleKeeps, ComposeKeeps, CommitKeeps,
         PublishKeeps, FailsKeeps DEF GpuStep
<1>9. CASE UNCHANGED rendererVars
      BY <1>9 DEF rendererVars, IInv, TypeOK, Good, Now, Sides, Asked, Carried, NativeShows,
                  Shown, Expected, Fronted, AtScene, Retaining
<1>10. QED BY <1>1, <1>2, <1>3, <1>4, <1>5, <1>6, <1>7, <1>8, <1>9 DEF RendererNext, UiStep

LEMMA InitHonest == RendererInit => HonestInv
<1> SUFFICES ASSUME RendererInit PROVE HonestInv OBVIOUS
<1>1. /\ box.scene = NoScene /\ ~box.completion.presented /\ gpu.scene = NoScene
      /\ gpu.at = "loop" /\ device = NoDevice
      BY DEF RendererInit, NoCompletion, Completion, Idle
<1>2. NoScene.stamp = NoStamp BY DEF NoScene
<1>3. \A l \in Labels : l.stamp = NoStamp BY <1>1, <1>2, NoDeviceComposed DEF Labels
<1>4. Labelled BY <1>1, <1>3, InitIInv, LabelTypes DEF Labelled
<1>5. Composed(device) /\ Honest /\ Answered BY <1>1, NoDeviceComposed DEF Honest, Answered
<1>6. QED BY <1>4, <1>5 DEF HonestInv

LEMMA NextHonest == IInv /\ HonestInv /\ [RendererNext]_rendererVars => HonestInv'
<1> SUFFICES ASSUME IInv, HonestInv, [RendererNext]_rendererVars PROVE HonestInv' OBVIOUS
<1>1. CASE OpenAnnotation BY <1>1, OpenHonest
<1>2. CASE CloseAnnotation BY <1>2, CloseHonest
<1>3. ASSUME NEW c \in Contents, EditDocument(c) \/ UndoErased(c) PROVE HonestInv'
      BY <1>3, EditKeeps, UndoKeeps, StepsHonest DEF EditDocument, UndoErased
<1>4. ASSUME NEW f \in RenderFaults, Render(f) \/ RetryHandoff(f) PROVE HonestInv'
  BY <1>4, NowOK, RenderKeeps, StepsHonest DEF Render, RetryHandoff, Asked, RenderAs
<1>5. CASE PollRenderer BY <1>5, PollKeeps, StepsHonest DEF PollRenderer
<1>6. CASE SampleArrives \/ DeadlinePasses
      BY <1>6, SampleArrivesKeeps, DeadlineKeeps, StepsHonest DEF SampleArrives, DeadlinePasses
<1>7. CASE DesktopChanges \/ CaptureArrives \/ DeviceLost BY <1>7, OutsideHonest
<1>8. CASE GpuStep
      BY <1>8, ResetHonest, TakeHonest, CompareHonest, SampleHonest, ComposeHonest, CommitHonest,
         PublishHonest, FailsHonest DEF GpuStep
<1>9. CASE UNCHANGED rendererVars
      BY <1>9 DEF rendererVars, HonestInv, Labelled, Labels, Old, OldFor, Composed, Fresh, Honest,
                  Answered
<1>10. QED BY <1>1, <1>2, <1>3, <1>4, <1>5, <1>6, <1>7, <1>8, <1>9 DEF RendererNext, UiStep

LEMMA IInvFrameHonest == IInv /\ HonestInv => FrameHonest
<1> SUFFICES ASSUME IInv, HonestInv, gpu.at = "loop", gpu.generation = box.generation,
                    box.completion.presented, box.completion.stamp = box.scene.stamp, ~box.error
             PROVE  Shown = Pixels(box.scene.content, device.published)
    BY DEF FrameHonest
<1>1. device.front = Pixels(box.scene.content, device.published) BY DEF HonestInv, Answered
<1>2. box.scene.content \in Contents BY NowOK DEF Carried, Asked
<1>3. device.front # Dark BY <1>1, <1>2, WorkerOK, DrawnIsNotDark DEF Devices
<1>4. QED BY <1>1, <1>3 DEF Shown

LEMMA IInvCovers == IInv => PictureCovered
BY NowOK DEF PictureCovered, Carried, Expected, NativeShows, Retaining, Asked

\* The invariant of the presenter and the worker: what the UI has given up, or took an answer
\* for, is on the screen of its session, whatever fails or is rebuilt.
THEOREM RendererInvariant == RendererSpec => []IInv
<1>1. RendererInit => IInv BY InitIInv
<1>2. IInv /\ [RendererNext]_rendererVars => IInv' BY NextIInv
<1>3. QED BY <1>1, <1>2, PTL DEF RendererSpec

\* A canvas the UI has given up (annotation/presenter.rs) is carried by native windows of its
\* own session through every failure, deadline and rebuilt device (annotation_gpu.rs), and a
\* blank canvas it has not given up is never forgotten; for any number of either.
THEOREM PictureCoveredHolds == RendererSpec => []PictureCovered
<1>1. RendererSpec => []IInv BY RendererInvariant
<1>2. IInv => PictureCovered BY IInvCovers
<1>3. QED BY <1>1, <1>2, PTL

\* When the worker (annotation_gpu.rs) rests and the mailbox says that its scene is presented,
\* the windows show that scene over the desktop sampled last: no comparison, owed frame or
\* commit of an earlier scene, sample or device is taken for it.
THEOREM FrameHonestHolds == RendererSpec => []FrameHonest
<1>1. RendererSpec => []IInv BY RendererInvariant
<1>2. RendererInit => HonestInv BY InitHonest
<1>3. IInv /\ HonestInv /\ [RendererNext]_rendererVars => HonestInv' BY NextHonest
<1>4. IInv /\ HonestInv => FrameHonest BY IInvFrameHonest
<1>5. QED BY <1>1, <1>2, <1>3, <1>4, PTL DEF RendererSpec
========================================
