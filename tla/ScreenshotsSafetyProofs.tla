----------------------- MODULE ScreenshotsSafetyProofs -----------------------
(***************************************************************************)
(* What the screenshots and the pins keep, second part: that every step     *)
(* keeps the invariant, and that the desktop's annotations, the pixels of   *)
(* the pins and the work a screenshot waits for are never lost.  For every  *)
(* value of the constants, any number of sessions, pins, edits and          *)
(* failures, and every interleaving of the event loop and the workers.      *)
(***************************************************************************)
EXTENDS ScreenshotsProofs

\* The dispatches of the event loop about a screenshot.
Loose(w, J) ==
    LET c == w.core  v == w.view  K == With(J, w.core) IN
    Editor(v) /\ Apart(c.queue, v) /\ Flowing(c, v, K) /\ ImagesKept(c) /\ IdsKnown(c, v, K)

LEMMA FineLoose == ASSUME NEW w, NEW J, Fine(w, J) PROVE Loose(w, J)
  BY DEF Fine, Loose, Steady

LEMMA ShotNumbers ==
    ASSUME NEW c \in Cores
    PROVE  c.shot \in Shots /\ c.shot.session \in Nat /\ c.shot.operation \in Nat
  BY DEF Cores, Drafts, Shots

\* What the end of a screenshot tells.
QuitTold(c, d) ==
    LET shot == Quiescent(c.shot) IN
    Told(c, d, shot, c.pins, <<SyncOf(shot, c.pins), RestoreOf(c.shot.session)>>, {}) /\ Kept(c, d)

LEMMA QuitFine ==
    ASSUME NEW w \in Worlds, NEW J \in SUBSET Jobs, Loose(w, J), NEW w2 \in Worlds,
           w2.view = w.view,
           QuitTold(w.core, w2.core)
    PROVE  Fine(w2, J) /\ Paid(w2, J)
<1>1. PICK c, v, d, shot, x, X, new, none : /\ c = w.core /\ v = w.view /\ d = w2.core
         /\ shot = Quiescent(c.shot) /\ x = RestoreOf(c.shot.session) /\ X = {x}
         /\ new = <<SyncOf(shot, c.pins), x>> /\ none = {}
  OBVIOUS
<1>2. c \in Cores /\ v \in Views /\ d \in Cores BY <1>1, WorldParts
<1>3. Told(c, d, shot, c.pins, new, none) /\ Kept(c, d) BY <1>1 DEF QuitTold
<1>4. d.shot = shot /\ d.pins = c.pins /\ d.spawned = c.spawned BY <1>1, <1>3 DEF Told
<1>5. Announced(c.queue, d.queue, d.shot, d.pins, X) BY <1>1, <1>3, <1>4, AnnouncedTwo DEF Told
<1>6. With(J, d) = With(J, c) /\ With(J, d) \in SUBSET Jobs BY <1>2, <1>4, WithJobs DEF With
<1>7. NotPins(With(J, d), With(J, c)) /\ \A job \in With(J, d) :
          job \in With(J, c) \/ StartedFor(d, job)
  BY <1>6 DEF NotPins
<1>8. ImagesSynced(c, d) /\ HeldKept(c, d) /\ PendingKept(c, d) BY <1>3 DEF Kept
<1>9. /\ Apart(c.queue, v) /\ Flowing(c, v, With(J, c)) /\ ImagesKept(c)
      /\ IdsKnown(c, v, With(J, c)) /\ Editor(v)
  BY <1>1 DEF Loose
<1>10. (\A y \in X : y = RestoreOf(c.shot.session)) /\ RestoreOf(c.shot.session) \in X BY <1>1
<1>11. Steady(d, v, With(J, d)) /\ Outputs(d, v, With(J, d))
  BY ZenonT(60), <1>1, <1>2, <1>4, <1>5, <1>6, <1>7, <1>8, <1>9, <1>10, QuitSteady
<1> QED BY <1>1, <1>9, <1>11 DEF Fine, Paid

LEMMA EndedQuit ==
    ASSUME NEW w \in Worlds, NEW J \in SUBSET Jobs, Loose(w, J), NEW s, NEW w2 \in Worlds,
           w2.view = w.view,
           EndedTold(w.core, w2.core, s)
    PROVE  \/ w2.core = w.core /\ ~ (w.core.shot.session = s /\ Active(w.core))
           \/ Fine(w2, J) /\ Paid(w2, J)
  BY QuitFine DEF EndedTold, QuitTold

LEMMA SavedQuit ==
    ASSUME NEW w \in Worlds, NEW J \in SUBSET Jobs, Loose(w, J), NEW s, NEW operation,
           NEW w2 \in Worlds, w2.view = w.view,
           NEW saved, saved, CompletedTold(w.core, w2.core, s, operation, saved)
    PROVE  \/ w2.core = w.core /\ ~ Current(w.core, s, operation)
           \/ Fine(w2, J) /\ Paid(w2, J)
  BY QuitFine DEF CompletedTold, QuitTold, Current, Is

\* A step after which somebody still tends the screenshot.
TendTold(c, d) ==
    /\ d \in Cores /\ Announced(c.queue, d.queue, d.shot, d.pins, {}) /\ d.pins = c.pins
    /\ ImagesSynced(c, d) /\ HeldKept(c, d) /\ PendingKept(c, d) /\ Onward(c, d)
    /\ c.shot.phase \in {"Selecting", "Editing", "Output"} /\ d.shot.phase \in {"Editing", "Output"}
    /\ \A job \in d.spawned : job \in c.spawned \/ (StartedFor(d, job) /\ ~OnlyPins(job))

LEMMA TendFine ==
    ASSUME NEW w \in Worlds, NEW J \in SUBSET Jobs, Fine(w, J), NEW w2 \in Worlds, w2.view = w.view,
           TendTold(w.core, w2.core)
    PROVE  /\ Loose(w2, J) /\ (Tended(w.view, w.core.shot.session) => Fine(w2, J))
           /\ HeldKnown(w2.core) /\ Loaned(w2.core, w2.view)
<1>1. PICK c, v, d : c = w.core /\ v = w.view /\ d = w2.core OBVIOUS
<1>2. c \in Cores /\ v \in Views /\ d \in Cores BY <1>1, WorldParts
<1>3. /\ Announced(c.queue, d.queue, d.shot, d.pins, {}) /\ d.pins = c.pins
      /\ ImagesSynced(c, d) /\ HeldKept(c, d) /\ PendingKept(c, d) /\ Onward(c, d)
      /\ c.shot.phase \in {"Selecting", "Editing", "Output"}
      /\ d.shot.phase \in {"Editing", "Output"}
      /\ \A job \in d.spawned : job \in c.spawned \/ (StartedFor(d, job) /\ ~OnlyPins(job))
  BY <1>1 DEF TendTold
<1>4. With(J, c) \in SUBSET Jobs /\ With(J, d) \in SUBSET Jobs BY <1>2, WithJobs
<1>5. NotPins(With(J, d), With(J, c)) /\ \A job \in With(J, d) :
          job \in With(J, c) \/ StartedFor(d, job)
  BY <1>3 DEF NotPins, With
<1>6. Steady(c, v, With(J, c)) /\ Editor(v) BY <1>1 DEF Fine
<1>7. /\ Apart(d.queue, v) /\ ImagesKept(d) /\ IdsKnown(d, v, With(J, d))
      /\ Flowing(d, v, With(J, d))
      /\ HeldKnown(d) /\ Loaned(d, v) /\ (Tended(v, c.shot.session) => Steady(d, v, With(J, d)))
  BY <1>2, <1>3, <1>4, <1>5, <1>6, TendedSteady
<1> QED BY <1>1, <1>6, <1>7 DEF Loose, Fine

LEMMA ReworkedTold ==
    ASSUME NEW c \in Cores, NEW d, NEW s, NEW operation, NEW saved, ~saved,
           CompletedTold(c, d, s, operation, saved)
    PROVE  \/ d = c /\ ~ Current(c, s, operation)
           \/ TendTold(c, d) /\ c.shot.phase = "Output" /\ d.shot.phase = "Editing"
<1>1. CASE Current(c, s, operation)
  <2>1. PICK shot, none : shot = Reworked(c.shot) /\ none = {} OBVIOUS
  <2>2. Told(c, d, shot, c.pins, <<SyncOf(shot, c.pins)>>, none) /\ Kept(c, d)
    BY <1>1, <2>1 DEF CompletedTold
  <2>3. d \in Cores /\ d.shot = shot /\ d.pins = c.pins /\ d.spawned = c.spawned
    BY <2>1, <2>2 DEF Told
  <2>4. Announced(c.queue, d.queue, d.shot, d.pins, {}) BY <2>2, <2>3, AnnouncedOne DEF Told
  <2>5. c.shot.phase = "Output" BY <1>1 DEF Current, Is
  <2>6. shot.phase = "Editing" /\ shot.session = c.shot.session /\ shot.operation = c.shot.operation
        /\ c.shot.operation \in Nat
    BY <2>1, ShotNumbers DEF Reworked, Shots
  <2>7. Onward(c, d) BY <2>3, <2>5, <2>6 DEF Onward
  <2> QED BY <2>2, <2>3, <2>4, <2>5, <2>6, <2>7 DEF TendTold, Kept
<1> QED BY <1>1 DEF CompletedTold

LEMMA PlacedTold ==
    ASSUME NEW c \in Cores, NEW d, NEW s, NEW bounds, SelectedTold(c, d, s, bounds)
    PROVE  \/ d = c /\ ~ Is(c, s, "Selecting")
           \/ /\ TendTold(c, d) /\ d.shot.phase = "Editing"
              /\ Is(c, s, "Selecting") \/ Is(c, s, "Editing")
<1>1. CASE (Is(c, s, "Selecting") \/ Is(c, s, "Editing"))
           /\ Told(c, d, Placed(c.shot, bounds), c.pins, <<SyncOf(Placed(c.shot, bounds), c.pins)>>,
                   {})
           /\ Kept(c, d)
  <2>1. PICK shot, none : shot = Placed(c.shot, bounds) /\ none = {} OBVIOUS
  <2>2. Told(c, d, shot, c.pins, <<SyncOf(shot, c.pins)>>, none) /\ Kept(c, d) BY <1>1, <2>1
  <2>3. d \in Cores /\ d.shot = shot /\ d.pins = c.pins /\ d.spawned = c.spawned
    BY <2>1, <2>2 DEF Told
  <2>4. Announced(c.queue, d.queue, d.shot, d.pins, {}) BY <2>2, <2>3, AnnouncedOne DEF Told
  <2>5. c.shot.phase \in {"Selecting", "Editing"} BY <1>1 DEF Is
  <2>6. shot.phase = "Editing" /\ shot.session = c.shot.session /\ shot.operation = c.shot.operation
        /\ c.shot.operation \in Nat
    BY <2>1, ShotNumbers DEF Placed, Shots
  <2>7. Onward(c, d) BY <2>3, <2>5, <2>6 DEF Onward
  <2> QED BY <1>1, <2>2, <2>3, <2>4, <2>5, <2>6, <2>7 DEF TendTold, Kept
<1> QED BY <1>1 DEF SelectedTold

LEMMA OutputtingTold ==
    ASSUME NEW c \in Cores, NEW d, NEW s, NEW operation \in Nat, NEW kind,
           OutputTold(c, d, s, operation, kind)
    PROVE  \/ d = c
           \/ /\ TendTold(c, d) /\ c.shot.phase = "Editing" /\ d.shot.phase = "Output"
              /\ c.shot.operation < d.shot.operation
              /\ \E job \in d.spawned : job.k = "output"
                   /\ <<job.session, job.operation>> = Source(d)
<1>1. CASE d # c
  <2>1. PICK shot, job : shot = Outputting(c.shot, operation) /\ job = OutputOf(s, operation, kind)
    OBVIOUS
  <2>2. /\ Told(c, d, shot, c.pins, <<SyncOf(shot, c.pins)>>, {job}) /\ Kept(c, d)
        /\ Asked(c, s, operation)
    BY <1>1, <2>1 DEF OutputTold
  <2>3. d \in Cores /\ d.shot = shot /\ d.pins = c.pins /\ d.spawned = c.spawned \cup {job}
    BY <2>2 DEF Told
  <2>4. Announced(c.queue, d.queue, d.shot, d.pins, {}) BY <2>2, <2>3, AnnouncedOne DEF Told
  <2>5. c.shot.phase = "Editing" /\ c.shot.session = s /\ operation > c.shot.operation
    BY <2>2 DEF Asked, Is
  <2>6. shot.phase = "Output" /\ shot.session = s /\ shot.operation = operation
        /\ c.shot.operation \in Nat
    BY <2>1, <2>5, ShotNumbers DEF Outputting, Shots
  <2>7. Onward(c, d) BY <2>3, <2>5, <2>6 DEF Onward
  <2>8. job.k = "output" /\ job.session = s /\ job.operation = operation BY <2>1 DEF OutputOf
  <2>9. StartedFor(d, job) /\ ~OnlyPins(job) BY <2>3, <2>6, <2>8 DEF NotLater, StartedFor, OnlyPins
  <2>10. <<job.session, job.operation>> = Source(d) BY <2>3, <2>6, <2>8 DEF Source
  <2>11. TendTold(c, d) BY <2>2, <2>3, <2>4, <2>5, <2>6, <2>7, <2>9 DEF TendTold, Kept
  <2> QED BY <2>3, <2>5, <2>6, <2>8, <2>10, <2>11
<1> QED BY <1>1

\* The head of the queue is taken off to be run.
Rests(c, d, x) ==
    /\ d \in Cores /\ Popped(c.queue, d.queue, x) /\ d.shot = c.shot /\ d.pins = c.pins
    /\ d.held = c.held
    /\ d.pending = c.pending /\ d.images = c.images /\ d.spawned = c.spawned
    /\ d.previews = c.previews
    /\ d.lastPin = c.lastPin
Behind(w) == [w EXCEPT !.core.queue = Tail(@)]

LEMMA TailFacts ==
    ASSUME NEW q \in Seq(Closures), q # <<>>
    PROVE  Tail(q) \in Seq(Closures) /\ Head(q) \in Closures /\ Popped(q, Tail(q), Head(q))
<1>1. PICK n \in Nat : n = Len(q) OBVIOUS
<1>2. n >= 1 /\ DOMAIN q = 1..n /\ Tail(q) \in Seq(Closures) /\ Len(Tail(q)) = n - 1 BY <1>1
<1>3. DOMAIN Tail(q) = 1..(n - 1) /\ \A i \in 1..(n - 1) : Tail(q)[i] = q[i + 1] BY <1>1, <1>2
<1>4. Head(q) = q[1] /\ q[1] \in Closures BY <1>1, <1>2
<1> QED BY <1>2, <1>3, <1>4 DEF Popped

LEMMA RestsFacts ==
    ASSUME NEW w \in Worlds, w.core.queue # <<>>, NEW w2, w2 = Behind(w), NEW x,
           x = Head(w.core.queue)
    PROVE  w2 \in Worlds /\ w2.view = w.view /\ Rests(w.core, w2.core, x) /\ x \in Closures
<1>1. PICK c, r, d : /\ c \in Cores /\ r \in Seq(Closures) /\ c = w.core /\ r = Tail(c.queue)
                     /\ d = [c EXCEPT !.queue = r]
  BY WorldParts, TailFacts DEF Cores, Drafts
<1>2. c.queue \in Seq(Closures) BY <1>1 DEF Cores, Drafts
<1>3. Popped(c.queue, r, x) /\ x \in Closures BY <1>1, <1>2, TailFacts
<1>4. d \in Cores BY <1>1 DEF Cores, Drafts
<1>5. /\ d.shot = c.shot /\ d.pins = c.pins /\ d.held = c.held /\ d.queue = r
      /\ d.pending = c.pending /\ d.images = c.images /\ d.spawned = c.spawned
      /\ d.previews = c.previews
      /\ d.lastPin = c.lastPin
  BY <1>1 DEF Cores, Drafts
<1>6. w2 = [w EXCEPT !.core = d] BY <1>1 DEF Behind, Worlds
<1>7. w2 \in Worlds /\ w2.core = d /\ w2.view = w.view BY <1>4, <1>6, WorldFacts
<1> QED BY <1>1, <1>3, <1>4, <1>5, <1>7 DEF Rests

LEMMA RestQueue ==
    ASSUME NEW c, NEW d, NEW x, Rests(c, d, x)
    PROVE  /\ 1 \in DOMAIN c.queue /\ c.queue[1] = x /\ DOMAIN c.queue \subseteq Nat
           /\ DOMAIN d.queue \subseteq Nat
           /\ \A i \in DOMAIN d.queue : i + 1 \in DOMAIN c.queue /\ d.queue[i] = c.queue[i + 1]
                /\ i >= 1
           /\ \A i \in DOMAIN c.queue : i >= 1
                /\ (i # 1 => i - 1 \in DOMAIN d.queue /\ d.queue[i - 1] = c.queue[i])
           /\ \A k : \A i \in At(d.queue, k) : i + 1 \in At(c.queue, k)
           /\ \A k : \A i \in At(c.queue, k) : i # 1 => i - 1 \in At(d.queue, k)
  BY PoppedFacts DEF Rests

\* What the event loop may do of its own with it.
PopStep(v, u, x) ==
    /\ Besides(v, u) /\ u.flow = FlowAfter(x, v.flow) /\ Aware(v, u)
    /\ (u.active = None \/ u.active = v.active)

LEMMA SeenShot ==
    ASSUME NEW q, NEW flow, NEW i, NEW shot, Sees(q, flow, i, shot)
    PROVE  shot \in {flow} \cup {q[j].shot : j \in Syncs(q)}
  BY DEF Sees

LEMMA FlowPopped ==
    ASSUME NEW c \in Cores, NEW v, NEW u, NEW d, NEW x, Rests(c, d, x),
           u.flow = FlowAfter(x, v.flow)
    PROVE  /\ FlowKnown(c, v) => FlowKnown(d, u)
           /\ \A i \in DOMAIN d.queue : \A shot : Sees(c.queue, v.flow, i + 1, shot)
                => Sees(d.queue, u.flow, i, shot)
<1>1. d \in Cores /\ Popped(c.queue, d.queue, x) /\ d.shot = c.shot BY DEF Rests
<1>2. FlowKnown(c, v) => FlowKnown(d, u) BY <1>1, KnowsPopped DEF FlowKnown, Knows
<1>3. ASSUME NEW i \in DOMAIN d.queue, NEW shot, Sees(c.queue, v.flow, i + 1, shot)
      PROVE  Sees(d.queue, u.flow, i, shot)
  BY <1>1, <1>3, RestQueue, SeesPopped
<1> QED BY <1>2, <1>3

LEMMA SuspendPopped ==
    ASSUME NEW c \in Cores, NEW v, NEW u, NEW d, NEW x, Rests(c, d, x),
           u.flow = FlowAfter(x, v.flow),
           SuspendKnown(c, v)
    PROVE  SuspendKnown(d, u)
<1> SUFFICES ASSUME NEW i \in At(d.queue, "Suspend")
             PROVE  /\ d.queue[i].session = d.shot.session
                    /\ \E shot \in {u.flow} \cup {d.queue[j].shot : j \in Syncs(d.queue)} :
                          /\ Sees(d.queue, u.flow, i, shot) /\ shot.session = d.shot.session
                          /\ shot.phase = "Preparing"
                    /\ \A m \in Syncs(d.queue) : m > i => d.queue[m].shot.session = d.shot.session
                    /\ \A m \in At(d.queue, "Suspend") : m = i
  BY DEF SuspendKnown
<1>1. d.shot = c.shot /\ i \in DOMAIN d.queue BY DEF Rests, At
<1>2. i + 1 \in At(c.queue, "Suspend") /\ d.queue[i] = c.queue[i + 1] /\ i \in Nat
  <2>1. d.queue[i] = c.queue[i + 1] /\ i \in Nat BY <1>1, RestQueue
  <2>2. i + 1 \in At(c.queue, "Suspend") BY RestQueue
  <2> QED BY <2>1, <2>2
<1>3. PICK shot : Sees(c.queue, v.flow, i + 1, shot) /\ shot.session = c.shot.session
          /\ shot.phase = "Preparing"
  BY <1>2 DEF SuspendKnown
<1>4. Sees(d.queue, u.flow, i, shot) BY <1>1, <1>3, FlowPopped
<1>5. shot \in {u.flow} \cup {d.queue[j].shot : j \in Syncs(d.queue)} BY <1>4, SeenShot
<1>6. ASSUME NEW m \in Syncs(d.queue), m > i PROVE d.queue[m].shot.session = d.shot.session
  BY <1>1, <1>2, <1>6, RestQueue DEF Syncs, At, SuspendKnown
<1>7. ASSUME NEW m \in At(d.queue, "Suspend") PROVE m = i BY <1>2, RestQueue DEF At, SuspendKnown
<1> QED BY <1>1, <1>2, <1>3, <1>4, <1>5, <1>6, <1>7 DEF SuspendKnown

LEMMA FlowingPopped ==
    ASSUME NEW c \in Cores, NEW v, NEW u, NEW J, Flowing(c, v, J), NEW d, NEW x, Rests(c, d, x),
           Besides(v, u), u.flow = FlowAfter(x, v.flow)
    PROVE  Flowing(d, u, J)
<1>1. d \in Cores /\ d.shot = c.shot BY DEF Rests
<1>2. \A i \in DOMAIN d.queue : i + 1 \in DOMAIN c.queue /\ d.queue[i] = c.queue[i + 1] BY RestQueue
<1>3. \A k : \A i \in At(d.queue, k) : i + 1 \in At(c.queue, k) /\ d.queue[i] = c.queue[i + 1]
  BY <1>2, RestQueue DEF At
<1>4. FlowKnown(d, u) /\ SuspendKnown(d, u) BY FlowPopped, SuspendPopped DEF Flowing
<1>5. RecoveryKnown(d, u)
  <2>1. RecoveryKnown(c, v) /\ u.recovery = v.recovery BY DEF Flowing, Besides
  <2>2. SUFFICES ASSUME v.recovery # None PROVE u.flow.session = c.shot.session
                                          /\ \A m \in Syncs(d.queue) :
                                              d.queue[m].shot.session = c.shot.session
    BY <1>1, <2>1 DEF RecoveryKnown
  <2>3. \A m \in Syncs(d.queue) : d.queue[m].shot.session = c.shot.session
    BY <1>3, <2>1, <2>2 DEF RecoveryKnown, Syncs
  <2>4. x.k = "Sync" => 1 \in Syncs(c.queue) /\ c.queue[1] = x BY RestQueue DEF Syncs, At
  <2>5. u.flow.session = c.shot.session BY <2>1, <2>2, <2>4 DEF RecoveryKnown, FlowAfter
  <2> QED BY <2>3, <2>5
<1>6. RestoreOld(d, J) BY <1>1, <1>3 DEF Flowing, RestoreOld, Active
<1>7. ShowOld(d, J) BY <1>1, <1>3 DEF Flowing, ShowOld
<1>8. HostKnown(d, u) /\ EditingKnown(d, u)
  BY <1>1 DEF Flowing, HostKnown, EditingKnown, Besides, Past
<1>9. SourcesOld(d, u, J) BY <1>1, <1>3 DEF Flowing, Besides, SourcesOld, NotLater
<1> QED BY <1>4, <1>5, <1>6, <1>7, <1>8, <1>9 DEF Flowing

LEMMA RestPopped ==
    ASSUME NEW c \in Cores, NEW v, NEW u, NEW J, NEW d, NEW x, Rests(c, d, x), IdsKnown(c, v, J),
           ImagesKept(c),
           Apart(c.queue, v), Aware(v, u), u.active = None \/ u.active = v.active,
           u.recovery = v.recovery
    PROVE  IdsKnown(d, u, J) /\ ImagesKept(d) /\ Apart(d.queue, u)
<1>1. d \in Cores /\ d.pins = c.pins /\ d.images = c.images BY DEF Rests
<1>2. \A i \in DOMAIN d.queue : i + 1 \in DOMAIN c.queue /\ d.queue[i] = c.queue[i + 1] BY RestQueue
<1>3. \A k : \A i \in At(d.queue, k) : i + 1 \in At(c.queue, k) BY RestQueue
<1>4. IdsKnown(d, v, J) BY <1>1, <1>2 DEF IdsKnown
<1>5. IdsKnown(d, u, J) BY <1>4, IdsAware
<1>6. ImagesKept(d) BY <1>1 DEF ImagesKept
<1>7. Apart(d.queue, u) BY <1>3 DEF Apart
<1> QED BY <1>5, <1>6, <1>7

LEMMA DueLater ==
    ASSUME NEW c, NEW d, NEW v, NEW u, NEW J, NEW x, Rests(c, d, x), RestoreDue(c, v, J),
           x.k = "Restore" /\ x.session = c.shot.session => u.recovery = None,
           u.recovery # None => v.recovery # None \/ At(c.queue, "Suspend") # {}
    PROVE  RestoreDue(d, u, J)
<1>1. d.shot = c.shot BY DEF Rests
<1>2. \A i \in DOMAIN d.queue : i + 1 \in DOMAIN c.queue /\ d.queue[i] = c.queue[i + 1] /\ i \in Nat
  BY RestQueue
<1>3. \A k : \A i \in At(d.queue, k) : i + 1 \in At(c.queue, k) BY RestQueue
<1>4. SUFFICES ASSUME ~Active(d), u.recovery # None \/ At(d.queue, "Suspend") # {}
             PROVE  \/ \E i \in At(d.queue, "Restore") : d.queue[i].session = d.shot.session
                                   /\ \A m \in At(d.queue, "Suspend") : m < i
                    \/ Ordered(J, "Restore", d.shot.session)
  BY DEF RestoreDue
<1>5. ~Active(c) /\ (v.recovery # None \/ At(c.queue, "Suspend") # {})
  BY <1>1, <1>3, <1>4 DEF Active
<1>6. CASE Ordered(J, "Restore", c.shot.session) BY <1>1, <1>6
<1>7. ASSUME NEW i \in At(c.queue, "Restore"), c.queue[i].session = c.shot.session,
             \A m \in At(c.queue, "Suspend") : m < i
      PROVE  \E j \in At(d.queue, "Restore") : d.queue[j].session = d.shot.session
                                   /\ \A m \in At(d.queue, "Suspend") : m < j
  <2>1. c.queue[1] = x /\ i \in DOMAIN c.queue /\ c.queue[i].k = "Restore" /\ i \in Nat
    BY <1>7, RestQueue DEF At
  <2>2. i # 1
    <3>1. SUFFICES ASSUME i = 1 PROVE FALSE OBVIOUS
    <3>2. u.recovery = None BY <1>7, <2>1, <3>1
    <3>3. PICK m : m \in At(d.queue, "Suspend") BY <1>4, <3>2
    <3>4. m \in Nat /\ m >= 1 /\ m + 1 \in At(c.queue, "Suspend")
      BY <1>2, <1>3, <3>3, RestQueue DEF At
    <3>5. m + 1 < 1 BY <1>7, <3>1, <3>4
    <3> QED BY <3>4, <3>5
  <2>3. PICK j \in Nat : j = i - 1 /\ j \in At(d.queue, "Restore")
    <3>1. i >= 1 /\ i - 1 \in At(d.queue, "Restore") BY <2>1, <2>2, <1>7, RestQueue
    <3> QED BY <3>1, <2>1
  <2>4. d.queue[j].session = d.shot.session BY <1>1, <1>2, <1>7, <2>1, <2>3 DEF At
  <2>5. ASSUME NEW m \in At(d.queue, "Suspend") PROVE m < j BY <1>2, <1>3, <1>7, <2>1, <2>3 DEF At
  <2> QED BY <2>3, <2>4, <2>5
<1> QED BY <1>5, <1>6, <1>7 DEF RestoreDue

LEMMA ShowPopped ==
    ASSUME NEW c \in Cores, NEW d, NEW v, NEW u, NEW x, Rests(c, d, x), ShowSees(c, v),
           u.flow = FlowAfter(x, v.flow)
    PROVE  ShowSees(d, u)
<1>1. d.shot = c.shot BY DEF Rests
<1>2. SUFFICES ASSUME NEW i \in At(d.queue, "Show"), Is(d, d.queue[i].session, "Selecting")
               PROVE  Sees(d.queue, u.flow, i, d.shot) /\ \A m \in At(d.queue, "Suspend") : m < i
  BY DEF ShowSees
<1>3. i \in DOMAIN d.queue /\ i \in Nat /\ d.queue[i] = c.queue[i + 1] BY RestQueue DEF At
<1>4. i + 1 \in At(c.queue, "Show") BY RestQueue
<1>5. Is(c, c.queue[i + 1].session, "Selecting") BY <1>1, <1>2, <1>3 DEF Is
<1>6. Sees(c.queue, v.flow, i + 1, c.shot) /\ \A m \in At(c.queue, "Suspend") : m < i + 1
  BY <1>4, <1>5 DEF ShowSees
<1>7. Sees(d.queue, u.flow, i, d.shot) BY <1>1, <1>3, <1>6, FlowPopped
<1>8. ASSUME NEW m \in At(d.queue, "Suspend") PROVE m < i BY <1>3, <1>6, RestQueue DEF At
<1> QED BY <1>7, <1>8

LEMMA SelectPopped ==
    ASSUME NEW c, NEW d, NEW v, NEW u, NEW J, NEW x, Rests(c, d, x), SelectWork(c, v, J),
           x.k = "Show" => x.session # c.shot.session,
           u.host = v.host
    PROVE  SelectWork(d, u, J)
<1>1. d.shot = c.shot BY DEF Rests
<1>2. ASSUME NEW i \in At(c.queue, "Show"), c.queue[i].session = c.shot.session
      PROVE  \E j \in At(d.queue, "Show") : d.queue[j].session = d.shot.session
  BY <1>1, <1>2, RestQueue DEF At
<1> QED BY <1>1, <1>2 DEF SelectWork

LEMMA WorkingPopped ==
    ASSUME NEW c \in Cores, NEW v, NEW u, NEW J, Working(c, v, J), NEW d, NEW x, Rests(c, d, x),
           x.k \notin {"Suspend", "Show", "Restore"}, Besides(v, u), u.flow = FlowAfter(x, v.flow)
    PROVE  Working(d, u, J)
<1>1. d.shot = c.shot /\ d.held = c.held /\ d.pending = c.pending BY DEF Rests
<1>2. HeldKnown(d) BY <1>1 DEF Working, HeldKnown, Active
<1>3. Loaned(d, u) BY <1>1, RestQueue DEF At, Working, Loaned, Active, Besides
<1>4. RestoreDue(d, u, J) BY DueLater DEF Working, Besides
<1>5. ShowSees(d, u) BY ShowPopped DEF Working
<1>6. SelectWork(d, u, J) BY SelectPopped DEF Working, Besides
<1>7. PrepareWork(d, J) BY <1>1 DEF Working, PrepareWork
<1>8. EditorWork(d, u)
  <2>1. \A s : Tended(v, s) => Tended(u, s) BY DEF Besides
  <2>2. c.shot.phase \in {"Editing", "Output"} => Tended(v, c.shot.session)
    BY DEF Working, EditorWork, Tended
  <2>3. c.shot.phase \in {"Editing", "Output"} => Tended(u, c.shot.session) BY <2>1, <2>2
  <2> QED BY <1>1, <2>3 DEF EditorWork, Tended
<1> QED BY <1>2, <1>3, <1>4, <1>5, <1>6, <1>7, <1>8 DEF Working

LEMMA KeptPopped ==
    ASSUME NEW c \in Cores, NEW v, NEW u, NEW d, NEW x, OutputKept(c, v), Rests(c, d, x),
           Besides(v, u), u.flow = FlowAfter(x, v.flow)
    PROVE  OutputKept(d, u)
<1>1. d.shot = c.shot /\ d.pending = c.pending /\ Source(d) = Source(c) BY DEF Rests, Source
<1>2. SUFFICES ASSUME c.shot.phase = "Output"
      PROVE  /\ \A i \in At(d.queue, "ShowPin") : d.queue[i].source = Source(c) =>
                    /\ Source(c) \in d.pending
                    /\ Sees(d.queue, u.flow, i, c.shot)
                    /\ \A m \in Syncs(d.queue) : m > i => d.queue[m].shot = c.shot
             /\ \A id \in DOMAIN u.windows :
                    u.windows[id].phase = "Preparing" /\ u.windows[id].source = Source(c) =>
                      /\ Source(c) \in d.pending
                      /\ u.flow = c.shot
                      /\ \A m \in Syncs(d.queue) : d.queue[m].shot = c.shot
  BY <1>1 DEF OutputKept
<1>3. \A i \in DOMAIN d.queue : i + 1 \in DOMAIN c.queue /\ d.queue[i] = c.queue[i + 1] /\ i \in Nat
  BY RestQueue
<1>4. \A k : \A i \in At(d.queue, k) : i + 1 \in At(c.queue, k) /\ d.queue[i] = c.queue[i + 1]
          /\ i \in Nat
  BY <1>3, RestQueue DEF At
<1>5. ASSUME NEW i \in At(d.queue, "ShowPin"), d.queue[i].source = Source(c)
      PROVE  /\ Source(c) \in d.pending /\ Sees(d.queue, u.flow, i, c.shot)
             /\ \A m \in Syncs(d.queue) : m > i => d.queue[m].shot = c.shot
  <2>1. /\ i + 1 \in At(c.queue, "ShowPin") /\ c.queue[i + 1].source = Source(c)
        /\ i \in DOMAIN d.queue
    BY <1>4, <1>5 DEF At
  <2>2. /\ Source(c) \in c.pending /\ Sees(c.queue, v.flow, i + 1, c.shot)
        /\ \A m \in Syncs(c.queue) : m > i + 1 => c.queue[m].shot = c.shot
    BY <1>2, <2>1 DEF OutputKept
  <2>3. Sees(d.queue, u.flow, i, c.shot) BY <2>1, <2>2, FlowPopped
  <2>4. ASSUME NEW m \in Syncs(d.queue), m > i PROVE d.queue[m].shot = c.shot
    BY <1>4, <2>2, <2>4 DEF Syncs
  <2> QED BY <1>1, <2>2, <2>3, <2>4
<1>6. ASSUME NEW id \in DOMAIN u.windows, u.windows[id].phase = "Preparing",
             u.windows[id].source = Source(c)
      PROVE  /\ Source(c) \in d.pending /\ u.flow = c.shot
             /\ \A m \in Syncs(d.queue) : d.queue[m].shot = c.shot
  BY <1>1, <1>2, <1>4, <1>6, RestQueue DEF Besides, OutputKept, Syncs, At, FlowAfter
<1> QED BY <1>5, <1>6

LEMMA OutputsPopped ==
    ASSUME NEW c \in Cores, NEW v, NEW u, NEW J, Outputs(c, v, J), NEW d, NEW x, Rests(c, d, x),
           x.k = "ShowPin" => x.source # Source(c) \/ c.shot.phase # "Output",
           Besides(v, u), u.flow = FlowAfter(x, v.flow)
    PROVE  Outputs(d, u, J)
<1>1. d.shot = c.shot /\ Source(d) = Source(c) BY DEF Rests, Source
<1>2. OutputKept(d, u) BY KeptPopped DEF Outputs
<1>3. OutputWork(d, u, J)
  <2> SUFFICES ASSUME c.shot.phase = "Output"
               PROVE \/ \E job \in J : job.k = "output"
                            /\ <<job.session, job.operation>> = Source(c)
                     \/ \E i \in At(d.queue, "ShowPin") : d.queue[i].source = Source(c)
                     \/ \E id \in DOMAIN u.windows :
                            u.windows[id].phase = "Preparing" /\ u.windows[id].source = Source(c)
    BY <1>1 DEF OutputWork
  <2>1. \/ \E job \in J : job.k = "output" /\ <<job.session, job.operation>> = Source(c)
        \/ \E i \in At(c.queue, "ShowPin") : c.queue[i].source = Source(c)
        \/ \E id \in DOMAIN v.windows : v.windows[id].phase = "Preparing"
               /\ v.windows[id].source = Source(c)
    BY DEF Outputs, OutputWork
  <2>2. ASSUME NEW i \in At(c.queue, "ShowPin"), c.queue[i].source = Source(c)
        PROVE  \E j \in At(d.queue, "ShowPin") : d.queue[j].source = Source(c)
    BY <2>2, RestQueue DEF At
  <2>3. ASSUME NEW id \in DOMAIN v.windows, v.windows[id].phase = "Preparing",
               v.windows[id].source = Source(c)
        PROVE  /\ id \in DOMAIN u.windows /\ u.windows[id].phase = "Preparing"
               /\ u.windows[id].source = Source(c)
    BY <2>3 DEF Besides
  <2> QED BY <2>1, <2>2, <2>3
<1> QED BY <1>2, <1>3 DEF Outputs

\* What is true whatever is run, and what is when it is about a pin or a snapshot.
LEMMA LoosePopped ==
    ASSUME NEW w \in Worlds, NEW J, Fine(w, J), NEW w2 \in Worlds, NEW x, Rests(w.core, w2.core, x),
           PopStep(w.view, w2.view, x), Editor(w2.view)
    PROVE  /\ Loose(w2, J) /\ With(J, w2.core) = With(J, w.core)
           /\ x.k \notin {"Suspend", "Show", "Restore"} => Fine(w2, J)
           /\ (x.k = "ShowPin" => x.source # Source(w.core) \/ w.core.shot.phase # "Output")
                 /\ Paid(w, J) => Paid(w2, J)
<1>1. PICK c, d, v, u, K : c = w.core /\ d = w2.core /\ v = w.view /\ u = w2.view
          /\ K = With(J, w.core)
  OBVIOUS
<1>2. c \in Cores /\ d \in Cores /\ d.spawned = c.spawned BY <1>1, WorldParts DEF Rests
<1>3. With(J, d) = K BY <1>1, <1>2 DEF With
<1>4. Steady(c, v, K) /\ Rests(c, d, x) /\ PopStep(v, u, x) /\ Editor(u) BY <1>1 DEF Fine
<1>5. /\ Apart(c.queue, v) /\ Flowing(c, v, K) /\ Working(c, v, K) /\ ImagesKept(c)
      /\ IdsKnown(c, v, K)
  BY <1>4 DEF Steady
<1>6. /\ Besides(v, u) /\ u.flow = FlowAfter(x, v.flow) /\ Aware(v, u)
      /\ (u.active = None \/ u.active = v.active)
  BY <1>4 DEF PopStep
<1>7. u.recovery = v.recovery BY <1>6 DEF Besides
<1>8. Flowing(d, u, K) BY <1>2, <1>4, <1>5, <1>6, FlowingPopped
<1>9. IdsKnown(d, u, K) /\ ImagesKept(d) /\ Apart(d.queue, u)
  BY <1>2, <1>4, <1>5, <1>6, <1>7, RestPopped
<1>10. x.k \notin {"Suspend", "Show", "Restore"} => Working(d, u, K)
  BY <1>2, <1>4, <1>5, <1>6, WorkingPopped
<1>11. (x.k = "ShowPin" => x.source # Source(c) \/ c.shot.phase # "Output") /\ Outputs(c, v, K)
           => Outputs(d, u, K)
  BY <1>2, <1>4, <1>6, OutputsPopped
<1>12. Loose(w2, J) BY <1>1, <1>3, <1>4, <1>8, <1>9 DEF Loose
<1>13. x.k \notin {"Suspend", "Show", "Restore"} => Fine(w2, J)
  BY <1>1, <1>3, <1>4, <1>8, <1>9, <1>10 DEF Fine, Steady
<1>14. (x.k = "ShowPin" => x.source # Source(w.core) \/ w.core.shot.phase # "Output")
                 /\ Paid(w, J) => Paid(w2, J)
  BY <1>1, <1>3, <1>11 DEF Paid
<1> QED BY <1>1, <1>3, <1>12, <1>13, <1>14

\* What is posted is run: what each closure does to the core and the view.
Good(w, J) == w \in Worlds /\ Fine(w, J) /\ Paid(w, J)

LEMMA ClosureFields ==
    ASSUME NEW x \in Closures
    PROVE  /\ x.k \in {"Suspend", "Show", "Restore"} => x.session \in Nat
           /\ x.k \in Naming => x.id \in Nat
           /\ x.k \in {"BeginEdit", "EndEdit"} => x.edit \in Nat
           /\ x.k = "Present" => x.revision \in Nat
           /\ x.k = "ShowPin" => x.source \in Sources
           /\ x.k = "Sync" => x \in Snapshots
           /\ x.k \in {"Sync", "Suspend", "Show", "Restore", "ShowPin"} \cup Naming
  BY DEF Closures, Snapshots, Orders, Loans, Naming

LEMMA GoodGoes ==
    ASSUME NEW w, NEW w2, NEW J, Good(w, J), Goes(w, w2, J)
    PROVE  Good(w2, J)
  BY DEF Good, Goes

LEMMA SameView ==
    ASSUME NEW v, NEW x, DOMAIN v.windows \subseteq 1..v.next, x.k # "Sync"
    PROVE  PopStep(v, v, x)
  BY DEF PopStep, Besides, FlowAfter, Aware

\* The head is off, nothing is done yet.
LEMMA BehindFine ==
    ASSUME NEW w, NEW J, Good(w, J), w.core.queue # <<>>, NEW w1, w1 = Behind(w), NEW x,
           x = Head(w.core.queue),
           x.k # "Sync"
    PROVE  /\ w1 \in Worlds /\ w1.view = w.view /\ Rests(w.core, w1.core, x) /\ x \in Closures
           /\ Loose(w1, J) /\ With(J, w1.core) = With(J, w.core)
           /\ x.k \notin {"Suspend", "Show", "Restore"} => Fine(w1, J)
           /\ (x.k = "ShowPin" => x.source # Source(w.core) \/ w.core.shot.phase # "Output")
                => Paid(w1, J)
  BY RestsFacts, FineFacts, SameView, LoosePopped DEF Good, Fine

LEMMA HeadNamed ==
    ASSUME NEW w, NEW J, Good(w, J), w.core.queue # <<>>, NEW x, x = Head(w.core.queue)
    PROVE  /\ x \in Closures /\ (x.k \in Naming => Known(w.view, x.id))
           /\ 1 \in At(w.core.queue, x.k) /\ w.core.queue[1] = x
<1>1. w \in Worlds /\ Fine(w, J) BY DEF Good
<1>2. PICK w1 : w1 = Behind(w) OBVIOUS
<1>3. Rests(w.core, w1.core, x) /\ x \in Closures BY <1>1, <1>2, RestsFacts
<1>4. 1 \in DOMAIN w.core.queue /\ w.core.queue[1] = x BY <1>3, RestQueue
<1>5. IdsKnown(w.core, w.view, With(J, w.core)) BY <1>1, FineFacts
<1> QED BY <1>3, <1>4, <1>5 DEF IdsKnown, At

LEMMA SyncGood ==
    ASSUME NEW w, NEW J, Good(w, J), w.core.queue # <<>>, NEW w1, w1 = Behind(w), NEW x,
           x = Head(w.core.queue),
           x.k = "Sync", NEW w2, w2 = SyncView(w1, x)
    PROVE  Good(w2, J)
<1>1. w \in Worlds /\ Fine(w, J) /\ Paid(w, J) BY DEF Good
<1>2. w1 \in Worlds /\ w1.view = w.view /\ Rests(w.core, w1.core, x) /\ x \in Closures
  BY <1>1, RestsFacts
<1>3. x \in Snapshots BY <1>2, ClosureFields
<1>4. /\ w2 \in Worlds /\ w2.core = w1.core /\ Except(w1.view, w2.view, {"flow", "windows"})
      /\ Synced(w1.view, w2.view, x)
  BY <1>2, <1>3, SyncViewFacts
<1>5. PICK v, u : v = w.view /\ u = w2.view /\ v \in Views BY <1>1, WorldParts
<1>6. /\ u.recovery = v.recovery /\ u.active = v.active /\ u.stored = v.stored /\ u.next = v.next
      /\ u.host = v.host /\ u.timers = v.timers /\ u.drawn = v.drawn /\ u.registry = v.registry
  BY <1>2, <1>4, <1>5 DEF Except
<1>7. Alongside(v, u)
  <2>1. \A id \in DOMAIN v.windows : v.windows[id] \in Windows BY <1>5, StoreFacts
  <2>2. ASSUME NEW id \in DOMAIN v.windows, NEW r
        PROVE  /\ RevisedOf(v.windows[id], r).source = v.windows[id].source
               /\ RevisedOf(v.windows[id], r).phase = v.windows[id].phase
    BY SMTT(30), <2>1 DEF RevisedOf, Windows
  <2>3. DOMAIN u.windows = DOMAIN v.windows BY <1>2, <1>4, <1>5 DEF Synced
  <2>4. ASSUME NEW id \in DOMAIN v.windows
        PROVE  /\ u.windows[id].source = v.windows[id].source
               /\ u.windows[id].phase = v.windows[id].phase
    <3>1. PICK r : r = x.pins[id].revision OBVIOUS
    <3>2. u.windows[id] = RevisedOf(v.windows[id], r) \/ u.windows[id] = v.windows[id]
      BY SMTT(30), <1>2, <1>4, <1>5, <2>4, <3>1 DEF Synced
    <3> QED BY <2>2, <2>4, <3>2
  <2> QED BY <2>3, <2>4 DEF Alongside
<1>8. u.flow = FlowAfter(x, v.flow) BY <1>4, <1>5 DEF Synced, FlowAfter
<1>9. DOMAIN v.windows \subseteq 1..v.next BY <1>1, <1>5, FineFacts
<1>10. Besides(v, u) BY <1>6, <1>7 DEF Besides, Alongside, Tended
<1>11. Aware(v, u) BY <1>6, <1>7, <1>9, AlongKnown DEF Aware, Alongside
<1>12. Editor(u)
  <2>1. Editor(v) BY <1>1, <1>5 DEF Fine
  <2>2. \A id \in DOMAIN u.stored : u.stored[id].document # "desktop" BY <1>6, <2>1 DEF Editor, Lent
  <2> QED BY <1>6, <2>1, <2>2, EditorSame
<1>13. PopStep(v, u, x) BY <1>6, <1>8, <1>10, <1>11 DEF PopStep
<1>14. Fine(w2, J) /\ Paid(w2, J) BY <1>1, <1>2, <1>4, <1>5, <1>12, <1>13, LoosePopped
<1> QED BY <1>4, <1>14 DEF Good

LEMMA PinClosureGood ==
    ASSUME NEW w, NEW J \in SUBSET Jobs, Good(w, J), w.core.queue # <<>>, NEW w1, w1 = Behind(w),
           NEW x, x = Head(w.core.queue), x.k \in Naming, NEW w2, w2 = Run(w1, x)
    PROVE  Good(w2, J)
<1>1. x.k \notin {"Sync", "Suspend", "Show", "Restore", "ShowPin"} BY DEF Naming
<1>2. /\ w1 \in Worlds /\ w1.view = w.view /\ Rests(w.core, w1.core, x) /\ x \in Closures
      /\ Fine(w1, J) /\ Paid(w1, J)
  BY <1>1, BehindFine
<1>3. x.id \in Nat /\ Known(w1.view, x.id) /\ 1 \in At(w.core.queue, x.k)
  BY SMTT(30), <1>2, ClosureFields, HeadNamed
<1>4. CASE x.k = "ClosePin" BY <1>2, <1>3, <1>4, RequestCloseFine, GoodGoes DEF Run, Good
<1>5. CASE x.k = "EndEdit"
  <2>1. w2 = End(w1, x.id, x.edit) /\ x.edit \in Nat BY <1>2, <1>5, ClosureFields DEF Run
  <2>2. Goes(w1, w2, J) BY <1>2, <1>3, <2>1, EndFine
  <2> QED BY <1>2, <2>2, GoodGoes DEF Good
<1>6. CASE x.k = "Present" BY <1>2, <1>3, <1>6, ClosureFields, PresentFine, GoodGoes DEF Run, Good
<1>7. CASE x.k = "BeginEdit"
  <2>1. w2 = BeginEdit(w1, x.id, x.edit) /\ x.edit \in Nat BY <1>2, <1>7, ClosureFields DEF Run
  <2>2. w.view.recovery = None /\ At(w.core.queue, "Suspend") = {}
    BY <1>3, <1>7 DEF Good, Fine, Steady, Apart
  <2>3. w1.view.recovery = None /\ At(w1.core.queue, "Suspend") = {}
    <3>1. \A i \in At(w1.core.queue, "Suspend") : i + 1 \in At(w.core.queue, "Suspend")
      BY <1>2, RestQueue
    <3> QED BY <1>2, <2>2, <3>1
  <2>4. Goes(w1, w2, J) BY <1>2, <1>3, <2>1, <2>3, BeginFine
  <2> QED BY <1>2, <2>4, GoodGoes DEF Good
<1> QED BY <1>4, <1>5, <1>6, <1>7 DEF Naming

LEMMA WorkingRun ==
    ASSUME NEW c \in Cores, NEW v, NEW u, NEW J, Working(c, v, J), NEW d, NEW x, Rests(c, d, x),
           \A s : Tended(v, s) => Tended(u, s), u.flow = FlowAfter(x, v.flow),
           Loaned(d, u), RestoreDue(d, u, J), SelectWork(d, u, J)
    PROVE  Working(d, u, J)
<1>1. d.shot = c.shot /\ d.held = c.held /\ d.pending = c.pending BY DEF Rests
<1>2. HeldKnown(d) BY <1>1 DEF Working, HeldKnown, Active
<1>3. ShowSees(d, u) BY ShowPopped DEF Working
<1>4. PrepareWork(d, J) BY <1>1 DEF Working, PrepareWork
<1>5. EditorWork(d, u)
  <2>1. c.shot.phase \in {"Editing", "Output"} => Tended(v, c.shot.session)
    BY DEF Working, EditorWork, Tended
  <2>2. c.shot.phase \in {"Editing", "Output"} => Tended(u, c.shot.session) BY <2>1
  <2> QED BY <1>1, <2>2 DEF EditorWork, Tended
<1> QED BY <1>2, <1>3, <1>4, <1>5 DEF Working

LEMMA LoanedLater ==
    ASSUME NEW c, NEW v, NEW d, NEW u, NEW x, Loaned(c, v), Rests(c, d, x), x.k # "Suspend",
           v.recovery # None => u.recovery # None \/ ~Active(c)
    PROVE  Loaned(d, u)
<1>1. d.shot = c.shot BY DEF Rests
<1>2. ASSUME NEW i \in At(c.queue, "Suspend") PROVE i - 1 \in At(d.queue, "Suspend")
  BY RestQueue DEF At
<1> QED BY <1>1, <1>2 DEF Loaned, Active

LEMMA OutputsAlike ==
    ASSUME NEW c, NEW v, NEW u, NEW J, Outputs(c, v, J), u.flow = v.flow, u.windows = v.windows
    PROVE  Outputs(c, u, J)
  BY DEF Outputs, OutputWork, OutputKept

\* What the closures about the screenshot find.
LEMMA SuspendSees ==
    ASSUME NEW c \in Cores, NEW v, NEW J, Steady(c, v, J), NEW x, c.queue[1] = x,
           1 \in At(c.queue, x.k),
           DOMAIN c.queue \subseteq Nat, \A i \in DOMAIN c.queue : i >= 1
    PROVE  /\ x.k = "Suspend" => /\ x.session = c.shot.session /\ v.flow.session = c.shot.session
                                 /\ v.flow.phase = "Preparing" /\ v.active = None
                                 /\ At(c.queue, "BeginEdit") = {}
           /\ x.k = "Show" /\ Is(c, x.session, "Selecting") =>
                v.flow = c.shot /\ v.recovery # None
           /\ x.k = "ShowPin" /\ c.shot.phase = "Output" /\ x.source = Source(c)
                /\ OutputKept(c, v) =>
                v.flow = c.shot /\ Source(c) \in c.pending
<1>1. ASSUME NEW shot, Sees(c.queue, v.flow, 1, shot) PROVE v.flow = shot
  BY <1>1 DEF Syncs, At, Sees
<1>2. ASSUME x.k = "Suspend"
      PROVE  /\ x.session = c.shot.session /\ v.flow.session = c.shot.session
             /\ v.flow.phase = "Preparing" /\ v.active = None /\ At(c.queue, "BeginEdit") = {}
  <2>1. SuspendKnown(c, v) /\ Apart(c.queue, v) /\ 1 \in At(c.queue, "Suspend")
    BY <1>2 DEF Steady, Flowing
  <2>2. v.active = None /\ At(c.queue, "BeginEdit") = {} BY <2>1 DEF Apart
  <2>3. PICK shot : Sees(c.queue, v.flow, 1, shot) /\ shot.session = c.shot.session
            /\ shot.phase = "Preparing"
    BY <2>1 DEF SuspendKnown
  <2>4. v.flow = shot BY <1>1, <2>3
  <2> QED BY <2>1, <2>2, <2>3, <2>4 DEF SuspendKnown
<1>3. ASSUME x.k = "Show", Is(c, x.session, "Selecting")
      PROVE  v.flow = c.shot /\ v.recovery # None
  BY <1>1, <1>3 DEF Steady, Working, ShowSees, At, Is, Active, Loaned
<1>4. ASSUME x.k = "ShowPin", c.shot.phase = "Output", x.source = Source(c), OutputKept(c, v)
      PROVE  v.flow = c.shot /\ Source(c) \in c.pending
  BY <1>1, <1>4 DEF OutputKept
<1> QED BY <1>2, <1>3, <1>4

\* The head that was run, with what the event loop knew before.
LEMMA HeadFacts ==
    ASSUME NEW w, NEW J, Good(w, J), w.core.queue # <<>>, NEW x, x = Head(w.core.queue)
    PROVE  /\ w.core.queue[1] = x /\ 1 \in At(w.core.queue, x.k)
           /\ DOMAIN w.core.queue \subseteq Nat
           /\ \A i \in DOMAIN w.core.queue : i >= 1
<1>1. PICK w1 : w1 = Behind(w) OBVIOUS
<1>2. Rests(w.core, w1.core, x) BY <1>1, RestsFacts DEF Good
<1> QED BY <1>2, RestQueue, HeadNamed

\* Nothing is done with the screenshot's closure: it is of another session, or too late.
LEMMA IdleRun ==
    ASSUME NEW w, NEW J, Good(w, J), w.core.queue # <<>>, NEW w1, w1 = Behind(w), NEW x,
           x = Head(w.core.queue),
           x.k \in {"Suspend", "Show", "Restore"},
           x.k = "Suspend" => w.view.recovery # None \/ ~Active(w.core),
           x.k = "Show" /\ Is(w.core, x.session, "Selecting") => FALSE,
           x.k = "Restore" /\ x.session = w.core.shot.session => w.view.recovery = None
    PROVE  Good(w1, J)
<1>1. w \in Worlds /\ Fine(w, J) /\ Paid(w, J) BY DEF Good
<1>2. /\ w1 \in Worlds /\ w1.view = w.view /\ Rests(w.core, w1.core, x)
      /\ Loose(w1, J) /\ With(J, w1.core) = With(J, w.core)
  BY BehindFine
<1>3. Paid(w1, J) BY BehindFine
<1>4. PICK c, d, v, K : c = w.core /\ d = w1.core /\ v = w.view /\ K = With(J, w.core) OBVIOUS
<1>5. c \in Cores /\ Rests(c, d, x) /\ d.shot = c.shot BY <1>1, <1>2, <1>4, WorldParts DEF Rests
<1>6. Steady(c, v, K) /\ Working(c, v, K) BY <1>1, <1>4 DEF Fine, Steady
<1>7. x.k # "Sync" /\ v.flow = FlowAfter(x, v.flow) BY DEF FlowAfter
<1>8. Loaned(d, v) BY <1>4, <1>5, <1>6, LoanedLater DEF Loaned, Active, Working
<1>9. RestoreDue(d, v, K) BY <1>4, <1>5, <1>6, DueLater DEF Working
<1>10. SelectWork(d, v, K)
  <2>1. CASE c.shot.phase = "Selecting" BY <1>4, <1>5, <1>6, <2>1, SelectPopped DEF Is, Working
  <2>2. CASE c.shot.phase # "Selecting" BY <1>5, <2>2 DEF SelectWork
  <2> QED BY <2>1, <2>2
<1>11. Working(d, v, K) BY <1>5, <1>6, <1>7, <1>8, <1>9, <1>10, WorkingRun
<1>12. Fine(w1, J) BY <1>2, <1>4, <1>11 DEF Loose, Fine, Steady
<1> QED BY <1>2, <1>3, <1>12 DEF Good

LEMMA SuspendGood ==
    ASSUME NEW w, NEW J \in SUBSET Jobs, Good(w, J), w.core.queue # <<>>, NEW w1, w1 = Behind(w),
           NEW x, x = Head(w.core.queue), x.k = "Suspend", NEW w2, w2 = Suspend(w1, x.session)
    PROVE  Good(w2, J)
<1>1. w \in Worlds /\ Fine(w, J) /\ Paid(w, J) BY DEF Good
<1>2. /\ w1 \in Worlds /\ w1.view = w.view /\ Rests(w.core, w1.core, x) /\ x \in Closures
      /\ Loose(w1, J) /\ With(J, w1.core) = With(J, w.core)
  BY BehindFine
<1>3. Paid(w1, J) BY BehindFine
<1>4. PICK c, d, v, K, s : c = w.core /\ d = w1.core /\ v = w.view /\ K = With(J, w.core)
          /\ s = x.session
  OBVIOUS
<1>5. c \in Cores /\ d \in Cores /\ v \in Views /\ Rests(c, d, x) /\ d.shot = c.shot /\ s \in Nat
  BY <1>1, <1>2, <1>4, WorldParts, ClosureFields DEF Rests
<1>6. Steady(c, v, K) /\ Working(c, v, K) /\ Editor(v) BY <1>1, <1>4 DEF Fine, Steady
<1>7. /\ s = c.shot.session /\ v.flow.session = c.shot.session /\ v.flow.phase = "Preparing"
      /\ v.active = None /\ At(c.queue, "BeginEdit") = {}
  <2>1. /\ c.queue[1] = x /\ 1 \in At(c.queue, x.k) /\ DOMAIN c.queue \subseteq Nat
        /\ \A i \in DOMAIN c.queue : i >= 1
    BY <1>4, HeadFacts
  <2>2. /\ x.session = c.shot.session /\ v.flow.session = c.shot.session
        /\ v.flow.phase = "Preparing"
        /\ v.active = None /\ At(c.queue, "BeginEdit") = {}
    BY <1>5, <1>6, <2>1, SuspendSees
  <2> QED BY <1>4, <2>2
<1>8. 1 \in At(c.queue, "Suspend") /\ c.queue[1] = x BY <1>4, HeadFacts
<1>9. \/ w2 = w1 /\ v.recovery # None
      \/ v.recovery = None /\ w2 = Emit(w1, Ended(w1.core, s))
      \/ /\ v.recovery = None /\ w2 \in Worlds /\ w2.core = d
         /\ Except(v, w2.view, {"registry", "recovery"})
         /\ w2.view.recovery = AsideOf(v.registry) /\ w2.view.registry = ClearedOf(v.registry)
  <2>1. Lent(w1.view) /\ w1.view.active = None BY <1>2, <1>4, <1>6, <1>7 DEF Editor
  <2> QED BY <1>2, <1>4, <1>5, <1>7, <2>1, SuspendFacts
<1>10. CASE w2 = w1 /\ v.recovery # None BY <1>4, <1>10, IdleRun
<1>11. CASE v.recovery = None /\ w2 = Emit(w1, Ended(w1.core, s))
  <2>1. w2 \in Worlds /\ w2.view = w1.view /\ EndedTold(w1.core, w2.core, s)
    BY <1>2, <1>5, <1>11, EndedWorld
  <2>2. CASE w2.core = w1.core /\ ~ (w1.core.shot.session = s /\ Active(w1.core))
    <3>1. ~Active(w.core) BY <1>4, <1>5, <1>7, <2>2 DEF Active
    <3>2. Good(w1, J) BY <3>1, IdleRun
    <3>3. Fine(w2, J) /\ Paid(w2, J) BY <2>1, <2>2, <3>2 DEF Good, Fine, Paid
    <3> QED BY <2>1, <3>3 DEF Good
  <2>3. CASE Fine(w2, J) /\ Paid(w2, J) BY <2>1, <2>3 DEF Good
  <2> QED BY <1>2, <2>1, <2>2, <2>3, EndedQuit
<1>12. CASE /\ v.recovery = None /\ w2 \in Worlds /\ w2.core = d
           /\ Except(v, w2.view, {"registry", "recovery"})
            /\ w2.view.recovery = AsideOf(v.registry) /\ w2.view.registry = ClearedOf(v.registry)
  <2>1. PICK u : u = w2.view BY SMTT(30)
  <2>2. /\ u.flow = v.flow /\ u.active = v.active /\ u.stored = v.stored /\ u.windows = v.windows
        /\ u.next = v.next /\ u.host = v.host /\ u.timers = v.timers /\ u.drawn = v.drawn
        /\ u.recovery = AsideOf(v.registry) /\ u.registry = ClearedOf(v.registry)
    BY <1>12, <2>1 DEF Except
  <2>3. v.registry.editing = None /\ u.registry.editing = None /\ u.recovery # None
    <3>1. v.registry.editing = None BY <1>6, <1>7, <1>12 DEF Editor, Lent
    <3>2. v.registry \in Registries BY <1>5, StoreFacts
    <3>3. u.registry.editing = None BY <2>2, <3>2 DEF ClearedOf, Registries
    <3>4. AsideOf(v.registry) # None BY DEF AsideOf, None
    <3> QED BY <2>2, <3>1, <3>3, <3>4
  <2>4. Editor(u) BY <1>5, <1>6, <1>7, <1>12, <2>2, EditorAside
  <2>5. Flowing(d, v, K) /\ ImagesKept(d) /\ IdsKnown(d, v, K) BY <1>2, <1>4 DEF Loose
  <2>6. Flowing(d, u, K)
    <3>1. RecoveryKnown(d, u)
      <4>1. SuspendKnown(c, v) BY <1>6 DEF Steady, Flowing
      <4>2. ASSUME NEW m \in Syncs(d.queue) PROVE d.queue[m].shot.session = c.shot.session
        <5>1. m \in DOMAIN d.queue BY DEF Syncs, At
        <5>2. m + 1 \in Syncs(c.queue) /\ d.queue[m] = c.queue[m + 1] /\ m \in Nat /\ m >= 1
          <6>1. d.queue[m] = c.queue[m + 1] /\ m \in Nat /\ m >= 1 BY <1>5, <5>1, RestQueue
          <6>2. m + 1 \in Syncs(c.queue) BY <1>5, RestQueue DEF Syncs
          <6> QED BY <6>1, <6>2
        <5>3. m + 1 > 1 BY <5>2
        <5> QED BY <1>8, <4>1, <5>2, <5>3 DEF SuspendKnown
      <4> QED BY <1>5, <1>7, <2>2, <4>2 DEF RecoveryKnown
    <3>2. /\ FlowKnown(d, u) /\ SuspendKnown(d, u) /\ RestoreOld(d, K) /\ ShowOld(d, K)
          /\ HostKnown(d, u) /\ SourcesOld(d, u, K)
      BY <2>2, <2>5 DEF Flowing, FlowKnown, SuspendKnown, HostKnown, SourcesOld
    <3>3. EditingKnown(d, u) BY <2>2, <2>3, <2>5 DEF Flowing, EditingKnown
    <3> QED BY <3>1, <3>2, <3>3 DEF Flowing
  <2>7. IdsKnown(d, u, K) BY <2>2, <2>5 DEF IdsKnown, Known
  <2>8. Apart(d.queue, u)
    <3>1. \A i \in At(d.queue, "BeginEdit") : i + 1 \in At(c.queue, "BeginEdit") BY <1>5, RestQueue
    <3> QED BY <1>7, <2>2, <3>1 DEF Apart
  <2>9. Working(d, u, K)
    BY ZenonT(60), <1>5, <1>6, <1>8, <2>2, <2>3, DueLater, SelectPopped, WorkingRun DEF Tended,
       FlowAfter,
       Loaned, Working
  <2>10. Fine(w2, J)
    BY ZenonT(60), <1>2, <1>4, <1>12, <2>1, <2>4, <2>5, <2>6, <2>7, <2>8, <2>9 DEF Fine, Steady
  <2>11. Paid(w2, J) BY ZenonT(60), <1>2, <1>3, <1>4, <1>12, <2>1, <2>2, OutputsAlike DEF Paid
  <2> QED BY <1>12, <2>10, <2>11 DEF Good
<1> QED BY <1>9, <1>10, <1>11, <1>12

LEMMA ShowGood ==
    ASSUME NEW w, NEW J \in SUBSET Jobs, Good(w, J), w.core.queue # <<>>, NEW w1, w1 = Behind(w),
           NEW x, x = Head(w.core.queue), x.k = "Show", NEW w2, w2 = Show(w1, x.session)
    PROVE  Good(w2, J)
<1>1. w \in Worlds /\ Fine(w, J) /\ Paid(w, J) BY DEF Good
<1>2. /\ w1 \in Worlds /\ w1.view = w.view /\ Rests(w.core, w1.core, x) /\ x \in Closures
      /\ Loose(w1, J) /\ With(J, w1.core) = With(J, w.core)
  BY BehindFine
<1>3. Paid(w1, J) BY BehindFine
<1>4. PICK c, d, v, K, s : c = w.core /\ d = w1.core /\ v = w.view /\ K = With(J, w.core)
          /\ s = x.session
  OBVIOUS
<1>5. c \in Cores /\ d \in Cores /\ v \in Views /\ Rests(c, d, x) /\ d.shot = c.shot /\ s \in Nat
  BY <1>1, <1>2, <1>4, WorldParts, ClosureFields DEF Rests
<1>6. Steady(c, v, K) /\ Working(c, v, K) /\ Editor(v) BY <1>1, <1>4 DEF Fine, Steady
<1>7. /\ c.queue[1] = x /\ 1 \in At(c.queue, x.k) /\ DOMAIN c.queue \subseteq Nat
      /\ \A i \in DOMAIN c.queue : i >= 1
  BY <1>4, HeadFacts
<1>8. Is(c, x.session, "Selecting") => v.flow = c.shot /\ v.recovery # None
  BY <1>5, <1>6, <1>7, SuspendSees
<1>9. \/ w2 = w1 /\ ~ (v.flow.session = s /\ v.flow.phase = "Selecting" /\ v.recovery # None)
      \/ /\ v.flow.session = s /\ v.recovery # None
         /\ w2 \in Worlds /\ w2.core = d /\ Except(v, w2.view, {"host"}) /\ w2.view.host = s
  BY <1>2, <1>4, <1>5, ShowFacts
<1>10. CASE w2 = w1 /\ ~ (v.flow.session = s /\ v.flow.phase = "Selecting" /\ v.recovery # None)
  BY <1>4, <1>8, <1>10, IdleRun DEF Is
<1>11. CASE /\ v.flow.session = s /\ v.recovery # None
            /\ w2 \in Worlds /\ w2.core = d /\ Except(v, w2.view, {"host"}) /\ w2.view.host = s
  <2>1. PICK u : u = w2.view BY SMTT(30)
  <2>2. /\ u.flow = v.flow /\ u.active = v.active /\ u.stored = v.stored /\ u.windows = v.windows
        /\ u.next = v.next /\ u.timers = v.timers /\ u.drawn = v.drawn /\ u.host = s
        /\ u.recovery = v.recovery /\ u.registry = v.registry
    BY <1>11, <2>1 DEF Except
  <2>3. Editor(u)
    <3>1. \A id \in DOMAIN u.stored : u.stored[id].document # "desktop"
      BY <1>6, <2>2 DEF Editor, Lent
    <3> QED BY <1>6, <1>11, <2>2, <3>1, EditorSame
  <2>4. Flowing(d, v, K) /\ ImagesKept(d) /\ IdsKnown(d, v, K) /\ Apart(d.queue, v)
    BY <1>2, <1>4 DEF Loose
  <2>5. s = c.shot.session BY <1>6, <1>11 DEF Steady, Flowing, RecoveryKnown
  <2>6. c.shot.phase # "Preparing" BY <1>4, <1>6, <1>7, <2>5 DEF Steady, Flowing, ShowOld
  <2>7. Flowing(d, u, K)
    BY <1>5, <2>2, <2>4, <2>5, <2>6 DEF HostKnown, Flowing, FlowKnown, SuspendKnown, SourcesOld,
       RecoveryKnown, EditingKnown
  <2>8. IdsKnown(d, u, K) /\ Apart(d.queue, u) BY <2>2, <2>4 DEF IdsKnown, Known, Apart
  <2>9. Working(d, u, K)
    <3>1. \A t : Tended(v, t) => Tended(u, t) BY <2>2 DEF Tended
    <3>2. u.flow = FlowAfter(x, v.flow) /\ Loaned(d, u) BY <1>11, <2>2 DEF FlowAfter, Loaned
    <3>3. RestoreDue(d, u, K) BY <1>5, <1>6, <2>2, DueLater DEF Working
    <3>4. SelectWork(d, u, K) BY <1>5, <2>2, <2>5 DEF SelectWork
    <3> QED BY <1>5, <1>6, <3>1, <3>2, <3>3, <3>4, WorkingRun
  <2>10. Fine(w2, J)
    BY ZenonT(60), <1>2, <1>4, <1>11, <2>1, <2>3, <2>4, <2>7, <2>8, <2>9 DEF Fine, Steady
  <2>11. Paid(w2, J) BY ZenonT(60), <1>2, <1>3, <1>4, <1>11, <2>1, <2>2, OutputsAlike DEF Paid
  <2> QED BY <1>11, <2>10, <2>11 DEF Good
<1> QED BY <1>9, <1>10, <1>11

LEMMA RestoreGood ==
    ASSUME NEW w, NEW J \in SUBSET Jobs, Good(w, J), w.core.queue # <<>>, NEW w1, w1 = Behind(w),
           NEW x, x = Head(w.core.queue), x.k = "Restore", NEW w2, w2 = Restore(w1, x.session)
    PROVE  Good(w2, J)
<1>1. w \in Worlds /\ Fine(w, J) /\ Paid(w, J) BY DEF Good
<1>2. /\ w1 \in Worlds /\ w1.view = w.view /\ Rests(w.core, w1.core, x) /\ x \in Closures
      /\ Loose(w1, J) /\ With(J, w1.core) = With(J, w.core)
  BY BehindFine
<1>3. Paid(w1, J) BY BehindFine
<1>4. PICK c, d, v, K, s : c = w.core /\ d = w1.core /\ v = w.view /\ K = With(J, w.core)
          /\ s = x.session
  OBVIOUS
<1>5. c \in Cores /\ d \in Cores /\ v \in Views /\ Rests(c, d, x) /\ d.shot = c.shot /\ s \in Nat
  BY <1>1, <1>2, <1>4, WorldParts, ClosureFields DEF Rests
<1>6. Steady(c, v, K) /\ Working(c, v, K) /\ Editor(v) BY <1>1, <1>4 DEF Fine, Steady
<1>7. c.queue[1] = x /\ 1 \in At(c.queue, "Restore") BY <1>4, HeadFacts
<1>8. \/ w2 = w1 /\ (v.flow.session # s \/ v.recovery = None)
      \/ /\ v.flow.session = s /\ v.recovery # None
         /\ w2 \in Worlds /\ w2.core = d /\ Except(v, w2.view, {"registry", "recovery", "host"})
         /\ w2.view.recovery = None /\ w2.view.host = 0 /\ w2.view.registry = BackOf(v.recovery)
  BY <1>2, <1>4, <1>5, RestoreFacts
<1>9. v.recovery # None => v.flow.session = c.shot.session
  BY <1>6 DEF Steady, Flowing, RecoveryKnown
<1>10. CASE w2 = w1 /\ (v.flow.session # s \/ v.recovery = None)
  BY SMTT(30), <1>4, <1>9, <1>10, IdleRun
<1>11. CASE /\ v.flow.session = s /\ v.recovery # None
            /\ w2 \in Worlds /\ w2.core = d /\ Except(v, w2.view, {"registry", "recovery", "host"})
            /\ w2.view.recovery = None /\ w2.view.host = 0 /\ w2.view.registry = BackOf(v.recovery)
  <2>1. PICK u : u = w2.view BY SMTT(30)
  <2>2. /\ u.flow = v.flow /\ u.active = v.active /\ u.stored = v.stored /\ u.windows = v.windows
        /\ u.next = v.next /\ u.timers = v.timers /\ u.drawn = v.drawn /\ u.host = 0
        /\ u.recovery = None /\ u.registry = BackOf(v.recovery)
    BY <1>11, <2>1 DEF Except
  <2>3. u.registry.editing = None BY <2>2 DEF BackOf, OpenedOf
  <2>4. Editor(u) BY <1>5, <1>6, <1>11, <2>2, EditorBack
  <2>5. Flowing(d, v, K) /\ ImagesKept(d) /\ IdsKnown(d, v, K) /\ Apart(d.queue, v)
    BY SMTT(30), <1>2, <1>4 DEF Loose
  <2>6. ~Active(c) /\ ~Active(d)
    BY <1>4, <1>5, <1>6, <1>7, <1>9, <1>11 DEF Steady, Flowing, RestoreOld, Active
  <2>7. Flowing(d, u, K)
    BY <2>2, <2>3, <2>5 DEF HostKnown, RecoveryKnown, Flowing, FlowKnown, SuspendKnown,
       SourcesOld, EditingKnown
  <2>8. IdsKnown(d, u, K) BY <2>2, <2>5 DEF IdsKnown, Known
  <2>9. Apart(d.queue, u) BY <1>11, <2>2, <2>5 DEF Apart
  <2>10. Working(d, u, K)
    <3>1. RestoreDue(d, u, K) BY <1>5, <1>6, <2>2, DueLater DEF Working
    <3>2. HeldKnown(d) BY <1>5, <1>6 DEF Working, HeldKnown, Active, Rests
    <3>3. d.shot.phase = "Idle" BY <2>6 DEF Active
    <3> QED
      BY <3>1, <3>2, <3>3 DEF Working, Loaned, Active, ShowSees, Is, PrepareWork, SelectWork,
         EditorWork
  <2>11. Fine(w2, J)
    BY ZenonT(60), <1>2, <1>4, <1>11, <2>1, <2>4, <2>5, <2>7, <2>8, <2>9, <2>10 DEF Fine, Steady
  <2>12. Paid(w2, J) BY ZenonT(60), <1>2, <1>3, <1>4, <1>11, <2>1, <2>2, OutputsAlike DEF Paid
  <2> QED BY <1>11, <2>11, <2>12 DEF Good
<1> QED BY <1>8, <1>10, <1>11

LEMMA ShowPinGood ==
    ASSUME NEW w, NEW J \in SUBSET Jobs, Good(w, J), w.core.queue # <<>>, NEW w1, w1 = Behind(w),
           NEW x, x = Head(w.core.queue), x.k = "ShowPin", NEW w2, w2 = ShowPin(w1, x.source)
    PROVE  Good(w2, J)
<1>1. w \in Worlds /\ Fine(w, J) /\ Paid(w, J) BY DEF Good
<1>2. /\ w1 \in Worlds /\ w1.view = w.view /\ Rests(w.core, w1.core, x) /\ x \in Closures
      /\ Fine(w1, J) /\ With(J, w1.core) = With(J, w.core)
      /\ (x.source # Source(w.core) \/ w.core.shot.phase # "Output" => Paid(w1, J))
  BY BehindFine
<1>3. PICK c, d, v, K, source : c = w.core /\ d = w1.core /\ v = w.view /\ K = With(J, w.core)
          /\ source = x.source
  OBVIOUS
<1>4. c \in Cores /\ d \in Cores /\ v \in Views /\ Rests(c, d, x) /\ d.shot = c.shot
          /\ source \in Sources
      /\ d.pending = c.pending /\ Source(d) = Source(c)
  BY <1>1, <1>2, <1>3, WorldParts, ClosureFields DEF Rests, Source
<1>5. Steady(c, v, K) /\ Outputs(c, v, K) /\ Editor(v) /\ OutputKept(c, v)
  BY <1>1, <1>3 DEF Fine, Paid, Outputs
<1>6. /\ c.queue[1] = x /\ 1 \in At(c.queue, x.k) /\ DOMAIN c.queue \subseteq Nat
      /\ \A i \in DOMAIN c.queue : i >= 1
  BY <1>3, HeadFacts
<1>7. c.shot.phase = "Output" /\ source = Source(c) => v.flow = c.shot /\ Source(c) \in c.pending
  BY <1>3, <1>4, <1>5, <1>6, SuspendSees
<1>8. \/ w2 = w1 /\ ~ OutputCurrent(w1, source)
      \/ /\ w2 \in Worlds /\ w2.core = d /\ Except(v, w2.view, {"next", "windows", "stored"})
         /\ w2.view.next = v.next + 1
         /\ Added(v, w2.view, v.next + 1, NewWindow(source), EntryOf("pin", FirstOf(source)))
  BY <1>2, <1>3, <1>4, ShowPinFacts
<1>9. CASE w2 = w1 /\ ~ OutputCurrent(w1, source)
  BY SMTT(30), <1>2, <1>3, <1>7, <1>9 DEF OutputCurrent, Source, Good
<1>10. CASE /\ w2 \in Worlds /\ w2.core = d /\ Except(v, w2.view, {"next", "windows", "stored"})
            /\ w2.view.next = v.next + 1
            /\ Added(v, w2.view, v.next + 1, NewWindow(source), EntryOf("pin", FirstOf(source)))
  <2>1. PICK u, id, window, entry : /\ u = w2.view /\ id = v.next + 1 /\ window = NewWindow(source)
                                    /\ entry = EntryOf("pin", FirstOf(source))
    BY SMTT(30)
  <2>2. /\ u.flow = v.flow /\ u.active = v.active /\ u.registry = v.registry
        /\ u.recovery = v.recovery
        /\ u.host = v.host /\ u.timers = v.timers /\ u.drawn = v.drawn /\ u.next = id
    BY ZenonT(60), <1>10, <2>1 DEF Except
  <2>3. Added(v, u, id, window, entry) BY <1>10, <2>1
  <2>4. v.next \in Nat /\ id \in Nat /\ id = v.next + 1 BY <1>4, <2>1 DEF Views
  <2>5. window.phase = "Preparing" /\ window.source = source /\ entry.document = "pin"
    BY <2>1 DEF NewWindow, EntryOf
  <2>6. Steady(d, v, K) /\ IdsKnown(d, v, K) /\ Flowing(d, v, K) BY <1>2, <1>3 DEF Fine, Steady
  <2>7. DOMAIN v.windows \subseteq 1..v.next /\ id \notin DOMAIN v.windows
    <3>1. DOMAIN v.windows \subseteq 1..v.next BY <2>6 DEF IdsKnown
    <3> QED BY <2>4, <3>1
  <2>8. /\ \A other \in DOMAIN v.windows :
            other \in DOMAIN u.windows /\ u.windows[other] = v.windows[other]
        /\ \A other \in DOMAIN u.windows : other = id \/ other \in DOMAIN v.windows
        /\ u.windows[id] = window /\ id \in DOMAIN u.windows
    BY <2>3, <2>7 DEF Added
  <2>9. \A other : Known(v, other) => Known(u, other)
    <3>1. SUFFICES ASSUME NEW other, Known(v, other) PROVE Known(u, other) OBVIOUS
    <3>2. other \in 1..v.next /\ other # id /\ other \in 1..u.next BY <2>2, <2>4, <3>1 DEF Known
    <3> QED BY <2>8, <3>1, <3>2 DEF Known
  <2>10. IdsKnown(d, u, K)
    <3>1. DOMAIN u.windows \subseteq 1..u.next BY <2>2, <2>4, <2>7, <2>8
    <3> QED BY <2>2, <2>6, <2>9, <3>1 DEF IdsKnown
  <2>11. Editor(u) BY <1>5, <2>2, <2>3, <2>5, EditorSame DEF Added, Editor, Lent
  <2>12. Flowing(d, u, K)
    <3>1. NotLater(d, source)
      <4>1. SourcesOld(c, v, K) /\ 1 \in At(c.queue, "ShowPin") BY <1>5, <1>6 DEF Steady, Flowing
      <4> QED BY <1>3, <1>4, <1>6, <4>1 DEF SourcesOld, NotLater
    <3>2. SourcesOld(d, v, K) BY <2>6 DEF Flowing
    <3>3. SourcesOld(d, u, K) BY <2>5, <2>8, <3>1, <3>2 DEF SourcesOld
    <3> QED
      BY <2>2, <2>6, <3>3 DEF Flowing, FlowKnown, SuspendKnown, RecoveryKnown, HostKnown,
         EditingKnown
  <2>13. Working(d, u, K)
    BY ZenonT(60), <2>2, <2>6 DEF Steady, Working, Loaned, RestoreDue, ShowSees, SelectWork,
       EditorWork
  <2>14. Fine(w2, J)
    BY ZenonT(60), <1>2, <1>3, <1>10, <2>1, <2>2, <2>6, <2>10, <2>11, <2>12, <2>13 DEF Steady,
       Apart, Fine
  <2>15. OutputKept(d, u)
    <3>1. OutputKept(d, v) BY <1>4, <1>5, <2>7, SameView, KeptPopped DEF PopStep
    <3>2. ASSUME d.shot.phase = "Output", source = Source(d)
          PROVE  Source(d) \in d.pending /\ u.flow = d.shot /\ \A m \in Syncs(d.queue) :
                     d.queue[m].shot = d.shot
      <4>1. 1 \in At(c.queue, "ShowPin") /\ c.queue[1].source = Source(c) BY <1>3, <1>4, <1>6, <3>2
      <4>2. \A m \in Syncs(c.queue) : m > 1 => c.queue[m].shot = c.shot
        BY <1>4, <1>5, <3>2, <4>1 DEF OutputKept
      <4>3. ASSUME NEW m \in Syncs(d.queue) PROVE d.queue[m].shot = d.shot
        <5>1. m + 1 \in Syncs(c.queue) BY <1>4, RestQueue DEF Syncs
        <5>2. d.queue[m] = c.queue[m + 1] /\ m \in Nat /\ m >= 1 BY <1>4, RestQueue DEF Syncs, At
        <5>3. m + 1 > 1 BY <5>2
        <5> QED BY <1>4, <4>2, <5>1, <5>2, <5>3
      <4> QED BY <1>4, <1>7, <2>2, <3>2, <4>3
    <3> QED BY <2>2, <2>5, <2>8, <3>1, <3>2 DEF OutputKept
  <2>16. OutputWork(d, u, K) BY <1>2, <1>3, <1>4, <2>5, <2>8 DEF OutputWork, Paid, Outputs
  <2>17. Paid(w2, J) BY ZenonT(60), <1>2, <1>3, <1>10, <2>1, <2>15, <2>16 DEF Paid, Outputs
  <2> QED BY <1>10, <2>14, <2>17 DEF Good
<1> QED BY <1>8, <1>9, <1>10

LEMMA RunGood ==
    ASSUME NEW w, NEW J \in SUBSET Jobs, Good(w, J), w.core.queue # <<>>, NEW w1, w1 = Behind(w),
           NEW x, x = Head(w.core.queue), NEW w2, w2 = Run(w1, x)
    PROVE  Good(w2, J)
<1>1. x.k \in {"Sync", "Suspend", "Show", "Restore", "ShowPin"} \cup Naming
  <2>1. x \in Closures BY SMTT(30), HeadNamed
  <2> QED BY <2>1, ClosureFields
<1>2. CASE x.k = "Sync" BY <1>2, SyncGood DEF Run
<1>3. CASE x.k = "Suspend" BY <1>3, SuspendGood DEF Run
<1>4. CASE x.k = "Show" BY <1>4, ShowGood DEF Run
<1>5. CASE x.k = "Restore" BY <1>5, RestoreGood DEF Run
<1>6. CASE x.k = "ShowPin" BY <1>6, ShowPinGood DEF Run
<1>7. CASE x.k \in Naming BY <1>7, PinClosureGood
<1> QED BY <1>1, <1>2, <1>3, <1>4, <1>5, <1>6, <1>7

\* Deferred calls.
LEMMA TimerFields ==
    ASSUME NEW timer \in Timers
    PROVE  /\ timer.k \in {"shot failed", "region"} => timer.session \in Nat
           /\ timer.k = "region" => timer.bounds \in Nat
           /\ timer.k \in {"close window", "edit failed"} => timer.id \in Nat
           /\ timer.k = "edit failed" => timer.edit \in Nat
           /\ timer.k \in {"shot failed", "region", "close window", "edit failed"}
  BY DEF Timers

Dropping(w, timer) == [w EXCEPT !.view.timers = @ \ {timer}]

\* A timer that is gone: nobody misses it but the screenshot whose end it was.
LEMMA DroppedFine ==
    ASSUME NEW w, NEW J \in SUBSET Jobs, Good(w, J), NEW timer \in w.view.timers, NEW w1,
           w1 = Dropping(w, timer)
    PROVE  /\ w1 \in Worlds /\ w1.core = w.core /\ w1.view.timers = w.view.timers \ {timer}
           /\ timer \in Timers
           /\ Except(w.view, w1.view, {"timers"})
           /\ timer.k # "shot failed" \/ timer.session # w.core.shot.session \/ ~Active(w.core)
                => Good(w1, J)
           /\ Loose(w1, J) /\ Paid(w1, J)
           /\ timer.k \in {"close window", "edit failed"} => Known(w1.view, timer.id)
<1>1. w \in Worlds /\ Fine(w, J) /\ Paid(w, J) BY DEF Good
<1>2. /\ w1 \in Worlds /\ w1.core = w.core /\ w1.view.timers = w.view.timers \ {timer}
      /\ timer \in Timers
      /\ Except(w.view, w1.view, {"timers"})
  BY <1>1, FiredFacts DEF Dropping
<1>3. PICK c, v, u, K : c = w.core /\ v = w.view /\ u = w1.view /\ K = With(J, w.core) OBVIOUS
<1>4. /\ u.flow = v.flow /\ u.active = v.active /\ u.registry = v.registry
      /\ u.recovery = v.recovery
      /\ u.host = v.host /\ u.drawn = v.drawn /\ u.next = v.next /\ u.windows = v.windows
      /\ u.stored = v.stored
      /\ u.timers \subseteq v.timers /\ u.timers = v.timers \ {timer}
  BY <1>2, <1>3 DEF Except
<1>5. Editor(v) /\ Steady(c, v, K) /\ Outputs(c, v, K) BY <1>1, <1>3 DEF Fine, Paid
<1>6. Editor(u) BY <1>4, <1>5, EditorSame DEF Editor, Lent
<1>7. Flowing(c, u, K) /\ IdsKnown(c, u, K) /\ Apart(c.queue, u) /\ ImagesKept(c)
  BY ZenonT(60), <1>4, <1>5 DEF Steady, Flowing, FlowKnown, SuspendKnown, RecoveryKnown, HostKnown,
     EditingKnown, SourcesOld, IdsKnown, Known, Apart
<1>8. Outputs(c, u, K) BY <1>4, <1>5, OutputsAlike
<1>9. ASSUME timer.k # "shot failed" \/ timer.session # c.shot.session \/ ~Active(c)
      PROVE  Working(c, u, K)
  BY <1>4, <1>5, <1>9 DEF Steady, Working, EditorWork, Active, Loaned, RestoreDue, ShowSees,
     SelectWork
<1>10. timer.k \in {"close window", "edit failed"} => Known(u, timer.id)
  BY ZenonT(60), <1>3, <1>4, <1>5 DEF Steady, IdsKnown, Known
<1>11. Loose(w1, J) /\ Paid(w1, J) BY <1>2, <1>3, <1>6, <1>7, <1>8 DEF Loose, Paid
<1>12. timer.k # "shot failed" \/ timer.session # w.core.shot.session \/ ~Active(w.core)
           => Good(w1, J)
  BY <1>2, <1>3, <1>6, <1>7, <1>8, <1>9 DEF Good, Fine, Paid, Steady
<1> QED BY <1>2, <1>3, <1>10, <1>11, <1>12

LEMMA FailedGood ==
    ASSUME NEW w, NEW J \in SUBSET Jobs, Good(w, J), NEW timer \in w.view.timers,
           timer.k = "shot failed",
           NEW w1, w1 = Dropping(w, timer), NEW w2, w2 = Emit(w1, Ended(w1.core, timer.session))
    PROVE  Good(w2, J)
<1>1. /\ w1 \in Worlds /\ w1.core = w.core /\ Loose(w1, J) /\ Paid(w1, J) /\ timer.session \in Nat
  <2>1. w1 \in Worlds /\ w1.core = w.core /\ Loose(w1, J) /\ Paid(w1, J) /\ timer \in Timers
    BY ZenonT(60), DroppedFine
  <2> QED BY <2>1, TimerFields
<1>2. w2 \in Worlds /\ w2.view = w1.view /\ EndedTold(w1.core, w2.core, timer.session)
  BY <1>1, EndedWorld
<1>3. CASE w2.core = w1.core /\ ~ (w1.core.shot.session = timer.session /\ Active(w1.core))
  <2>1. Good(w1, J)
    <3>1. timer.session # w.core.shot.session \/ ~Active(w.core) BY <1>1, <1>3
    <3> QED BY <3>1, DroppedFine
  <2>2. Fine(w2, J) /\ Paid(w2, J) BY <1>2, <1>3, <2>1 DEF Good, Fine, Paid
  <2> QED BY <1>2, <2>2 DEF Good
<1>4. CASE Fine(w2, J) /\ Paid(w2, J) BY <1>2, <1>4 DEF Good
<1> QED BY <1>1, <1>2, <1>3, <1>4, EndedQuit

\* The region was dragged.
LEMMA RegionGood ==
    ASSUME NEW w, NEW J \in SUBSET Jobs, Good(w, J), NEW timer \in w.view.timers,
           timer.k = "region",
           NEW w1, w1 = Dropping(w, timer),
           NEW w2, w2 = Emit(w1, Selected(w1.core, timer.session, timer.bounds))
    PROVE  Good(w2, J)
<1>1. /\ w1 \in Worlds /\ w1.core = w.core /\ Good(w1, J) /\ timer.session \in Nat
      /\ timer.bounds \in Nat
  <2>1. w1 \in Worlds /\ w1.core = w.core /\ Loose(w1, J) /\ Paid(w1, J) /\ timer \in Timers
    BY ONLY ZenonT(60), Good(w, J), timer \in w.view.timers, w1 = Dropping(w, timer), J \in SUBSET
       Jobs,
       DroppedFine
  <2>2. timer.k # "shot failed" OBVIOUS
  <2>3. Good(w1, J) BY <2>2, DroppedFine
  <2> QED BY <2>1, <2>3, TimerFields
<1>2. /\ w2 \in Worlds /\ w2.view = w1.view
      /\ SelectedTold(w1.core, w2.core, timer.session, timer.bounds)
  <2>1. PICK s, bounds : s = timer.session /\ bounds = timer.bounds OBVIOUS
  <2>2. w1 \in Worlds BY <1>1
  <2>3. s \in Nat /\ bounds \in Nat BY <1>1, <2>1
  <2>4. w2 = Emit(w1, Selected(w1.core, s, bounds)) BY <2>1
  <2>5. w2 \in Worlds /\ w2.view = w1.view /\ SelectedTold(w1.core, w2.core, s, bounds)
    BY ONLY <2>2, <2>3, <2>4, SelectedWorld
  <2> QED BY <2>1, <2>5
<1>3. w1.core \in Cores /\ Fine(w1, J) /\ Steady(w1.core, w1.view, With(J, w1.core)) /\ Paid(w1, J)
  BY <1>1, WorldParts DEF Good, Fine
<1>4. CASE w2.core = w1.core BY <1>2, <1>3, <1>4 DEF Good, Fine, Paid
<1>5. CASE /\ TendTold(w1.core, w2.core) /\ w2.core.shot.phase = "Editing"
           /\ Is(w1.core, timer.session, "Selecting") \/ Is(w1.core, timer.session, "Editing")
  <2>1. Past(w.core, timer.session) BY DEF Good, Fine, Steady, Flowing, EditingKnown
  <2>2. w1.core.shot.phase = "Editing" BY <1>1, <1>5, <2>1 DEF Is, Past
  <2>3. Tended(w1.view, w1.core.shot.session) BY <1>3, <2>2 DEF Steady, Working, EditorWork, Tended
  <2>4. Fine(w2, J) BY <1>1, <1>2, <1>3, <1>5, <2>3, TendFine
  <2>5. Paid(w2, J) BY <1>5 DEF Paid, Outputs, OutputWork, OutputKept
  <2> QED BY <1>2, <2>4, <2>5 DEF Good
<1> QED BY <1>2, <1>3, <1>4, <1>5, PlacedTold

LEMMA FireGood ==
    ASSUME NEW w, NEW J \in SUBSET Jobs, Good(w, J), NEW timer \in w.view.timers, NEW w1,
           w1 = Dropping(w, timer),
           NEW w2, w2 = CASE timer.k = "shot failed"  -> Emit(w1, Ended(w1.core, timer.session))
                          [] timer.k = "region"       -> Emit(w1,
                              Selected(w1.core, timer.session, timer.bounds))
                          [] timer.k = "close window" -> CloseWindow(w1, timer.id)
                          [] timer.k = "edit failed"  ->
                               LET told == Emit(w1, EditEnded(w1.core, timer.id, timer.edit)) IN
                               End(told, timer.id, timer.edit)
    PROVE  Good(w2, J)
<1>1. /\ w1 \in Worlds /\ timer \in Timers
      /\ timer.k # "shot failed" => Good(w1, J)
      /\ timer.k \in {"close window", "edit failed"} => Known(w1.view, timer.id)
  BY ZenonT(60), DroppedFine
<1>2. CASE timer.k = "shot failed" BY <1>2, FailedGood
<1>3. CASE timer.k = "region" BY <1>3, RegionGood
<1>4. CASE timer.k = "close window" BY <1>1, <1>4, TimerFields, CloseWindowFine, GoodGoes DEF Good
<1>5. CASE timer.k = "edit failed"
  <2>1. PICK told, id, edit : /\ told = Emit(w1, EditEnded(w1.core, id, edit))
                              /\ id = timer.id /\ edit = timer.edit
    OBVIOUS
  <2>2. w2 = End(told, id, edit) /\ id \in Nat /\ edit \in Nat /\ Good(w1, J)
    BY <1>1, <1>5, <2>1, TimerFields
  <2>3. told \in Worlds /\ told.view = w1.view /\ EditEndedTold(w1.core, told.core, id, edit)
    <3>1. /\ told = Emit(w1, EditEnded(w1.core, id, edit)) /\ w1 \in Worlds /\ id \in Nat
          /\ edit \in Nat
      BY <1>1, <2>1, <2>2
    <3> QED BY ONLY <3>1, EditEndedWorld
  <2>4. Goes(w1, told, J) BY <1>1, <2>2, <2>3, EditEndedFine DEF Good
  <2>5. Good(told, J) BY <2>2, <2>4, GoodGoes
  <2>6. Goes(told, w2, J) BY <2>2, <2>5, EndFine DEF Good
  <2> QED BY <2>5, <2>6, GoodGoes
<1> QED BY <1>1, <1>2, <1>3, <1>4, <1>5, TimerFields

\* A window that was being prepared is ready.
LEMMA SameWorld ==
    ASSUME NEW w, NEW w2 \in Worlds, NEW J, w2.core = w.core, w2.view = w.view
    PROVE  (Fine(w, J) => Fine(w2, J)) /\ (Paid(w, J) => Paid(w2, J))
  BY DEF Fine, Paid

\* Whose output it shows.
Wanted(c, source) == c.shot.phase = "Output" /\ source = Source(c)

LEMMA PreparingFacts ==
    ASSUME NEW w, NEW J, Good(w, J), NEW id \in DOMAIN w.view.windows,
           w.view.windows[id].phase = "Preparing", NEW source, source = w.view.windows[id].source
    PROVE  /\ w \in Worlds /\ Fine(w, J) /\ Paid(w, J) /\ id \in Nat /\ source \in Sources
           /\ ~ Has(w.core, id) /\ id \in 1..w.view.next
           /\ Wanted(w.core, source) => source \in w.core.pending /\ OutputCurrent(w, source)
<1>1. w \in Worlds /\ Fine(w, J) /\ Paid(w, J) BY DEF Good
<1>2. PICK c, v : c = w.core /\ v = w.view OBVIOUS
<1>3. v \in Views /\ c \in Cores BY <1>1, <1>2, WorldParts
<1>4. id \in Nat /\ source \in Sources BY <1>2, <1>3, StoreFacts DEF Windows
<1>5. ~ Has(c, id) BY <1>1, <1>2, FineFacts DEF Known
<1>6. id \in 1..v.next BY <1>1, <1>2, FineFacts
<1>7. Wanted(c, source) => source \in c.pending /\ v.flow = c.shot
  BY <1>1, <1>2 DEF Paid, Outputs, OutputKept, Wanted
<1>8. Wanted(c, source) => OutputCurrent(w, source) BY <1>2, <1>7 DEF Wanted, OutputCurrent, Source
<1> QED BY <1>1, <1>2, <1>4, <1>5, <1>6, <1>7, <1>8

\* The windows of outputs that nobody waits for may go, and any may be shown.
Shrunk(v, u) ==
    \A id \in DOMAIN u.windows :
        /\ id \in DOMAIN v.windows /\ u.windows[id].source = v.windows[id].source
        /\ u.windows[id].phase = "Preparing" => v.windows[id].phase = "Preparing"
LEMMA ShrunkFine ==
    ASSUME NEW w \in Worlds, NEW J \in SUBSET Jobs, Fine(w, J), NEW w2 \in Worlds, w2.core = w.core,
           Except(w.view, w2.view, {"stored", "windows"}), Shrunk(w.view, w2.view),
           \A id \in DOMAIN w2.view.stored : w2.view.stored[id].document # "desktop"
    PROVE  /\ Fine(w2, J)
           /\ \A id : Known(w.view, id) => Known(w2.view, id)
           /\ Paid(w, J) /\ (\A id \in DOMAIN w.view.windows :
                  w.view.windows[id].phase = "Preparing"
                      /\ Wanted(w.core, w.view.windows[id].source) =>
                      id \in DOMAIN w2.view.windows /\ w2.view.windows[id].phase = "Preparing")
              => Paid(w2, J)
<1>1. PICK c, v, u, K : c = w.core /\ v = w.view /\ u = w2.view /\ K = With(J, w.core) OBVIOUS
<1>2. /\ u.flow = v.flow /\ u.active = v.active /\ u.registry = v.registry
      /\ u.recovery = v.recovery
      /\ u.host = v.host /\ u.drawn = v.drawn /\ u.next = v.next /\ u.timers = v.timers
  BY <1>1 DEF Except
<1>3. Editor(v) /\ Steady(c, v, K) BY <1>1 DEF Fine
<1>4. Shrunk(v, u) BY <1>1
<1>5. Editor(u) BY <1>1, <1>2, <1>3, EditorSame
<1>6. \A id : Known(v, id) => Known(u, id) BY <1>2, <1>4 DEF Known, Shrunk
<1>7. Flowing(c, u, K)
  BY <1>2, <1>3, <1>4
     DEF Steady, Flowing, FlowKnown, SuspendKnown, RecoveryKnown, HostKnown, EditingKnown,
     SourcesOld, Shrunk
<1>8. IdsKnown(c, u, K)
  <2>1. DOMAIN v.windows \subseteq 1..v.next BY <1>3 DEF Steady, IdsKnown
  <2>2. Aware(v, u) BY <1>2, <1>4, <1>6, <2>1 DEF Aware, Shrunk
  <2> QED BY <1>3, <2>2, IdsAware DEF Steady
<1>9. Working(c, u, K)
  BY <1>2, <1>3 DEF Steady, Working, Loaned, RestoreDue, ShowSees, SelectWork, EditorWork
<1>10. Fine(w2, J) BY <1>1, <1>2, <1>3, <1>5, <1>7, <1>8, <1>9 DEF Fine, Steady, Apart
<1>11. ASSUME Paid(w, J), \A id \in DOMAIN v.windows :
                  v.windows[id].phase = "Preparing" /\ Wanted(c, v.windows[id].source) =>
                      id \in DOMAIN u.windows /\ u.windows[id].phase = "Preparing"
       PROVE  Paid(w2, J)
  <2>1. OutputWork(c, v, K) /\ OutputKept(c, v) BY <1>1, <1>11 DEF Paid, Outputs
  <2>2. OutputWork(c, u, K) BY <1>4, <1>11, <2>1 DEF OutputWork, Wanted, Shrunk
  <2>3. OutputKept(c, u) BY <1>2, <1>4, <2>1 DEF OutputKept, Shrunk
  <2> QED BY <1>1, <2>2, <2>3 DEF Paid, Outputs
<1> QED BY <1>1, <1>6, <1>10, <1>11

\* It is removed: it is wanted no more, or it cannot be shown.
LEMMA GoneFine ==
    ASSUME NEW w, NEW J \in SUBSET Jobs, Good(w, J), NEW id \in DOMAIN w.view.windows,
           w.view.windows[id].phase = "Preparing", NEW source, source = w.view.windows[id].source,
           NEW w2, w2 = CloseWindow(w, id)
    PROVE  /\ w2 \in Worlds /\ w2.core = w.core /\ Fine(w2, J)
           /\ ~ Wanted(w.core, source) => Good(w2, J)
<1>1. w \in Worlds /\ Fine(w, J) /\ Paid(w, J) /\ id \in Nat /\ ~ Has(w.core, id) BY PreparingFacts
<1>2. /\ w2 \in Worlds /\ Except(w.view, w2.view, {"stored", "windows"})
      /\ Removed(w.view, w2.view, id) /\ ClosedTold(w.core, w2.core, id)
  BY <1>1, CloseWindowFacts
<1>3. w2.core = w.core BY <1>1, <1>2 DEF ClosedTold
<1>4. Shrunk(w.view, w2.view) BY <1>2 DEF Shrunk, Removed
<1>5. \A other \in DOMAIN w2.view.stored : w2.view.stored[other].document # "desktop"
  BY <1>1, <1>2, FineFacts DEF Removed, Lent
<1>6. Fine(w2, J) BY <1>1, <1>2, <1>3, <1>4, <1>5, ShrunkFine
<1>7. ASSUME ~ Wanted(w.core, source)
      PROVE  Paid(w2, J)
  BY <1>1, <1>2, <1>3, <1>4, <1>5, <1>7, ShrunkFine DEF Removed
<1> QED BY <1>2, <1>3, <1>6, <1>7 DEF Good

LEMMA UnwantedGood ==
    ASSUME NEW w, NEW J \in SUBSET Jobs, Good(w, J), NEW id \in DOMAIN w.view.windows,
           w.view.windows[id].phase = "Preparing", NEW source, source = w.view.windows[id].source,
           ~ OutputCurrent(w, source), NEW w2, w2 = CloseWindow(w, id)
    PROVE  Good(w2, J)
  BY PreparingFacts, GoneFine

LEMMA LostWindowGood ==
    ASSUME NEW w, NEW J \in SUBSET Jobs, Good(w, J), NEW id \in DOMAIN w.view.windows,
           w.view.windows[id].phase = "Preparing", NEW source, source = w.view.windows[id].source,
           NEW w1, w1 = CloseWindow(w, id),
           NEW w2, w2 = Emit(w1, Completed(w1.core, source[1], source[2], "failed"))
    PROVE  Good(w2, J)
<1>1. w1 \in Worlds /\ w1.core = w.core /\ Fine(w1, J) /\ (~ Wanted(w.core, source) => Good(w1, J))
  BY GoneFine
<1>2. source \in Sources BY PreparingFacts
<1>3. source[1] \in Nat /\ source[2] \in Nat /\ source = <<source[1], source[2]>>
  BY <1>2 DEF Sources
<1>4. PICK result, saved : result = "failed" /\ saved = (result = "saved") OBVIOUS
<1>5. /\ w2 \in Worlds /\ w2.view = w1.view
      /\ CompletedTold(w1.core, w2.core, source[1], source[2], saved)
  <2>1. w2 = Emit(w1, Completed(w1.core, source[1], source[2], result)) BY <1>4
  <2>2. /\ w2 \in Worlds /\ w2.view = w1.view
        /\ CompletedTold(w1.core, w2.core, source[1], source[2], result = "saved")
    BY ONLY <1>1, <1>3, <2>1, CompletedWorld
  <2> QED BY ZenonT(60), <1>4, <2>2
<1>6. w1.core \in Cores BY <1>1, WorldParts
<1>7. CASE w2.core = w1.core /\ ~ Current(w1.core, source[1], source[2])
  <2>1. ~ Wanted(w.core, source) BY <1>1, <1>7 DEF Wanted, Current, Is, Source
  <2> QED BY ZenonT(60), <1>1, <1>5, <1>7, <2>1, SameWorld DEF Good
<1>8. CASE TendTold(w1.core, w2.core) /\ w1.core.shot.phase = "Output"
          /\ w2.core.shot.phase = "Editing"
  <2>1. EditorWork(w1.core, w1.view) BY <1>1 DEF Fine, Steady, Working
  <2>2. Tended(w1.view, w1.core.shot.session) BY ZenonT(60), <1>8, <2>1 DEF EditorWork, Tended
  <2>3. Fine(w2, J) BY ZenonT(60), <1>1, <1>5, <1>8, <2>2, TendFine
  <2>4. Paid(w2, J) BY ZenonT(60), <1>8 DEF Paid, Outputs, OutputWork, OutputKept
  <2> QED BY ZenonT(60), <1>5, <2>3, <2>4 DEF Good
<1> QED BY ZenonT(60), <1>4, <1>5, <1>6, <1>7, <1>8, ReworkedTold

\* It is shown.
Showing(w, id) == [w EXCEPT !.view.windows[id].phase = "Visible"]
LEMMA VisibleFine ==
    ASSUME NEW w, NEW J \in SUBSET Jobs, Good(w, J), NEW id \in DOMAIN w.view.windows,
           w.view.windows[id].phase = "Preparing", NEW source, source = w.view.windows[id].source,
           NEW w2, w2 = Showing(w, id)
    PROVE  /\ w2 \in Worlds /\ w2.core = w.core /\ Except(w.view, w2.view, {"windows"})
           /\ Fine(w2, J)
           /\ Known(w2.view, id)
           /\ ~ Wanted(w.core, source) => Good(w2, J)
<1>1. w \in Worlds /\ Fine(w, J) /\ Paid(w, J) /\ id \in 1..w.view.next BY PreparingFacts
<1>2. /\ w2 \in Worlds /\ w2.core = w.core /\ Except(w.view, w2.view, {"windows"})
      /\ Rewindowed(w.view, w2.view, id, VisibleOf(w.view.windows[id]))
  BY <1>1, VisibleFacts DEF Showing
<1>3. PICK x, y : x = w.view.windows[id] /\ y = VisibleOf(x) OBVIOUS
<1>4. y.phase = "Visible" /\ y.source = x.source
  BY <1>1, <1>3, WorldParts, StoreFacts DEF VisibleOf, Windows
<1>5. Rewindowed(w.view, w2.view, id, y) BY <1>2, <1>3
<1>6. Shrunk(w.view, w2.view) BY <1>3, <1>4, <1>5 DEF Shrunk, Rewindowed
<1>7. /\ Except(w.view, w2.view, {"stored", "windows"}) /\ w2.view.stored = w.view.stored
      /\ w2.view.next = w.view.next
  BY <1>2 DEF Except
<1>8. \A other \in DOMAIN w2.view.stored : w2.view.stored[other].document # "desktop"
  BY <1>1, <1>7, FineFacts DEF Lent
<1>9. Fine(w2, J) BY <1>1, <1>2, <1>6, <1>7, <1>8, ShrunkFine
<1>10. Known(w2.view, id) BY <1>1, <1>4, <1>5, <1>7 DEF Known, Rewindowed
<1>11. ASSUME ~ Wanted(w.core, source)
       PROVE  Paid(w2, J)
  BY <1>1, <1>2, <1>5, <1>6, <1>7, <1>8, <1>11, ShrunkFine DEF Rewindowed
<1> QED BY <1>2, <1>9, <1>10, <1>11 DEF Good

\* The core hears of it: the pin is new, or its window is dropped.
LEMMA OpenedFine ==
    ASSUME NEW w \in Worlds, NEW J \in SUBSET Jobs, Fine(w, J), NEW id \in Nat, Known(w.view, id),
           ~ Has(w.core, id), NEW source \in Sources,
           Wanted(w.core, source) => source \in w.core.pending,
           NEW w2, w2 = Emit(w, Opened(w.core, id, source))
    PROVE  /\ w2 \in Worlds /\ w2.view = w.view /\ w2.core.shot = w.core.shot /\ Fine(w2, J)
           /\ ~ Wanted(w.core, source) => Goes(w, w2, J)
<1>1. w2 \in Worlds /\ w2.view = w.view /\ OpenedTold(w.core, w2.core, id, source) BY OpenedWorld
<1>2. w.core \in Cores /\ w.view \in Views /\ source = <<source[1], source[2]>>
  BY WorldParts DEF Sources
<1>3. Editor(w2.view) BY <1>1 DEF Fine
<1>4. CASE Wanted(w.core, source) BY <1>1, <1>2, <1>3, <1>4, OpenedStep, PinSteady DEF Fine
<1>5. CASE ~ Wanted(w.core, source)
  BY SMTT(30), <1>1, <1>2, <1>3, <1>5, DroppedStep, GoesOn DEF OpenedTold, DroppedTold, Wanted,
     Source, Is,
     Goes
<1> QED BY <1>4, <1>5

LEMMA WindowGood ==
    ASSUME NEW w, NEW J \in SUBSET Jobs, Good(w, J), NEW id \in DOMAIN w.view.windows,
           w.view.windows[id].phase = "Preparing", id \in DOMAIN w.view.stored,
           NEW source, source = w.view.windows[id].source,
           NEW w1, w1 = Showing(w, id),
           NEW w2, w2 = Emit(w1, Opened(w1.core, id, source)),
           NEW w3, w3 = Emit(w2, DocumentChanged(w2.core, id, w2.view.stored[id].published)),
           NEW w4, w4 = Emit(w3, Completed(w3.core, source[1], source[2], "saved"))
    PROVE  Good(w4, J)
<1>a. /\ J \in SUBSET Jobs /\ Good(w, J) /\ id \in DOMAIN w.view.windows
      /\ w.view.windows[id].phase = "Preparing" /\ id \in DOMAIN w.view.stored
      /\ source = w.view.windows[id].source
  BY ZenonT(60)
<1>b. w1 = Showing(w, id)
  BY ZenonT(60)
<1>c. w2 = Emit(w1, Opened(w1.core, id, source))
  BY ZenonT(60)
<1>1. /\ w \in Worlds /\ id \in Nat /\ source \in Sources /\ ~ Has(w.core, id)
      /\ Wanted(w.core, source) => source \in w.core.pending
  BY ONLY <1>a, PreparingFacts
<1>2. /\ w1 \in Worlds /\ w1.core = w.core /\ Except(w.view, w1.view, {"windows"}) /\ Fine(w1, J)
      /\ Known(w1.view, id)
      /\ ~ Wanted(w.core, source) => Good(w1, J)
  BY ONLY <1>a, <1>b, VisibleFine
<1>3. /\ w2 \in Worlds /\ w2.view = w1.view /\ w2.core.shot = w.core.shot /\ Fine(w2, J)
      /\ ~ Wanted(w.core, source) => Goes(w1, w2, J)
  <2>1. ~ Has(w1.core, id) /\ (Wanted(w1.core, source) => source \in w1.core.pending)
    BY ZenonT(60), <1>1, <1>2
  <2>2. /\ w2 \in Worlds /\ w2.view = w1.view /\ w2.core.shot = w1.core.shot /\ Fine(w2, J)
        /\ ~ Wanted(w1.core, source) => Goes(w1, w2, J)
    BY ONLY <1>a, <1>c, <1>1, <1>2, <2>1, OpenedFine
  <2> QED BY ZenonT(60), <1>2, <2>2
<1>4. PICK document : document = w2.view.stored[id].published BY ZenonT(60)
<1>5. document \in Documents
  BY ZenonT(60), <1>2, <1>3, <1>4, WorldParts, StoreFacts DEF Except, Entries
<1>6. w3 \in Worlds /\ w3.view = w2.view /\ DocumentTold(w2.core, w3.core, id, document)
  <2>1. w3 = Emit(w2, DocumentChanged(w2.core, id, document)) BY ZenonT(60), <1>4
  <2> QED BY ZenonT(60), <1>1, <1>3, <1>5, <2>1, DocumentWorld
<1>7. Goes(w2, w3, J) BY ZenonT(60), <1>1, <1>3, <1>6, DocumentFine
<1>8. w3 \in Worlds /\ Fine(w3, J) /\ w3.core.shot = w.core.shot BY ZenonT(60), <1>3, <1>7 DEF Goes
<1>9. source[1] \in Nat /\ source[2] \in Nat /\ source = <<source[1], source[2]>>
  BY ONLY <1>1 DEF Sources
<1>10. PICK result, saved : result = "saved" /\ saved = (result = "saved") BY ZenonT(60)
<1>11. /\ w4 \in Worlds /\ w4.view = w3.view
       /\ CompletedTold(w3.core, w4.core, source[1], source[2], saved)
  <2>1. w4 = Emit(w3, Completed(w3.core, source[1], source[2], result)) BY ZenonT(60), <1>10
  <2>2. /\ w4 \in Worlds /\ w4.view = w3.view
        /\ CompletedTold(w3.core, w4.core, source[1], source[2], result = "saved")
    BY ONLY <1>8, <1>9, <2>1, CompletedWorld
  <2> QED BY ZenonT(60), <1>10, <2>2
<1>12. saved BY ZenonT(60), <1>10
<1>13. \/ w4.core = w3.core /\ ~ Current(w3.core, source[1], source[2])
       \/ Fine(w4, J) /\ Paid(w4, J)
  <2>1. Loose(w3, J) BY ZenonT(60), <1>8, FineLoose
  <2> QED BY ONLY <1>a, <1>8, <1>11, <1>12, <2>1, SavedQuit
<1>14. CASE w4.core = w3.core /\ ~ Current(w3.core, source[1], source[2])
  <2>1. ~ Wanted(w.core, source) BY ONLY <1>8, <1>9, <1>14 DEF Wanted, Current, Is, Source
  <2>2. Good(w1, J) /\ Goes(w1, w2, J) BY ZenonT(60), <1>2, <1>3, <2>1
  <2>3. Good(w2, J) BY ZenonT(60), <2>2, GoodGoes
  <2>4. Good(w3, J) BY ZenonT(60), <1>7, <2>3, GoodGoes
  <2> QED BY ONLY <1>11, <1>14, <2>4, SameWorld DEF Good
<1> QED BY ONLY <1>11, <1>13, <1>14 DEF Good

\* What the user does with the editor.
LEMMA DrawnFine ==
    ASSUME NEW w \in Worlds, NEW J \in SUBSET Jobs, Fine(w, J), NEW drawn \in BOOLEAN,
           NEW w2, w2 = WithDrawn(w, drawn), Editor(w2.view)
    PROVE  Goes(w, w2, J)
<1>1. /\ w2 \in Worlds /\ w2.core = w.core /\ Except(w.view, w2.view, {"drawn"}) BY DrawnFacts
<1>2. w.view \in Views /\ w2.view \in Views BY <1>1, WorldParts
<1>3. Except(w.view, w2.view, {"stored", "windows", "drawn"}) /\ w2.view.windows = w.view.windows
  BY <1>1 DEF Except
<1>4. Alongside(w.view, w2.view) BY <1>3 DEF Alongside
<1>5. DOMAIN w.view.windows \subseteq 1..w.view.next BY FineFacts
<1>6. ViewStep(w.view, w2.view) BY <1>2, <1>3, <1>4, <1>5, AlongView
<1> QED BY <1>1, <1>6, GoesOn

\* It is cleared, and what is drawn on the desktop with it.
LEMMA LostFine ==
    ASSUME NEW w \in Worlds, NEW J \in SUBSET Jobs, Fine(w, J), NEW w1, w1 = RegistryClose(w),
           NEW drawn \in BOOLEAN, drawn => w1.view.drawn /\ w.view.registry.document # "desktop",
           NEW w2, w2 = WithDrawn(w1, drawn)
    PROVE  Goes(w, w2, J)
<1>1. /\ w1 \in Worlds /\ w1.core = w.core
      /\ Except(w.view, w1.view, {"registry", "timers", "stored"})
      /\ w1.view.registry = ClearedOf(w.view.registry)
      /\ w1.view.timers = w.view.timers \cup Farewell(w.view.registry.editing)
      /\ w1.view.stored = KeptAside(w.view)
  BY RegistryCloseFacts
<1>2. /\ w2 \in Worlds /\ w2.core = w1.core /\ w2.view.drawn = drawn
      /\ Except(w1.view, w2.view, {"drawn"})
  BY <1>1, DrawnFacts
<1>3. Except(w.view, w2.view, {"registry", "timers", "stored", "drawn"}) BY <1>1, <1>2 DEF Except
<1>4. /\ w2.view.registry = ClearedOf(w.view.registry) /\ w2.view.stored = KeptAside(w.view)
      /\ w2.view.timers = w.view.timers \cup Farewell(w.view.registry.editing)
  BY <1>1, <1>2 DEF Except
<1>5. w2.view.drawn => w.view.drawn /\ w.view.registry.document # "desktop" BY <1>1, <1>2 DEF Except
<1> QED BY <1>1, <1>2, <1>3, <1>4, <1>5, ClearedFine

LEMMA CloseToolbarFine ==
    ASSUME NEW w \in Worlds, NEW J \in SUBSET Jobs, Fine(w, J), NEW w1, w1 = CloseEditor(w),
           NEW drawn \in BOOLEAN, drawn = (w1.view.drawn /\ w.view.registry.document # "desktop"),
           NEW w2, w2 = WithDrawn(w1, drawn)
    PROVE  Goes(w, w2, J)
<1>1. CASE w.view.active = None BY <1>1, LostFine DEF CloseEditor
<1>2. CASE w.view.active # None
  <2>1. w1 = FinishEdit(w) BY <1>2 DEF CloseEditor
  <2>2. Goes(w, w1, J) /\ w1.view = w.view BY <1>2, <2>1, FinishEditFine
  <2>3. w1 \in Worlds /\ Fine(w1, J) BY <2>2 DEF Goes
  <2>4. w2 \in Worlds /\ w2.view.drawn = drawn /\ Except(w1.view, w2.view, {"drawn"})
    BY <2>3, DrawnFacts
  <2>5. Lent(w.view) BY FineFacts
  <2>6. w2.view.drawn => w1.view.drawn BY <2>4
  <2>7. Editor(w2.view)
    <3>1. PICK v, u : v = w1.view /\ u = w2.view BY SMTT(30)
    <3>2. /\ u.recovery = v.recovery /\ u.active = v.active /\ u.registry = v.registry
          /\ u.host = v.host /\ u.stored = v.stored
      BY <2>4, <3>1 DEF Except
    <3>3. Lent(v) /\ DrawnAt(v) BY <2>3, <3>1 DEF Fine, Editor
    <3>4. Lent(u) BY SMTT(30), <3>2, <3>3 DEF Lent
    <3>5. DrawnAt(u) BY <2>6, <3>1, <3>2, <3>3 DEF DrawnAt
    <3> QED BY <3>1, <3>4, <3>5 DEF Editor
  <2>8. Goes(w1, w2, J) BY <2>3, <2>7, DrawnFine
  <2> QED BY <2>2, <2>8, GoesTwice
<1> QED BY <1>1, <1>2

\* Annotation is opened or closed while the editor is lent to nobody.
LEMMA ToggleFine ==
    ASSUME NEW w \in Worlds, NEW J \in SUBSET Jobs, Fine(w, J), w.view.active = None,
           w.view.recovery = None,
           NEW w1, w1 = Toggle(w), NEW drawn \in BOOLEAN,
           drawn = (w1.view.drawn /\ ~w.view.registry.open),
           NEW w2, w2 = WithDrawn(w1, drawn)
    PROVE  Goes(w, w2, J)
<1>1. Lent(w.view) /\ Editor(w.view) /\ w.view \in Views BY FineFacts, WorldParts DEF Fine
<1>2. /\ w.view.registry.editing = None /\ w.view.registry.capture = "live"
      /\ w.view.registry \in Registries
  BY <1>1, StoreFacts DEF Lent
<1>3. CASE ~w.view.registry.open
  <2>1. w1 \in Worlds /\ w1.core = w.core /\ w1.view.registry = OpenOf(w.view.registry)
        /\ Except(w.view, w1.view, {"registry"})
    BY <1>3, ToggleFacts
  <2>2. /\ w2 \in Worlds /\ w2.core = w1.core /\ w2.view.drawn = drawn
        /\ Except(w1.view, w2.view, {"drawn"})
    BY ZenonT(60), <2>1, DrawnFacts
  <2>3. w2.view.drawn => w.view.drawn BY <2>1, <2>2 DEF Except
  <2>4. Except(w.view, w2.view, {"registry", "drawn"}) /\ w2.view.registry = OpenOf(w.view.registry)
    BY SMTT(30), <2>1, <2>2 DEF Except
  <2>5. /\ w2.view.registry.editing = None /\ w2.view.registry.capture = "live"
        /\ w2.view.registry.document = w.view.registry.document
    BY <1>2, <2>4 DEF OpenOf, Registries
  <2>6. Editor(w2.view)
    <3>1. PICK v, u : v = w.view /\ u = w2.view BY SMTT(30)
    <3>2. /\ u.recovery = None /\ u.active = None /\ u.host = v.host /\ u.stored = v.stored
          /\ v.recovery = None /\ v.active = None
          /\ u.registry.editing = None /\ u.registry.capture = "live"
      BY <2>4, <2>5, <3>1 DEF Except
    <3>3. Lent(v) /\ DrawnAt(v) BY <1>1, <3>1 DEF Editor
    <3>4. Lent(u) BY ONLY SMTT(30), <3>2, <3>3 DEF Lent
    <3>5. DrawnAt(u) BY <2>3, <2>5, <3>1, <3>2, <3>3 DEF DrawnAt
    <3> QED BY <3>1, <3>4, <3>5 DEF Editor
  <2> QED BY ZenonT(60), <1>2, <2>1, <2>2, <2>4, <2>5, <2>6, RegistryFine DEF Free
<1>4. CASE w.view.registry.open BY <1>4, ToggleFacts, LostFine DEF CloseEditor
<1> QED BY <1>3, <1>4

LEMMA DrawFine ==
    ASSUME NEW w \in Worlds, NEW J \in SUBSET Jobs, Fine(w, J), w.view.registry.open,
           w.view.registry.editing = None,
           NEW w1, w1 = Document(w, "desktop"), NEW drawn \in BOOLEAN, NEW w2,
           w2 = WithDrawn(w1, drawn)
    PROVE  Goes(w, w2, J)
<1>1. Lent(w.view) /\ Editor(w.view) /\ w.view \in Views BY FineFacts, WorldParts DEF Fine
<1>2. w.view.recovery = None /\ w.view.active = None /\ w.view.registry.capture = "live"
      /\ w.view.registry \in Registries
  BY <1>1, StoreFacts DEF Lent
<1>3. /\ w1 \in Worlds /\ w1.core = w.core
      /\ w1.view.registry = DesktopOf(w.view.registry)
      /\ Except(w.view, w1.view, {"registry"})
  BY DocumentSet
<1>4. w2 \in Worlds /\ w2.core = w1.core /\ Except(w1.view, w2.view, {"drawn"}) BY <1>3, DrawnFacts
<1>5. /\ Except(w.view, w2.view, {"registry", "drawn"})
      /\ w2.view.registry = DesktopOf(w.view.registry)
  BY <1>3, <1>4 DEF Except
<1>6. /\ w2.view.registry.editing = None /\ w2.view.registry.capture = "live"
      /\ w2.view.registry.document = "desktop"
  BY <1>2, <1>5 DEF DesktopOf, Registries
<1>7. Editor(w2.view) BY <1>1, <1>2, <1>5, <1>6 DEF Editor, Lent, DrawnAt, Except
<1> QED BY <1>3, <1>4, <1>5, <1>6, <1>7, RegistryFine DEF Free

\* What the user does with a screenshot.
LEMMA EndedGood ==
    ASSUME NEW w, NEW J \in SUBSET Jobs, Good(w, J), NEW s \in Nat, NEW w2,
           w2 = Emit(w, Ended(w.core, s))
    PROVE  Good(w2, J)
<1>1. w \in Worlds /\ Fine(w, J) /\ Paid(w, J) /\ Loose(w, J) BY FineLoose DEF Good
<1>2. w2 \in Worlds /\ w2.view = w.view /\ EndedTold(w.core, w2.core, s) BY <1>1, EndedWorld
<1>3. w2.core = w.core \/ (Fine(w2, J) /\ Paid(w2, J)) BY <1>1, <1>2, EndedQuit
<1> QED BY <1>1, <1>2, <1>3, SameWorld DEF Good

\* A screenshot is requested when the queue holds nothing but what is said about pins.
Tame(q) == \A i \in DOMAIN q : q[i].k \in {"Sync", "EndEdit", "ClosePin"}
LEMMA TameMoved ==
    ASSUME NEW c \in Cores, NEW d, NEW id, PinStep(c, d, id) \/ d = c, Tame(c.queue)
    PROVE  Tame(d.queue)
<1>1. CASE PinStep(c, d, id)
  <2>1. PICK X : Announced(c.queue, d.queue, c.shot, d.pins, X) /\ \A x \in X : x.k \in EndKinds
    BY <1>1 DEF PinStep, PinMove
  <2>2. Longer(c.queue, d.queue) BY <2>1, AnnouncedFacts
  <2>3. \E p \in NewIn(c.queue, d.queue) :
            /\ d.queue[p] = SyncOf(c.shot, d.pins)
            /\ \A i \in NewIn(c.queue, d.queue) : i # p => i > p /\ d.queue[i] \in X
    BY <2>1, AnnouncedFacts
  <2>4. \A i \in NewIn(c.queue, d.queue) : d.queue[i].k \in {"Sync", "EndEdit", "ClosePin"}
    BY <2>1, <2>3 DEF SyncOf, EndKinds
  <2>5. \A i \in DOMAIN c.queue : d.queue[i] = c.queue[i] BY <2>2, LongerFacts
  <2> QED BY <2>4, <2>5 DEF Tame, NewIn
<1> QED BY <1>1

LEMMA FinishNowTame ==
    ASSUME NEW w \in Worlds, Lent(w.view), Tame(w.core.queue), NEW w2, w2 = FinishNow(w)
    PROVE  Tame(w2.core.queue)
<1>1. CASE w.view.active = None BY <1>1 DEF FinishNow
<1>2. CASE w.view.active # None
  <2>1. PICK w1 \in Worlds : /\ w1.view = w.view
                              /\ w.view.active.id \in Nat /\ w.view.active.edit \in Nat
                              /\ EditEndedTold(w.core, w1.core, w.view.active.id,
                                               w.view.active.edit)
                              /\ EditTaken(w1, w2, w.view.active.id)
    BY <1>2, FinishNowFacts
  <2>2. PICK id, edit : id = w.view.active.id /\ edit = w.view.active.edit OBVIOUS
  <2>3. w.core \in Cores /\ w1.core \in Cores BY WorldParts
  <2>4. Tame(w1.core.queue) BY <2>1, <2>2, <2>3, EditEndedStep, TameMoved
  <2>5. PICK document : document = PublicationOf(w1.view, id) OBVIOUS
  <2>6. DocumentTold(w1.core, w2.core, id, document) \/ w2.core = w1.core
    BY <2>1, <2>2, <2>5 DEF EditTaken
  <2> QED BY <2>3, <2>4, <2>6, DocumentStep, TameMoved
<1> QED BY <1>1, <1>2

\* What a worker carries out.
LEMMA OrderFacts ==
    ASSUME NEW job \in Jobs, job.k = "commands"
    PROVE  /\ job.cmds[1] \in Orders /\ job.cmds = <<job.cmds[1]>>
           /\ job.cmds[1].session \in Nat /\ job.cmds[1].k \in {"Show", "Restore"}
<1>1. job.cmds \in {<<cmd>> : cmd \in Orders} BY DEF Jobs
<1>2. PICK cmd \in Orders : job.cmds = <<cmd>> BY <1>1
<1>3. job.cmds[1] = cmd BY <1>2
<1> QED BY <1>2, <1>3 DEF Orders

\* What a request posts.
Suspending(q, r) == \A i \in NewIn(q, r) : r[i].k = "Sync" \/ r[i].k = "Suspend"
LEMMA RequestedFlow ==
    ASSUME NEW c \in Cores, NEW v \in Views, NEW J \in SUBSET Jobs, Flowing(c, v, J), v.host = 0,
           v.recovery = None,
           NEW d \in Cores, NEW s, s = c.shot.session + 1, d.shot = PreparingOf(s),
           Tame(c.queue), NEW x, x = SuspendOf(s), NEW X, X = {x},
           Announced(c.queue, d.queue, d.shot, d.pins, X),
           NEW K, \A job \in K : job \in J \/ job = PrepareOf(s)
    PROVE  Flowing(d, v, K) /\ At(d.queue, "Suspend") # {} /\ Suspending(c.queue, d.queue)
<1>1. PICK q, r, shot, flow, pins : q = c.queue /\ r = d.queue /\ shot = d.shot /\ flow = v.flow
          /\ pins = d.pins
  OBVIOUS
<1>2. s \in Nat /\ c.shot.session \in Nat /\ c.shot.session < s /\ c.shot.operation \in Nat
  BY ShotNumbers
<1>3. shot.session = s /\ shot.phase = "Preparing" /\ shot.operation = 0 BY <1>1 DEF PreparingOf
<1>4. x.k = "Suspend" /\ x.session = s BY DEF SuspendOf
<1>5. Announced(c.queue, d.queue, shot, pins, X) /\ \A y \in X : y.k # "Sync" BY <1>1, <1>4
<1>6. Knows(r, flow, shot) BY ZenonT(60), <1>1, <1>5, KnowsNew
<1>7. \A i \in NewIn(q, r) : r[i].k # "Sync" => Sees(r, flow, i, shot)
  BY ZenonT(60), <1>1, <1>5, KnowsNew
<1>8. \A i \in NewIn(q, r) : r[i].k # "Sync" => r[i] \in X BY <1>1, <1>5, KnowsNew
<1>9. Longer(q, r) BY <1>1, AnnouncedFacts
<1>10. /\ DOMAIN r \subseteq Nat /\ \A i \in DOMAIN q : r[i] = q[i]
       /\ \A i \in NewIn(q, r), j \in DOMAIN q : j < i
  BY <1>9, LongerFacts
<1>11. \E p \in NewIn(q, r) :
            /\ r[p] = SyncOf(shot, pins)
            /\ \A i \in NewIn(q, r) : i # p => i > p /\ r[i] \in X
  BY <1>1, <1>5, AnnouncedFacts
<1>12. \A y \in X : \E i \in NewIn(q, r) : r[i] = y BY <1>1, <1>5, AnnouncedFacts
<1>13. \A i \in NewIn(q, r) : r[i] = SyncOf(shot, pins) \/ r[i].k = "EndEdit"
           \/ \A j \in NewIn(q, r) : j <= i
  BY <1>1, <1>5, AnnouncedFacts
<1>14. \A i \in NewIn(q, r) : r[i].k \in {"Sync", "Suspend"} BY <1>4, <1>8
<1>15. At(r, "Suspend") # {} /\ \A i \in At(r, "Suspend") :
          i \in NewIn(q, r) /\ r[i] = x /\ \A j \in NewIn(q, r) : j <= i
  BY <1>1, <1>4, <1>8, <1>10, <1>12, <1>13 DEF At, NewIn, Tame, SyncOf
<1>16. At(r, "Restore") = {} /\ At(r, "Show") = {} /\ At(r, "ShowPin") = {}
  BY <1>1, <1>10, <1>14 DEF At, NewIn, Tame
<1>17. \A i \in At(r, "Suspend") : \A m \in DOMAIN r : m <= i
  <2>1. TAKE i \in At(r, "Suspend")
  <2>2. TAKE m \in DOMAIN r
  <2>3. i \in Nat /\ m \in Nat BY <1>10 DEF At
  <2>4. m \in DOMAIN q => m < i BY <1>10, <1>15
  <2>5. m \notin DOMAIN q => m <= i BY <1>15 DEF NewIn
  <2> QED BY <2>3, <2>4, <2>5
<1>18. FlowKnown(d, v) BY <1>1, <1>6 DEF FlowKnown, Knows
<1>19. SuspendKnown(d, v)
  <2>1. SUFFICES ASSUME NEW i \in At(r, "Suspend")
        PROVE /\ r[i].session = d.shot.session
              /\ \E y \in {v.flow} \cup {r[j].shot : j \in Syncs(r)} :
                    Sees(r, v.flow, i, y) /\ y.session = d.shot.session /\ y.phase = "Preparing"
              /\ \A m \in Syncs(r) : m > i => r[m].shot.session = d.shot.session
              /\ \A m \in At(r, "Suspend") : m = i
    BY <1>1 DEF SuspendKnown
  <2>2. r[i] = x /\ i \in NewIn(q, r) /\ r[i].k # "Sync" BY <1>4, <1>15
  <2>3. Sees(r, flow, i, shot) BY <1>7, <2>2
  <2>4. shot \in {flow} \cup {r[j].shot : j \in Syncs(r)} BY <2>3, SeenShot
  <2>5. \A m \in Syncs(r) : ~ (m > i) BY <1>10, <1>17 DEF Syncs, At
  <2>6. \A m \in At(r, "Suspend") : m = i BY <1>10, <1>17 DEF At
  <2>7. r[i].session = d.shot.session BY <1>1, <1>3, <1>4, <2>2
  <2>8. \E y \in {v.flow} \cup {r[j].shot : j \in Syncs(r)} :
                    Sees(r, v.flow, i, y) /\ y.session = d.shot.session /\ y.phase = "Preparing"
    BY <1>1, <1>3, <2>3, <2>4
  <2> QED BY <2>5, <2>6, <2>7, <2>8
<1>20. RecoveryKnown(d, v) /\ HostKnown(d, v) BY DEF RecoveryKnown, HostKnown
<1>21. \A job \in K : job.k # "prepare" => job \in J BY DEF PrepareOf
<1>22. RestoreOld(d, K) /\ ShowOld(d, K)
  BY <1>1, <1>2, <1>3, <1>16, <1>21, OrderFacts DEF Flowing, RestoreOld, ShowOld
<1>23. EditingKnown(d, v)
  <2>1. ASSUME NEW n \in Nat, Past(c, n)
        PROVE  Past(d, n)
    BY <1>1, <1>2, <1>3, <2>1 DEF Past
  <2>2. \A timer \in v.timers : timer.k = "region" => timer.session \in Nat
    BY StoreFacts, TimerFields
  <2>3. v.registry.editing # None /\ v.registry.editing.k = "shot"
            => v.registry.editing.session \in Nat
    BY StoreFacts DEF Edited
  <2> QED BY <2>1, <2>2, <2>3 DEF Flowing, EditingKnown
<1>24. SourcesOld(d, v, K)
  <2>1. ASSUME NEW source \in Sources, NotLater(c, source)
        PROVE  NotLater(d, source)
    BY <1>1, <1>2, <1>3, <2>1 DEF NotLater, Sources
  <2>2. \A job \in J : job.k = "output" => <<job.session, job.operation>> \in Sources BY JobFacts
  <2>3. \A id \in DOMAIN v.windows : v.windows[id].source \in Sources BY StoreFacts DEF Windows
  <2> QED BY <1>1, <1>16, <1>21, <2>1, <2>2, <2>3 DEF Flowing, SourcesOld
<1> QED BY <1>1, <1>14, <1>15, <1>18, <1>19, <1>20, <1>22, <1>23, <1>24 DEF Flowing, Suspending

LEMMA RequestedSteady ==
    ASSUME NEW c \in Cores, NEW v \in Views, NEW J \in SUBSET Jobs, Lent(v),
           Steady(c, v, With(J, c)),
           v.active = None, v.recovery = None, ~ Active(c), Tame(c.queue), NEW d,
           RequestedTold(c, d)
    PROVE  d \in Cores /\ Steady(d, v, With(J, d)) /\ Outputs(d, v, With(J, d))
<1>1. PICK s, shot, x, X, new, job, started : /\ s = c.shot.session + 1 /\ shot = PreparingOf(s)
         /\ x = SuspendOf(s) /\ X = {x} /\ new = <<SyncOf(shot, c.pins), x>>
         /\ job = PrepareOf(s) /\ started = {job}
  OBVIOUS
<1>2. Told(c, d, shot, c.pins, new, started) /\ d.held = [session |-> s, frames |-> FALSE]
      /\ PendingKept(c, d) /\ ImagesSynced(c, d)
  BY <1>1 DEF RequestedTold
<1>3. d \in Cores /\ d.shot = shot /\ d.pins = c.pins /\ d.spawned = c.spawned \cup started
  BY <1>2 DEF Told
<1>4. Announced(c.queue, d.queue, d.shot, d.pins, X) BY <1>1, <1>2, <1>3, AnnouncedTwo DEF Told
<1>5. PICK K, L : K = With(J, d) /\ L = With(J, c) OBVIOUS
<1>6. K \in SUBSET Jobs /\ L \in SUBSET Jobs /\ K = L \cup started BY <1>3, <1>5, WithJobs DEF With
<1>7. \A y \in K : y \in L \/ y = PrepareOf(s) BY <1>1, <1>6
<1>8. v.host = 0 BY DEF Lent
<1>9. Steady(c, v, L) BY <1>5
<1>10. /\ Flowing(d, v, K) /\ At(d.queue, "Suspend") # {}
       /\ Suspending(c.queue, d.queue)
  <2>1. /\ c \in Cores /\ v \in Views /\ L \in SUBSET Jobs /\ Flowing(c, v, L) /\ v.host = 0
        /\ v.recovery = None
        /\ d \in Cores /\ s = c.shot.session + 1 /\ d.shot = PreparingOf(s) /\ Tame(c.queue)
        /\ x = SuspendOf(s) /\ X = {x}
    BY <1>1, <1>3, <1>6, <1>8, <1>9 DEF Steady
  <2>2. Flowing(d, v, K) BY ONLY <1>4, <1>7, <2>1, RequestedFlow
  <2>3. At(d.queue, "Suspend") # {} BY ONLY <1>4, <1>7, <2>1, RequestedFlow
  <2>4. Suspending(c.queue, d.queue) BY ONLY <1>4, <1>7, <2>1, RequestedFlow
  <2> QED BY <2>2, <2>3, <2>4
<1>11. \A i \in DOMAIN c.queue : d.queue[i] = c.queue[i] BY <1>4, AnnouncedFacts, LongerFacts
<1>12. shot.session = s /\ shot.phase = "Preparing" BY <1>1 DEF PreparingOf
<1>13. \A i \in DOMAIN d.queue : d.queue[i].k \in {"Sync", "EndEdit", "ClosePin", "Suspend"}
  BY <1>10, <1>11 DEF Tame, NewIn, Suspending
<1>14. Active(d) BY <1>3, <1>12 DEF Active
<1>15. Working(d, v, K)
  <2>1. HeldKnown(d) BY <1>2, <1>3, <1>12, <1>14 DEF HeldKnown, None
  <2>2. PrepareWork(d, K) BY <1>1, <1>3, <1>6, <1>12 DEF PrepareWork, PrepareOf
  <2>3. ShowSees(d, v) BY <1>13 DEF ShowSees, At
  <2> QED
    BY <1>3, <1>10, <1>12, <1>14, <2>1, <2>2, <2>3 DEF Working, Loaned, RestoreDue, SelectWork,
       EditorWork
<1>16. Apart(d.queue, v) BY <1>13 DEF Apart, At
<1>17. ImagesKept(d) BY <1>2, <1>3, <1>9 DEF Steady, ImagesKept, ImagesSynced
<1>18. IdsKnown(d, v, K)
  <2>1. \A i \in DOMAIN d.queue : d.queue[i].k \in Naming => Known(v, d.queue[i].id)
    BY <1>9, <1>10, <1>11 DEF Steady, IdsKnown, Naming, NewIn, Suspending
  <2>2. \A y \in K : y.k \in {"preview", "pin output"} => Known(v, y.id)
    <3>1. PrepareOf(s).k = "prepare" BY DEF PrepareOf
    <3>2. \A y \in L : y.k \in {"preview", "pin output"} => Known(v, y.id)
      BY <1>9 DEF Steady, IdsKnown
    <3> QED BY ONLY <1>7, <3>1, <3>2
  <2> QED BY <1>3, <1>9, <2>1, <2>2 DEF Steady, IdsKnown
<1>19. Outputs(d, v, K) BY <1>3, <1>12 DEF Outputs, OutputWork, OutputKept
<1> QED BY <1>3, <1>5, <1>10, <1>15, <1>16, <1>17, <1>18, <1>19 DEF Steady

LEMMA RequestShotGood ==
    ASSUME NEW w, NEW J \in SUBSET Jobs, Good(w, J), w.core.queue = <<>>, NEW w1, w1 = FinishNow(w),
           NEW w2,
           w2 = IF Busy(w1) \/ ~w1.view.registry.open THEN w1 ELSE Emit(w1, Requested(w1.core))
    PROVE  Good(w2, J)
<1>1. w \in Worlds /\ Fine(w, J) /\ Lent(w.view) BY FineFacts DEF Good
<1>2. Goes(w, w1, J) /\ w1.view.active = None BY <1>1, FinishNowFine
<1>3. Good(w1, J) BY <1>2, GoodGoes
<1>4. Tame(w1.core.queue) BY <1>1, FinishNowTame DEF Tame
<1>5. CASE Busy(w1) \/ ~w1.view.registry.open BY <1>3, <1>5
<1>6. CASE ~ (Busy(w1) \/ ~w1.view.registry.open)
  <2>1. w2 = Emit(w1, Requested(w1.core)) BY <1>6
  <2>2. w1 \in Worlds /\ Fine(w1, J) /\ Paid(w1, J) /\ Lent(w1.view) BY <1>3, FineFacts DEF Good
  <2>3. w2 \in Worlds /\ w2.view = w1.view /\ RequestedTold(w1.core, w2.core)
    BY <2>1, <2>2, RequestedWorld
  <2>4. CASE Active(w1.core) BY <1>3, <2>3, <2>4, SameWorld DEF RequestedTold, Good
  <2>5. CASE ~ Active(w1.core)
    BY <1>2, <1>4, <1>6, <2>2, <2>3, <2>5, WorldParts, RequestedSteady DEF Busy, Fine, Good, Paid
  <2> QED BY <2>4, <2>5
<1> QED BY <1>5, <1>6

\* The editor is lent to a screenshot whose region was selected.
LentRegion(v, u, s) ==
    /\ Except(v, u, {"host", "registry", "timers"}) /\ u.host = 0
    /\ \A timer \in u.timers : timer \in v.timers \/ timer = ShotFailed(s)
    /\ u.registry.document # "desktop" /\ (u.registry.open => u.registry.editing # None)
    /\ u.registry.editing # None => u.registry.editing.k = "shot" /\ u.registry.editing.session = s
    /\ Tended(u, s)
Region(w, s) ==
    [w EXCEPT !.view.host = 0,
              !.view.registry.editing = [k |-> "shot", session |-> s, region |-> 1],
              !.view.registry.capture = "frozen"]
LEMMA RegionView ==
    ASSUME NEW w \in Worlds, w.view.registry.document # "desktop", w.view.active = None,
           NEW s \in Nat,
           NEW w1, w1 = Region(w, s), NEW w2, w2 = Toggle(w1)
    PROVE  w2 \in Worlds /\ w2.core = w.core /\ LentRegion(w.view, w2.view, s)
<1>1. /\ w1 \in Worlds /\ w1.core = w.core /\ w1.view.host = 0
      /\ w1.view.registry = SelectedBy(w.view.registry, s)
      /\ Except(w.view, w1.view, {"host", "registry"})
  BY ZenonT(60), RegionFacts DEF Region
<1>2. PICK r, e : r = w1.view.registry /\ e = r.editing OBVIOUS
<1>3. /\ r.document = w.view.registry.document /\ e # None /\ e.k = "shot" /\ e.session = s
      /\ r.open = w.view.registry.open /\ r \in Registries
  <2>1. w.view \in Views /\ w1.view \in Views BY <1>1, WorldParts
  <2>2. w.view.registry \in Registries /\ r \in Registries BY <1>2, <2>1, StoreFacts
  <2> QED BY <1>1, <1>2, <2>2 DEF SelectedBy, Registries, None
<1>4. CASE ~r.open
  <2>1. w2 \in Worlds /\ w2.core = w1.core /\ w2.view.registry = OpenOf(r)
        /\ Except(w1.view, w2.view, {"registry"})
    BY <1>1, <1>2, <1>4, ToggleFacts
  <2>2. PICK x : x = w2.view.registry OBVIOUS
  <2>3. x.document = r.document /\ x.editing = e /\ x.open
    BY <1>2, <1>3, <2>1, <2>2 DEF OpenOf, Registries
  <2>4. /\ Except(w.view, w2.view, {"host", "registry", "timers"}) /\ w2.view.host = 0
        /\ w2.view.timers = w.view.timers
    BY <1>1, <2>1 DEF Except
  <2>5. Tended(w2.view, s) BY <1>3, <2>2, <2>3 DEF Tended
  <2> QED BY <1>1, <1>3, <2>1, <2>2, <2>3, <2>4, <2>5 DEF LentRegion
<1>5. CASE r.open
  <2>1. w1.view.active = None BY <1>1 DEF Except
  <2>2. w2 = RegistryClose(w1) BY <1>1, <1>2, <1>5, <2>1, ToggleFacts DEF CloseEditor
  <2>3. /\ w2 \in Worlds /\ w2.core = w1.core
        /\ Except(w1.view, w2.view, {"registry", "timers", "stored"})
        /\ w2.view.registry = ClearedOf(w1.view.registry)
        /\ w2.view.timers = w1.view.timers \cup Farewell(w1.view.registry.editing)
        /\ w2.view.stored = KeptAside(w1.view)
    BY SMTT(30), <1>1, <2>2, RegistryCloseFacts
  <2>4. w2.view.stored = w1.view.stored BY <1>2, <1>3, <2>3 DEF KeptAside
  <2>5. w2.view.timers = w1.view.timers \cup {ShotFailed(s)} BY <1>2, <1>3, <2>3 DEF Farewell
  <2>6. PICK x : x = w2.view.registry OBVIOUS
  <2>7. x.document = "blank" /\ x.editing = None /\ ~x.open
    BY <1>2, <1>3, <2>3, <2>6 DEF ClearedOf, Registries
  <2>8. /\ Except(w.view, w2.view, {"host", "registry", "timers"}) /\ w2.view.host = 0
        /\ w1.view.timers = w.view.timers
    BY <1>1, <2>3, <2>4 DEF Except
  <2>9. Tended(w2.view, s)
    <3>1. ShotFailed(s).k = "shot failed" /\ ShotFailed(s).session = s BY DEF ShotFailed
    <3>2. ShotFailed(s) \in w2.view.timers BY <2>5
    <3> QED BY <3>1, <3>2 DEF Tended
  <2> QED BY <1>1, <2>3, <2>5, <2>6, <2>7, <2>8, <2>9 DEF LentRegion
<1> QED BY <1>4, <1>5

LEMMA RegionFine ==
    ASSUME NEW w \in Worlds, NEW J \in SUBSET Jobs, Loose(w, J), w.view.recovery # None,
           HeldKnown(w.core), Loaned(w.core, w.view), RestoreDue(w.core, w.view, With(J, w.core)),
           NEW s, s = w.core.shot.session, w.core.shot.phase # "Preparing",
           w.core.shot.phase # "Selecting",
           NEW w2 \in Worlds, w2.core = w.core, LentRegion(w.view, w2.view, s)
    PROVE  Fine(w2, J) /\ (Paid(w, J) => Paid(w2, J))
<1>1. PICK c, v, u, K : c = w.core /\ v = w.view /\ u = w2.view /\ K = With(J, w.core) OBVIOUS
<1>2. /\ u.flow = v.flow /\ u.active = v.active /\ u.recovery = v.recovery
      /\ u.drawn = v.drawn /\ u.next = v.next /\ u.windows = v.windows /\ u.stored = v.stored
  BY <1>1 DEF LentRegion, Except
<1>3. /\ u.host = 0 /\ (\A timer \in u.timers : timer \in v.timers \/ timer = ShotFailed(s))
      /\ u.registry.document # "desktop" /\ (u.registry.open => u.registry.editing # None)
      /\ u.registry.editing # None => u.registry.editing.k = "shot"
           /\ u.registry.editing.session = s
      /\ Tended(u, s)
  BY <1>1 DEF LentRegion
<1>4. Editor(v) /\ Apart(c.queue, v) /\ Flowing(c, v, K) /\ ImagesKept(c) /\ IdsKnown(c, v, K)
  BY <1>1 DEF Loose
<1>5. v.recovery # None /\ v.active = None BY <1>1, <1>4 DEF Editor, Lent
<1>6. Lent(u) BY <1>2, <1>3, <1>4, <1>5 DEF Editor, Lent
<1>7. DrawnAt(u) BY <1>2, <1>4, <1>5 DEF Editor, DrawnAt
<1>8. \A timer \in u.timers : timer \in v.timers \/ timer.k = "shot failed"
  <2>1. ShotFailed(s).k = "shot failed" BY DEF ShotFailed
  <2> QED BY <1>3, <2>1
<1>9. EditingKnown(c, u)
  <2>1. Past(c, s) BY <1>1, WorldParts, ShotNumbers DEF Past
  <2>2. \A timer \in u.timers : timer.k = "region" => Past(c, timer.session)
    BY <1>4, <1>8 DEF Flowing, EditingKnown
  <2> QED BY <1>3, <2>1, <2>2 DEF EditingKnown
<1>10. Flowing(c, u, K)
  BY SMTT(30), <1>2, <1>3, <1>4, <1>9 DEF Flowing, FlowKnown, SuspendKnown, RecoveryKnown,
     HostKnown,
     SourcesOld
<1>11. IdsKnown(c, u, K) BY <1>2, <1>4, <1>8 DEF IdsKnown, Known
<1>12. Working(c, u, K)
  BY <1>1, <1>2, <1>3 DEF EditorWork, Tended, Loaned, RestoreDue, ShowSees, Is, PrepareWork,
     SelectWork, Working
<1>13. Apart(c.queue, u) BY <1>2, <1>4 DEF Apart
<1>14. Fine(w2, J) BY <1>1, <1>4, <1>6, <1>7, <1>10, <1>11, <1>12, <1>13 DEF Fine, Steady, Editor
<1>15. Paid(w, J) => Paid(w2, J) BY <1>1, <1>2, OutputsAlike DEF Paid
<1> QED BY <1>14, <1>15

LEMMA SelectRegionGood ==
    ASSUME NEW w, NEW J \in SUBSET Jobs, Good(w, J), w.view.host # 0,
           NEW w1, w1 = Emit(w, Selected(w.core, w.view.host, 1)), NEW w2,
           w2 = Region(w1, w.view.host),
           NEW w3, w3 = Toggle(w2)
    PROVE  Good(w3, J)
<1>1. w \in Worlds /\ Fine(w, J) /\ Paid(w, J) /\ Lent(w.view) BY FineFacts DEF Good
<1>2. w.core \in Cores /\ w.view \in Views BY <1>1, WorldParts
<1>3. PICK s, one : s = w.view.host /\ one = 1 OBVIOUS
<1>4. s \in Nat /\ one \in Nat BY <1>2, <1>3 DEF Views
<1>5. s = w.core.shot.session /\ w.core.shot.phase # "Preparing"
  BY <1>1, <1>3 DEF Fine, Steady, Flowing, HostKnown
<1>6. w.view.recovery # None /\ w.view.active = None /\ w.view.registry.document # "desktop"
  BY <1>1 DEF Lent
<1>7. w1 \in Worlds /\ w1.view = w.view /\ SelectedTold(w.core, w1.core, s, one)
  <2>1. w1 = Emit(w, Selected(w.core, s, one)) BY <1>3
  <2> QED BY <1>1, <1>4, <2>1, SelectedWorld
<1>8. w3 \in Worlds /\ w3.core = w1.core /\ LentRegion(w1.view, w3.view, s)
  BY <1>3, <1>4, <1>6, <1>7, RegionView
<1>9. \/ w1.core = w.core /\ ~ Is(w.core, s, "Selecting")
      \/ /\ TendTold(w.core, w1.core) /\ w1.core.shot.phase = "Editing"
         /\ Is(w.core, s, "Selecting") \/ Is(w.core, s, "Editing")
  BY ONLY <1>2, <1>7, PlacedTold
<1>10. CASE w1.core = w.core /\ ~ Is(w.core, s, "Selecting")
  <2>1. /\ w1.core.shot.session = s /\ w1.core.shot.phase # "Preparing"
        /\ w1.core.shot.phase # "Selecting"
    BY <1>5, <1>10 DEF Is
  <2>2. Fine(w1, J) /\ Paid(w1, J) BY SMTT(30), <1>1, <1>7, <1>10, SameWorld
  <2>3. /\ HeldKnown(w1.core) /\ Loaned(w1.core, w1.view)
        /\ RestoreDue(w1.core, w1.view, With(J, w1.core))
    BY <2>2 DEF Fine, Steady, Working
  <2>4. Loose(w1, J) /\ w1.view.recovery # None BY <1>6, <1>7, <2>2, FineLoose
  <2> QED BY ONLY J \in SUBSET Jobs, <1>7, <1>8, <2>1, <2>2, <2>3, <2>4, RegionFine DEF Good
<1>11. CASE TendTold(w.core, w1.core) /\ w1.core.shot.phase = "Editing"
  <2>1. Loose(w1, J) BY <1>1, <1>7, <1>11, TendFine
  <2>2. HeldKnown(w1.core) /\ Loaned(w1.core, w1.view) BY SMTT(30), <1>1, <1>7, <1>11, TendFine
  <2>3. /\ w1.core.shot.session = s /\ w1.core.shot.phase # "Preparing"
        /\ w1.core.shot.phase # "Selecting"
    BY <1>5, <1>11 DEF TendTold, Onward
  <2>4. RestoreDue(w1.core, w1.view, With(J, w1.core)) BY <1>11 DEF RestoreDue, Active
  <2>5. w1.view.recovery # None BY <1>6, <1>7
  <2>6. Fine(w3, J) BY ONLY J \in SUBSET Jobs, <1>7, <1>8, <2>1, <2>2, <2>3, <2>4, <2>5, RegionFine
  <2>7. Paid(w3, J) BY ZenonT(60), <1>8, <1>11 DEF Paid, Outputs, OutputWork, OutputKept
  <2> QED BY <1>8, <2>6, <2>7 DEF Good
<1> QED BY <1>9, <1>10, <1>11

LEMMA DragGood ==
    ASSUME NEW w, NEW J \in SUBSET Jobs, Good(w, J), w.view.registry.editing # None,
           w.view.registry.editing.k = "shot", NEW timer, NEW s,
           s = w.view.registry.editing.session,
           timer = [k |-> "region", session |-> s, bounds |-> 2],
           NEW w1, w1 = [w EXCEPT !.view.registry.editing.region = 2], NEW w2, w2 = Defer(w1, timer)
    PROVE  Good(w2, J)
<1>1. w \in Worlds /\ Fine(w, J) /\ Paid(w, J) BY DEF Good
<1>2. /\ w1 \in Worlds /\ w1.core = w.core
      /\ w1.view.registry = DraggedBy(w.view.registry)
      /\ Except(w.view, w1.view, {"registry"})
  BY <1>1, DragFacts
<1>3. timer \in Timers /\ timer.k = "region" /\ timer.session = s
  BY <1>1, WorldParts, StoreFacts DEF Edited, Timers
<1>4. /\ w2 \in Worlds /\ w2.core = w1.core /\ Except(w1.view, w2.view, {"timers"})
      /\ w2.view.timers = w1.view.timers \cup {timer}
  BY ONLY <1>2, <1>3, w2 = Defer(w1, timer), DeferFacts
<1>5. PICK c, v, u, K : c = w.core /\ v = w.view /\ u = w2.view /\ K = With(J, w.core) OBVIOUS
<1>6. /\ u.flow = v.flow /\ u.active = v.active /\ u.recovery = v.recovery /\ u.host = v.host
      /\ u.drawn = v.drawn /\ u.next = v.next /\ u.windows = v.windows /\ u.stored = v.stored
      /\ u.timers = v.timers \cup {timer} /\ u.registry = DraggedBy(v.registry)
  BY ZenonT(60), <1>2, <1>4, <1>5 DEF Except
<1>7. PICK e, f : e = v.registry.editing /\ f = u.registry.editing OBVIOUS
<1>8. /\ e # None /\ f # None /\ e.k = "shot" /\ f.k = "shot" /\ e.session = s /\ f.session = s
      /\ u.registry.document = v.registry.document /\ u.registry.open = v.registry.open
      /\ u.registry.capture = v.registry.capture
  <2>1. v.registry \in Registries /\ e \in Edited BY <1>1, <1>5, <1>7, WorldParts, StoreFacts
  <2>2. e.k = "shot" /\ e.session = s BY <1>5, <1>7
  <2> QED BY <1>6, <1>7, <2>1, <2>2 DEF DraggedBy, Registries, Edited, None
<1>9. Editor(v) /\ Steady(c, v, K) /\ Outputs(c, v, K) BY <1>1, <1>5 DEF Fine, Paid
<1>10. Editor(u) BY <1>6, <1>7, <1>8, <1>9 DEF Editor, Lent, DrawnAt
<1>11. EditingKnown(c, u) BY <1>3, <1>6, <1>7, <1>8, <1>9 DEF Steady, Flowing, EditingKnown
<1>12. Flowing(c, u, K)
  BY SMTT(30), <1>6, <1>9, <1>11 DEF Steady, Flowing, FlowKnown, SuspendKnown, RecoveryKnown,
     HostKnown,
     SourcesOld
<1>13. IdsKnown(c, u, K) BY <1>3, <1>6, <1>9 DEF Steady, IdsKnown, Known
<1>14. Working(c, u, K)
  BY <1>6, <1>7, <1>8, <1>9 DEF Tended, EditorWork, Steady, Working, Loaned, RestoreDue,
     ShowSees, SelectWork
<1>15. Outputs(c, u, K) BY <1>6, <1>9, OutputsAlike
<1> QED
  BY ZenonT(60), <1>2, <1>4, <1>5, <1>6, <1>9, <1>10, <1>12, <1>13, <1>14, <1>15 DEF Good, Fine,
     Paid, Steady,
     Apart

\* An output is written.
LEMMA OutputGood ==
    ASSUME NEW w, NEW J \in SUBSET Jobs, Good(w, J), NEW kind \in Kinds, NEW s \in Nat,
           NEW operation \in Nat,
           NEW bounds, NEW w2, w2 = Emit(w, OutputRequested(w.core, s, operation, kind, bounds))
    PROVE  Good(w2, J)
<1>1. w \in Worlds /\ Fine(w, J) /\ Paid(w, J) /\ w.core \in Cores /\ w.view \in Views
  BY WorldParts DEF Good
<1>2. PICK c, v : c = w.core /\ v = w.view OBVIOUS
<1>3. Steady(c, v, With(J, c)) /\ Editor(v) BY <1>1, <1>2 DEF Fine
<1>4. CASE c.shot.phase # "Editing" BY <1>2, <1>4 DEF OutputRequested, Is, Emit
<1>5. CASE c.shot.phase = "Editing"
  <2>1. Active(c) => Holds(c, c.shot.session)
    BY <1>3, <1>5 DEF Steady, Working, HeldKnown, Holds, Active
  <2>2. w2 \in Worlds /\ w2.view = w.view /\ OutputTold(w.core, w2.core, s, operation, kind)
    BY <1>1, <1>2, <2>1, OutputWorld
  <2>3. PICK d : d = w2.core OBVIOUS
  <2>4. CASE d = c BY <1>1, <1>2, <2>2, <2>3, <2>4, SameWorld DEF Good
  <2>5. CASE /\ TendTold(c, d) /\ c.shot.phase = "Editing" /\ d.shot.phase = "Output"
             /\ c.shot.operation < d.shot.operation
             /\ \E job \in d.spawned : job.k = "output"
                  /\ <<job.session, job.operation>> = Source(d)
    <3>1. Tended(v, c.shot.session) BY <1>3, <1>5 DEF Steady, Working, EditorWork, Tended
    <3>2. Fine(w2, J) BY <1>1, <1>2, <2>2, <2>3, <2>5, <3>1, TendFine
    <3>3. OutputWork(d, v, With(J, d)) BY <2>5 DEF OutputWork, With
    <3>4. /\ d \in Cores /\ Announced(c.queue, d.queue, d.shot, d.pins, {})
          /\ d.shot.session = c.shot.session
      BY <2>5 DEF TendTold, Onward
    <3>5. \A i \in At(d.queue, "ShowPin") : i \in At(c.queue, "ShowPin") /\ d.queue[i] = c.queue[i]
      <4>1. Longer(c.queue, d.queue) BY <3>4, AnnouncedFacts
      <4>2. \E p \in NewIn(c.queue, d.queue) : d.queue[p] = SyncOf(d.shot, d.pins)
               /\ \A i \in NewIn(c.queue, d.queue) : i # p => i > p /\ d.queue[i] \in {}
        BY <3>4, AnnouncedFacts
      <4>3. \A i \in NewIn(c.queue, d.queue) : d.queue[i].k # "ShowPin" BY <4>2 DEF SyncOf
      <4> QED BY <4>1, <4>3, SameKind
    <3>6. ASSUME NEW source \in Sources, NotLater(c, source)
          PROVE  source # Source(d)
      BY <1>1, <1>2, <2>5, <3>4, <3>6, ShotNumbers DEF NotLater, Source, Sources
    <3>7. OutputKept(d, v)
      BY <1>1, <1>2, <1>3, <3>5, <3>6, ClosureFacts, StoreFacts DEF Steady, Flowing, SourcesOld,
         Windows, OutputKept
    <3> QED BY <1>2, <2>2, <2>3, <3>2, <3>3, <3>7 DEF Good, Paid, Outputs
  <2> QED BY <1>1, <1>2, <2>2, <2>3, <2>4, <2>5, OutputtingTold
<1> QED BY <1>4, <1>5

\* What the user does with a pin.
LEMMA VisibleKnown ==
    ASSUME NEW w, NEW J, Good(w, J), NEW id \in DOMAIN w.view.windows,
           w.view.windows[id].phase = "Visible"
    PROVE  /\ Known(w.view, id) /\ id \in Nat /\ w \in Worlds /\ Fine(w, J) /\ w.core \in Cores
           /\ w.view \in Views
  BY WorldParts, StoreFacts, FineFacts DEF Good, Known

LEMMA AnnotateGood ==
    ASSUME NEW w, NEW J \in SUBSET Jobs, Good(w, J), w.core.queue = <<>>, w.view.recovery = None,
           NEW id \in Nat, NEW w2, w2 = Emit(w, EditRequested(w.core, id))
    PROVE  Good(w2, J)
<1>1. w \in Worlds /\ Fine(w, J) /\ Paid(w, J) /\ w.core \in Cores /\ w.view \in Views
  BY WorldParts DEF Good
<1>2. w2 \in Worlds /\ w2.view = w.view /\ EditRequestedTold(w.core, w2.core, id)
  BY <1>1, EditRequestedWorld
<1>3. PICK c, v, d, L, K : c = w.core /\ v = w.view /\ d = w2.core /\ L = With(J, w.core)
          /\ K = With(J, w2.core)
  OBVIOUS
<1>4. CASE d = c BY <1>1, <1>2, <1>3, <1>4, SameWorld DEF Good
<1>5. CASE /\ PinMove(c, d, PinKinds) /\ Names(c, d, PinsWith(c, id))
           /\ PendingHeld(c, d) /\ (ImagesKept(c) => ImagesKept(d)) /\ Has(c, id)
  <2>1. Steady(c, v, L) /\ Editor(v) /\ Outputs(c, v, L) BY <1>1, <1>3 DEF Fine, Paid
  <2>2. d \in Cores /\ Longer(c.queue, d.queue) BY <1>1, <1>3, <1>5, PinMoveFacts
  <2>3. L \in SUBSET Jobs /\ K \in SUBSET Jobs BY <1>1, <1>3, <2>2, WithJobs
  <2>4. PinJobs(K, L) BY <1>3, <1>5 DEF PinMove, PinJobs, With
  <2>5. Flowing(d, v, K) BY <1>1, <1>3, <1>5, <2>1, <2>3, <2>4, FlowingPin DEF Steady
  <2>6. Working(d, v, K) BY <1>1, <1>3, <1>5, <2>1, <2>4, WorkingPin DEF Steady
  <2>7. Outputs(d, v, K) BY <1>1, <1>3, <1>5, <2>1, <2>4, OutputsPin
  <2>8. Apart(d.queue, v) BY <1>1, <1>3, <1>5, NoSuspend DEF At, Apart
  <2>9. IdsKnown(d, v, K)
    <3>1. \A other \in PinsWith(c, id) : Known(v, other)
      BY <1>5, <2>1 DEF PinsWith, Has, Steady, IdsKnown
    <3>2. \A job \in K : job \in L \/ job.id \in PinsWith(c, id) BY <1>3, <1>5 DEF Names, With
    <3> QED BY <1>1, <1>3, <1>5, <2>1, <2>2, <3>1, <3>2, IdsMoved DEF Steady
  <2> QED BY <1>2, <1>3, <1>5, <2>1, <2>5, <2>6, <2>7, <2>8, <2>9 DEF Good, Fine, Paid, Steady
<1> QED BY <1>1, <1>2, <1>3, <1>4, <1>5, EditRequestedStep DEF EditRequestedTold

LEMMA HideGood ==
    ASSUME NEW w, NEW J \in SUBSET Jobs, Good(w, J), NEW id \in DOMAIN w.view.windows,
           w.view.windows[id].phase = "Visible", NEW hidden \in BOOLEAN,
           NEW w2, w2 = Emit(w, VisibilityChanged(w.core, id, hidden))
    PROVE  Good(w2, J)
<1>1. Known(w.view, id) /\ id \in Nat /\ w \in Worlds /\ Fine(w, J) /\ w.core \in Cores
  BY VisibleKnown
<1>2. w2 \in Worlds /\ w2.view = w.view /\ HiddenTold(w.core, w2.core, id, hidden)
  BY <1>1, HiddenWorld
<1>3. w2.core = w.core \/ (PinStep(w.core, w2.core, id) /\ PendingHeld(w.core, w2.core))
  BY <1>1, <1>2, HiddenStep
<1>4. Editor(w2.view) BY <1>1, <1>2 DEF Fine
<1>5. Goes(w, w2, J) BY <1>1, <1>2, <1>3, <1>4, GoesOn
<1> QED BY <1>5, GoodGoes

LEMMA PinOutputGood ==
    ASSUME NEW w, NEW J \in SUBSET Jobs, Good(w, J), NEW id \in DOMAIN w.view.windows,
           w.view.windows[id].phase = "Visible",
           NEW w1, w1 = Publish(w, id) \/ w1 = w, NEW w2,
           w2 = Emit(w1, PinOutputRequested(w1.core, id))
    PROVE  Good(w2, J)
<1>1. Known(w.view, id) /\ id \in Nat /\ w \in Worlds /\ Fine(w, J) BY VisibleKnown
<1>2. Good(w1, J) /\ Known(w1.view, id)
  BY <1>1, PublishFine, GoodGoes, PublishFacts DEF Except, Known
<1>3. w1 \in Worlds /\ Fine(w1, J) /\ w1.core \in Cores BY <1>2, WorldParts DEF Good
<1>4. Has(w1.core, id) => id \in w1.core.images BY <1>3 DEF Fine, Steady, ImagesKept, Has
<1>5. w2 \in Worlds /\ w2.view = w1.view /\ PinOutputTold(w1.core, w2.core, id)
  BY <1>1, <1>3, <1>4, PinOutputWorld
<1>6. w2.core = w1.core \/ (PinStep(w1.core, w2.core, id) /\ PendingHeld(w1.core, w2.core))
  BY <1>3, <1>5, PinOutputStep
<1>7. Editor(w2.view) BY <1>3, <1>5 DEF Fine
<1>8. Goes(w1, w2, J) BY <1>2, <1>3, <1>5, <1>6, <1>7, GoesOn
<1> QED BY <1>2, <1>8, GoodGoes

LEMMA ClosePinGood ==
    ASSUME NEW w, NEW J \in SUBSET Jobs, Good(w, J), NEW id \in DOMAIN w.view.windows,
           w.view.windows[id].phase = "Visible", NEW w2, w2 = RequestClose(w, id)
    PROVE  Good(w2, J)
  BY VisibleKnown, RequestCloseFine, GoodGoes

\* The workers: a step changes the core and the jobs.
Sound(c, v, J) == Editor(v) /\ Steady(c, v, J) /\ Outputs(c, v, J)

\* What a job that ends may leave undone.
Undone(c, job) ==
    \/ job.k = "prepare" /\ Is(c, job.session, "Preparing")
    \/ job.k = "output" /\ Wanted(c, <<job.session, job.operation>>)
    \/ job.k = "commands" /\ job.cmds[1].session = c.shot.session
         /\ (job.cmds[1].k = "Show" => c.shot.phase = "Selecting")
LEMMA FewerFlowing ==
    ASSUME NEW c, NEW v, NEW J, NEW K, Flowing(c, v, J), K \subseteq J
    PROVE  Flowing(c, v, K)
  BY DEF Flowing, FlowKnown, SuspendKnown, RecoveryKnown, RestoreOld, ShowOld, HostKnown,
     EditingKnown, SourcesOld

LEMMA FewerIds ==
    ASSUME NEW c, NEW v, NEW J, NEW K, IdsKnown(c, v, J), K \subseteq J
    PROVE  IdsKnown(c, v, K)
  BY DEF IdsKnown

LEMMA EndedJob ==
    ASSUME NEW c, NEW v, NEW J, Sound(c, v, J), NEW job, ~ Undone(c, job)
    PROVE  Sound(c, v, J \ {job})
<1>1. Editor(v) /\ Steady(c, v, J) /\ Outputs(c, v, J) BY DEF Sound
<1>2. PICK K : K = J \ {job} OBVIOUS
<1>3. \A other \in J : other \in K \/ other = job BY <1>2
<1>4. Flowing(c, v, K) /\ IdsKnown(c, v, K) BY <1>1, <1>2, FewerFlowing, FewerIds DEF Steady
<1>5. \A k : Ordered(J, k, c.shot.session) /\ (k = "Show" => c.shot.phase = "Selecting") =>
                  Ordered(K, k, c.shot.session)
  BY <1>3 DEF Ordered, Undone
<1>6. RestoreDue(c, v, K) /\ SelectWork(c, v, K)
  BY <1>1, <1>5 DEF Steady, Working, RestoreDue, SelectWork
<1>7. PrepareWork(c, K) BY <1>1, <1>3 DEF Steady, Working, PrepareWork, Undone, Is
<1>8. OutputWork(c, v, K) BY <1>1, <1>3 DEF Outputs, OutputWork, Undone, Wanted
<1> QED BY <1>1, <1>2, <1>4, <1>6, <1>7, <1>8 DEF Sound, Steady, Working, Outputs

\* A closure is posted behind everything else.
PostsFor(c, x) ==
    /\ x.k \in {"Restore", "Show", "ShowPin", "Present"}
    /\ x.k \in {"Restore", "Show"} => x.session <= c.shot.session
    /\ x.k = "Restore" => (x.session = c.shot.session => ~Active(c))
    /\ x.k = "Show" => (x.session = c.shot.session => c.shot.phase # "Preparing")
    /\ x.k = "ShowPin" => NotLater(c, x.source)
LEMMA PostedQueue ==
    ASSUME NEW c \in Cores, NEW d \in Cores, NEW x, Posted(c.queue, d.queue, x), PostsFor(c, x),
           NEW v, FlowKnown(c, v), d.shot = c.shot
    PROVE  /\ Longer(c.queue, d.queue) /\ FlowKnown(d, v)
           /\ Syncs(d.queue) = Syncs(c.queue) /\ At(d.queue, "Suspend") = At(c.queue, "Suspend")
           /\ \A i \in DOMAIN c.queue : i \in DOMAIN d.queue /\ d.queue[i] = c.queue[i]
           /\ LastIn(c.queue, d.queue, x, v.flow, c.shot)
<1>1. x.k # "Sync" /\ x.k # "Suspend" BY DEF PostsFor
<1>2. Knows(c.queue, v.flow, c.shot) BY DEF FlowKnown, Knows
<1>3. Longer(c.queue, d.queue) /\ Knows(d.queue, v.flow, c.shot) BY <1>1, <1>2, KnowsPosted
<1>4. Syncs(d.queue) = Syncs(c.queue) BY <1>1, <1>2, KnowsPosted
<1>5. LastIn(c.queue, d.queue, x, v.flow, c.shot) BY <1>1, <1>2, KnowsPosted
<1>6. \A i \in DOMAIN c.queue : i \in DOMAIN d.queue /\ d.queue[i] = c.queue[i] BY <1>3, LongerFacts
<1>7. At(d.queue, "Suspend") = At(c.queue, "Suspend") BY <1>1, <1>3, <1>5, SameKind DEF LastIn
<1> QED BY <1>3, <1>4, <1>5, <1>6, <1>7 DEF FlowKnown, Knows

\* The position of a closure: it was there before, or it is the one posted.
LEMMA PostedAt ==
    ASSUME NEW c \in Cores, NEW d \in Cores, NEW x, Posted(c.queue, d.queue, x), PostsFor(c, x),
           NEW v, FlowKnown(c, v), d.shot = c.shot, NEW k, NEW i \in At(d.queue, k)
    PROVE  \/ i \in At(c.queue, k) /\ i \in DOMAIN c.queue /\ d.queue[i] = c.queue[i]
           \/ i \in NewIn(c.queue, d.queue) /\ d.queue[i] = x /\ x.k = k
  BY PostedQueue DEF At, NewIn, LastIn

LEMMA FlowingPosted ==
    ASSUME NEW c \in Cores, NEW d \in Cores, NEW x, Posted(c.queue, d.queue, x), PostsFor(c, x),
           NEW v, NEW J, Flowing(c, v, J), d.shot = c.shot
    PROVE  Flowing(d, v, J)
<1>1. PICK q, r : q = c.queue /\ r = d.queue OBVIOUS
<1>2. /\ FlowKnown(c, v) /\ SuspendKnown(c, v) /\ RecoveryKnown(c, v) /\ RestoreOld(c, J)
      /\ ShowOld(c, J)
      /\ HostKnown(c, v) /\ EditingKnown(c, v) /\ SourcesOld(c, v, J)
  BY DEF Flowing
<1>3. /\ Longer(q, r) /\ FlowKnown(d, v) /\ Syncs(r) = Syncs(q)
      /\ At(r, "Suspend") = At(q, "Suspend")
      /\ \A i \in DOMAIN q : i \in DOMAIN r /\ r[i] = q[i]
  BY <1>1, <1>2, PostedQueue
<1>4. \A k : \A i \in At(r, k) : \/ i \in At(q, k) /\ i \in DOMAIN q /\ r[i] = q[i]
                                 \/ i \in NewIn(q, r) /\ r[i] = x /\ x.k = k
  BY <1>1, <1>2, PostedAt
<1>5. \A k : \A i \in At(q, k) : i \in DOMAIN q /\ r[i] = q[i] BY <1>3 DEF At
<1>6. SuspendKnown(d, v)
  <2>1. SUFFICES ASSUME NEW i \in At(r, "Suspend")
        PROVE /\ r[i].session = d.shot.session
              /\ \E shot \in {v.flow} \cup {r[j].shot : j \in Syncs(r)} :
                    /\ Sees(r, v.flow, i, shot) /\ shot.session = d.shot.session
                    /\ shot.phase = "Preparing"
              /\ \A m \in Syncs(r) : m > i => r[m].shot.session = d.shot.session
              /\ \A m \in At(r, "Suspend") : m = i
    BY <1>1 DEF SuspendKnown
  <2>2. i \in At(q, "Suspend") /\ i \in DOMAIN q /\ r[i] = q[i] BY <1>3, <1>5
  <2>3. \E shot \in {v.flow} \cup {q[j].shot : j \in Syncs(q)} :
              Sees(q, v.flow, i, shot) /\ shot.session = c.shot.session /\ shot.phase = "Preparing"
    BY <1>1, <1>2, <2>2 DEF SuspendKnown
  <2>4. PICK shot : shot \in {v.flow} \cup {q[j].shot : j \in Syncs(q)} /\
              Sees(q, v.flow, i, shot) /\ shot.session = c.shot.session /\ shot.phase = "Preparing"
    BY <2>3
  <2>5. Sees(r, v.flow, i, shot) BY <1>3, <2>2, <2>4, SeesOld
  <2>6. shot \in {v.flow} \cup {r[j].shot : j \in Syncs(r)} BY <2>5, SeenShot
  <2>7. /\ r[i].session = c.shot.session
        /\ \A m \in Syncs(r) : m > i => r[m].shot.session = c.shot.session
        /\ \A m \in At(r, "Suspend") : m = i
    BY <1>1, <1>2, <1>3, <1>5, <2>2 DEF SuspendKnown, Syncs
  <2> QED BY <2>4, <2>5, <2>6, <2>7
<1>7. RecoveryKnown(d, v) BY <1>1, <1>2, <1>3, <1>5 DEF RecoveryKnown, Syncs
<1>8. RestoreOld(d, J) BY <1>1, <1>2, <1>4 DEF RestoreOld, PostsFor, Active
<1>9. ShowOld(d, J) BY <1>1, <1>2, <1>4 DEF ShowOld, PostsFor
<1>10. HostKnown(d, v) /\ EditingKnown(d, v) BY <1>2 DEF HostKnown, EditingKnown, Past
<1>11. SourcesOld(d, v, J) BY <1>1, <1>2, <1>4 DEF SourcesOld, PostsFor, NotLater
<1> QED BY <1>3, <1>6, <1>7, <1>8, <1>9, <1>10, <1>11 DEF Flowing

\* What a worker that ends may leave to the closure it posts.
Handed(c, job, x) ==
    /\ job.k = "prepare" => ~ Is(c, job.session, "Preparing")
    /\ job.k = "commands" /\ job.cmds[1].session = c.shot.session => x = job.cmds[1]
    /\ job.k = "output" /\ Wanted(c, <<job.session, job.operation>>) =>
          x.k = "ShowPin" /\ x.source = Source(c)
Adds(c, d, x) ==
    /\ d.shot = c.shot /\ d.pins = c.pins /\ d.held = c.held /\ d.images = c.images
    /\ Posted(c.queue, d.queue, x) /\ c.pending \subseteq d.pending
    /\ d.pending # {} => c.pending # {} \/ Active(c)
    /\ x.k = "ShowPin" => x.source \in d.pending
LEMMA AddsFacts ==
    ASSUME NEW c \in Cores, NEW d \in Cores, NEW x, Adds(c, d, x), PostsFor(c, x), NEW v,
           FlowKnown(c, v)
    PROVE  /\ Longer(c.queue, d.queue) /\ Syncs(d.queue) = Syncs(c.queue)
           /\ At(d.queue, "Suspend") = At(c.queue, "Suspend")
           /\ \A i \in DOMAIN c.queue : i \in DOMAIN d.queue /\ d.queue[i] = c.queue[i]
           /\ LastIn(c.queue, d.queue, x, v.flow, c.shot)
           /\ \A k : \A i \in At(c.queue, k) : i \in At(d.queue, k) /\ d.queue[i] = c.queue[i]
           /\ \A k : \A i \in At(d.queue, k) :
                 \/ i \in At(c.queue, k) /\ i \in DOMAIN c.queue /\ d.queue[i] = c.queue[i]
                 \/ i \in NewIn(c.queue, d.queue) /\ d.queue[i] = x /\ x.k = k
<1>1. Posted(c.queue, d.queue, x) /\ d.shot = c.shot BY DEF Adds
<1>2. /\ Longer(c.queue, d.queue) /\ Syncs(d.queue) = Syncs(c.queue)
      /\ At(d.queue, "Suspend") = At(c.queue, "Suspend")
      /\ \A i \in DOMAIN c.queue : i \in DOMAIN d.queue /\ d.queue[i] = c.queue[i]
      /\ LastIn(c.queue, d.queue, x, v.flow, c.shot)
  BY <1>1, PostedQueue
<1>3. \A k : \A i \in At(c.queue, k) : i \in At(d.queue, k) /\ d.queue[i] = c.queue[i]
  BY <1>2 DEF At
<1>4. \A k : \A i \in At(d.queue, k) :
                 \/ i \in At(c.queue, k) /\ i \in DOMAIN c.queue /\ d.queue[i] = c.queue[i]
                 \/ i \in NewIn(c.queue, d.queue) /\ d.queue[i] = x /\ x.k = k
  BY <1>1, PostedAt
<1> QED BY <1>2, <1>3, <1>4

\* The orders that a worker leaves are in the queue.
LEMMA OrderedPosted ==
    ASSUME NEW c, NEW J, NEW job, NEW x, Handed(c, job, x), NEW k, Ordered(J, k, c.shot.session)
    PROVE  Ordered(J \ {job}, k, c.shot.session) \/ (x.k = k /\ x.session = c.shot.session)
  BY DEF Ordered, Handed

LEMMA WorkingPosted ==
    ASSUME NEW c \in Cores, NEW d \in Cores, NEW x, Adds(c, d, x), PostsFor(c, x), NEW v,
           FlowKnown(c, v),
           NEW J, NEW job, Handed(c, job, x), Working(c, v, J), NEW K, K = J \ {job}
    PROVE  Working(d, v, K)
<1>1. PICK q, r : q = c.queue /\ r = d.queue OBVIOUS
<1>2. /\ Longer(q, r) /\ Syncs(r) = Syncs(q) /\ At(r, "Suspend") = At(q, "Suspend")
      /\ \A i \in DOMAIN q : i \in DOMAIN r /\ r[i] = q[i]
      /\ LastIn(q, r, x, v.flow, c.shot)
  BY <1>1, AddsFacts
<1>3. \A k : \A i \in At(q, k) : i \in At(r, k) /\ r[i] = q[i] BY <1>1, AddsFacts
<1>4. \A k : \A i \in At(r, k) :
                 \/ i \in At(q, k) /\ i \in DOMAIN q /\ r[i] = q[i]
                 \/ i \in NewIn(q, r) /\ r[i] = x /\ x.k = k
  BY <1>1, AddsFacts
<1>5. PICK n \in NewIn(q, r) : NewIn(q, r) = {n} /\ r[n] = x /\ Sees(r, v.flow, n, c.shot)
                               /\ \A i \in DOMAIN r : i <= n
  BY <1>2 DEF LastIn
<1>6. /\ d.shot = c.shot /\ d.held = c.held /\ (d.pending # {} => c.pending # {} \/ Active(c))
  BY DEF Adds
<1>7. HeldKnown(d) BY <1>6 DEF Working, HeldKnown, Active
<1>8. Loaned(d, v) BY <1>1, <1>2, <1>6 DEF Working, Loaned, Active
<1>9. \A k : Ordered(J, k, c.shot.session) => Ordered(K, k, c.shot.session)
                \/ (n \in At(r, k) /\ r[n].session = c.shot.session)
  <2>1. n \in At(r, x.k) BY <1>5 DEF At, NewIn
  <2> QED BY ZenonT(60), <1>5, <2>1, OrderedPosted
<1>10. RestoreDue(d, v, K)
  <2>1. \A m \in At(q, "Suspend") : m < n BY <1>2, <1>5, LongerFacts DEF At
  <2>2. SUFFICES ASSUME ~Active(c), v.recovery # None \/ At(q, "Suspend") # {}
        PROVE  \/ \E i \in At(r, "Restore") : r[i].session = c.shot.session
                                   /\ \A m \in At(q, "Suspend") : m < i
               \/ Ordered(K, "Restore", c.shot.session)
    BY <1>1, <1>2, <1>6 DEF RestoreDue, Active
  <2>3. \/ \E i \in At(q, "Restore") : q[i].session = c.shot.session
                                   /\ \A m \in At(q, "Suspend") : m < i
        \/ Ordered(J, "Restore", c.shot.session)
    BY <1>1, <2>2 DEF Working, RestoreDue
  <2> QED BY <1>3, <1>9, <2>1, <2>3
<1>11. ShowSees(d, v)
  <2>1. SUFFICES ASSUME NEW i \in At(r, "Show"), Is(c, r[i].session, "Selecting")
        PROVE  Sees(r, v.flow, i, c.shot) /\ \A m \in At(q, "Suspend") : m < i
    BY <1>1, <1>2, <1>6 DEF ShowSees, Is
  <2>2. CASE i \in At(q, "Show") /\ i \in DOMAIN q /\ r[i] = q[i]
    <3>1. Sees(q, v.flow, i, c.shot) /\ \A m \in At(q, "Suspend") : m < i
      BY <1>1, <2>1, <2>2 DEF Working, ShowSees
    <3>2. PICK flow, shot : flow = v.flow /\ shot = c.shot OBVIOUS
    <3>3. Sees(r, flow, i, shot) BY <1>2, <2>2, <3>1, <3>2, SeesOld
    <3> QED BY <3>1, <3>2, <3>3
  <2>3. CASE i \in NewIn(q, r) BY <1>2, <1>5, <2>3, LongerFacts DEF At
  <2> QED BY <1>4, <2>2, <2>3
<1>12. PrepareWork(d, K) BY <1>6 DEF Working, PrepareWork, Handed, Is
<1>13. SelectWork(d, v, K) BY <1>1, <1>3, <1>6, <1>9 DEF Working, SelectWork
<1>14. EditorWork(d, v) BY <1>6 DEF Working, EditorWork
<1> QED BY <1>7, <1>8, <1>10, <1>11, <1>12, <1>13, <1>14 DEF Working

LEMMA OutputsPosted ==
    ASSUME NEW c \in Cores, NEW d \in Cores, NEW x, Adds(c, d, x), PostsFor(c, x), NEW v,
           FlowKnown(c, v),
           NEW J, NEW job, Handed(c, job, x), Outputs(c, v, J), NEW K, K = J \ {job}
    PROVE  Outputs(d, v, K)
<1>1. PICK q, r : q = c.queue /\ r = d.queue OBVIOUS
<1>2. /\ Longer(q, r) /\ Syncs(r) = Syncs(q)
      /\ \A i \in DOMAIN q : i \in DOMAIN r /\ r[i] = q[i]
      /\ LastIn(q, r, x, v.flow, c.shot)
  BY <1>1, AddsFacts
<1>3. \A k : \A i \in At(q, k) : i \in At(r, k) /\ r[i] = q[i] BY <1>1, AddsFacts
<1>4. \A k : \A i \in At(r, k) :
                 \/ i \in At(q, k) /\ i \in DOMAIN q /\ r[i] = q[i]
                 \/ i \in NewIn(q, r) /\ r[i] = x /\ x.k = k
  BY <1>1, AddsFacts
<1>5. PICK n \in NewIn(q, r) : NewIn(q, r) = {n} /\ r[n] = x /\ Sees(r, v.flow, n, c.shot)
                               /\ \A i \in DOMAIN r : i <= n
  BY <1>2 DEF LastIn
<1>6. /\ d.shot = c.shot /\ c.pending \subseteq d.pending
      /\ (x.k = "ShowPin" => x.source \in d.pending)
  BY DEF Adds
<1>7. Source(d) = Source(c) BY <1>6 DEF Source
<1>8. OutputWork(d, v, K)
  <2>1. n \in At(r, x.k) BY <1>5 DEF At, NewIn
  <2>2. SUFFICES ASSUME c.shot.phase = "Output"
        PROVE \/ \E other \in K : other.k = "output"
                     /\ <<other.session, other.operation>> = Source(c)
              \/ \E i \in At(r, "ShowPin") : r[i].source = Source(c)
              \/ \E id \in DOMAIN v.windows :
                     v.windows[id].phase = "Preparing" /\ v.windows[id].source = Source(c)
    BY <1>1, <1>6, <1>7 DEF OutputWork
  <2>3. \/ \E other \in J : other.k = "output" /\ <<other.session, other.operation>> = Source(c)
        \/ \E i \in At(q, "ShowPin") : q[i].source = Source(c)
        \/ \E id \in DOMAIN v.windows : v.windows[id].phase = "Preparing"
               /\ v.windows[id].source = Source(c)
    BY <1>1, <2>2 DEF Outputs, OutputWork
  <2>4. ASSUME NEW other \in J, other.k = "output", <<other.session, other.operation>> = Source(c)
        PROVE  other \in K \/ (x.k = "ShowPin" /\ x.source = Source(c))
    BY <2>2, <2>4 DEF Handed, Wanted
  <2> QED BY <1>3, <1>5, <2>1, <2>3, <2>4
<1>9. OutputKept(d, v)
  <2>1. SUFFICES ASSUME c.shot.phase = "Output"
        PROVE  /\ \A i \in At(r, "ShowPin") : r[i].source = Source(c) =>
                    /\ Source(c) \in d.pending
                    /\ Sees(r, v.flow, i, c.shot)
                    /\ \A m \in Syncs(q) : m > i => r[m].shot = c.shot
               /\ \A id \in DOMAIN v.windows :
                    v.windows[id].phase = "Preparing" /\ v.windows[id].source = Source(c) =>
                      /\ Source(c) \in d.pending
                      /\ v.flow = c.shot
                      /\ \A m \in Syncs(q) : r[m].shot = c.shot
    BY <1>1, <1>2, <1>6, <1>7 DEF OutputKept
  <2>2. /\ \A i \in At(q, "ShowPin") : q[i].source = Source(c) =>
                    /\ Source(c) \in c.pending
                    /\ Sees(q, v.flow, i, c.shot)
                    /\ \A m \in Syncs(q) : m > i => q[m].shot = c.shot
        /\ \A id \in DOMAIN v.windows :
                    v.windows[id].phase = "Preparing" /\ v.windows[id].source = Source(c) =>
                      /\ Source(c) \in c.pending
                      /\ v.flow = c.shot
                      /\ \A m \in Syncs(q) : q[m].shot = c.shot
    BY <1>1, <2>1 DEF Outputs, OutputKept
  <2>3. \A m \in Syncs(q) : m \in DOMAIN q /\ r[m] = q[m] BY <1>2 DEF Syncs, At
  <2>4. ASSUME NEW i \in At(r, "ShowPin"), r[i].source = Source(c)
        PROVE  /\ Source(c) \in d.pending
               /\ Sees(r, v.flow, i, c.shot)
               /\ \A m \in Syncs(q) : m > i => r[m].shot = c.shot
    <3>1. CASE i \in At(q, "ShowPin") /\ i \in DOMAIN q /\ r[i] = q[i]
      <4>1. PICK flow, shot : flow = v.flow /\ shot = c.shot OBVIOUS
      <4>2. Sees(q, flow, i, shot) BY <2>2, <2>4, <3>1, <4>1
      <4>3. Sees(r, flow, i, shot) BY <1>2, <3>1, <4>2, SeesOld
      <4> QED BY <1>6, <2>2, <2>3, <2>4, <3>1, <4>1, <4>3
    <3>2. CASE i \in NewIn(q, r) /\ r[i] = x /\ x.k = "ShowPin"
      <4>1. \A m \in Syncs(q) : ~ (m > i)
        <5>1. SUFFICES ASSUME NEW m \in Syncs(q) PROVE ~ (m > i) OBVIOUS
        <5>2. m \in Nat /\ i \in Nat BY <1>2, <2>3, <2>4, LongerFacts DEF At
        <5>3. m < i BY <1>2, <2>3, <3>2, LongerFacts
        <5> QED BY <5>2, <5>3
      <4> QED BY <1>5, <1>6, <2>4, <3>2, <4>1
    <3> QED BY <1>4, <3>1, <3>2
  <2> QED BY <1>6, <2>2, <2>3, <2>4
<1> QED BY <1>8, <1>9 DEF Outputs

LEMMA PostedSound ==
    ASSUME NEW c \in Cores, NEW d \in Cores, NEW x, Adds(c, d, x), PostsFor(c, x), NEW v,
           x.k = "Present" => Known(v, x.id),
           NEW J, Sound(c, v, J), NEW job, Handed(c, job, x)
    PROVE  Sound(d, v, J \ {job})
<1>1. PICK K : K = J \ {job} OBVIOUS
<1>2. Editor(v) /\ Steady(c, v, J) /\ Outputs(c, v, J) BY DEF Sound
<1>3. /\ Apart(c.queue, v) /\ Flowing(c, v, J) /\ Working(c, v, J) /\ ImagesKept(c)
      /\ IdsKnown(c, v, J)
  BY <1>2 DEF Steady
<1>4. FlowKnown(c, v) BY <1>3 DEF Flowing
<1>5. Working(d, v, K) BY <1>1, <1>3, <1>4, WorkingPosted
<1>6. Outputs(d, v, K) BY <1>1, <1>2, <1>4, OutputsPosted
<1>7. Flowing(d, v, K) BY <1>1, <1>3, FlowingPosted, FewerFlowing DEF Adds
<1>8. /\ At(d.queue, "Suspend") = At(c.queue, "Suspend")
      /\ \A k : \A i \in At(d.queue, k) :
                 \/ i \in At(c.queue, k) /\ i \in DOMAIN c.queue /\ d.queue[i] = c.queue[i]
                 \/ i \in NewIn(c.queue, d.queue) /\ d.queue[i] = x /\ x.k = k
  BY <1>4, AddsFacts
<1>9. x.k # "BeginEdit" /\ (x.k \in Naming => x.k = "Present") BY DEF PostsFor, Naming
<1>10. Apart(d.queue, v) BY <1>3, <1>8, <1>9 DEF Apart
<1>11. ImagesKept(d) BY <1>3 DEF ImagesKept, Adds
<1>12. IdsKnown(d, v, K)
  <2>1. \A i \in DOMAIN d.queue : d.queue[i].k \in Naming => Known(v, d.queue[i].id)
    BY <1>3, <1>8, <1>9 DEF At, IdsKnown
  <2>2. d.pins = c.pins BY DEF Adds
  <2> QED BY <1>1, <1>3, <2>1, <2>2 DEF IdsKnown
<1> QED BY <1>1, <1>2, <1>5, <1>6, <1>7, <1>10, <1>11, <1>12 DEF Sound, Steady

\* What is true between steps: no job is waiting to be started.
Safe(c, v, J) ==
    c \in Cores /\ c.spawned = {} /\ v \in Views /\ J \in SUBSET Jobs /\ Sound(c, v, J)
LEMMA Unspawned ==
    ASSUME NEW c \in Cores, c.spawned = {}
    PROVE  [c EXCEPT !.spawned = {}] = c
  BY DEF Cores, Drafts

LEMMA AddsPost ==
    ASSUME NEW c \in Cores, NEW x \in Closures, x.k # "ShowPin", NEW d, d = Post(c, x)
    PROVE  d \in Cores /\ Adds(c, d, x) /\ d.spawned = c.spawned
  BY PostFacts, PostedAppend DEF Cores, Drafts, Adds, Alike

\* A worker carries out the command of its dispatch.
LEMMA CommandsSafe ==
    ASSUME NEW c, NEW v, NEW J, Safe(c, v, J), NEW job \in J, job.k = "commands",
           NEW after, after = ExecuteAll(c, job.cmds)
    PROVE  Safe([after EXCEPT !.spawned = {}], v, (J \ {job}) \cup after.spawned)
<1>1. c \in Cores /\ c.spawned = {} /\ v \in Views /\ J \in SUBSET Jobs /\ Sound(c, v, J)
  BY DEF Safe
<1>2. PICK x : x = job.cmds[1] OBVIOUS
<1>3. x \in Orders /\ job.cmds = <<x>> /\ x.session \in Nat /\ x.k \in {"Show", "Restore"}
  BY <1>1, <1>2, OrderFacts
<1>4. after = Execute(c, x) BY <1>3, ExecuteShort
<1>5. x \in Closures BY <1>3 DEF Closures
<1>6. Flowing(c, v, J) /\ Working(c, v, J) BY <1>1 DEF Sound, Steady
<1>7. PostsFor(c, x) BY <1>2, <1>3, <1>6 DEF PostsFor, Flowing, RestoreOld, ShowOld
<1>8. Handed(c, job, x) BY <1>2 DEF Handed
<1>9. CASE after = Post(c, x)
  <2>1. after \in Cores /\ Adds(c, after, x) /\ after.spawned = c.spawned
    BY <1>1, <1>3, <1>5, <1>9, AddsPost
  <2>2. Sound(after, v, J \ {job}) BY <1>1, <1>3, <1>7, <1>8, <2>1, PostedSound
  <2>3. [after EXCEPT !.spawned = {}] = after /\ (J \ {job}) \cup after.spawned = J \ {job}
    BY <1>1, <2>1, Unspawned
  <2> QED BY <1>1, <2>1, <2>2, <2>3 DEF Safe
<1>10. CASE x.k = "Show" /\ ~ Holds(c, x.session) /\ after = c
  <2>1. ~ Undone(c, job)
    BY <1>2, <1>6, <1>10 DEF Flowing, Working, ShowOld, HeldKnown, Holds, Undone, Active
  <2>2. Sound(c, v, J \ {job}) BY <1>1, <2>1, EndedJob
  <2>3. [after EXCEPT !.spawned = {}] = c /\ (J \ {job}) \cup after.spawned = J \ {job}
    BY <1>1, <1>10, Unspawned
  <2> QED BY <1>1, <2>2, <2>3 DEF Safe
<1>11. x.k = "Restore" => after = Post(c, x) BY <1>1, <1>4, <1>5, PostedFacts
<1>12. x.k = "Show" => after = Post(c, x) \/ (~ Holds(c, x.session) /\ after = c)
  BY <1>4 DEF Execute
<1> QED BY <1>3, <1>9, <1>10, <1>11, <1>12

\* The pixels of an output wait for the window of its pin.
ShowPinOf(source) == [k |-> "ShowPin", source |-> source]
Pinning(c, source) == Post([c EXCEPT !.pending = @ \cup {source}], ShowPinOf(source))
LEMMA PinningFacts ==
    ASSUME NEW c \in Cores, NEW source \in Sources, NEW d, d = Pinning(c, source)
    PROVE  /\ d \in Cores /\ d.shot = c.shot /\ d.pins = c.pins /\ d.held = c.held
           /\ d.images = c.images
           /\ d.spawned = c.spawned /\ d.pending = c.pending \cup {source}
           /\ Posted(c.queue, d.queue, ShowPinOf(source))
<1>1. PICK x : x = ShowPinOf(source) OBVIOUS
<1>2. x \in Closures BY <1>1 DEF ShowPinOf, Closures
<1>3. PICK e : e = [c EXCEPT !.pending = @ \cup {source}] OBVIOUS
<1>4. e \in Cores BY <1>3 DEF Cores, Drafts
<1>5. /\ e.shot = c.shot /\ e.pins = c.pins /\ e.held = c.held /\ e.images = c.images
      /\ e.spawned = c.spawned /\ e.queue = c.queue /\ e.pending = c.pending \cup {source}
  BY <1>3 DEF Cores, Drafts
<1>6. d = Post(e, x) BY <1>1, <1>3 DEF Pinning
<1>7. /\ d \in Cores /\ Alike(e, d) /\ d.queue = Append(e.queue, x)
      /\ d.spawned = e.spawned /\ d.held = e.held /\ d.pending = e.pending /\ d.images = e.images
  BY <1>2, <1>4, <1>6, PostFacts
<1>8. e.queue \in Seq(Closures) BY <1>4 DEF Cores, Drafts
<1>9. Posted(c.queue, d.queue, x) BY <1>2, <1>5, <1>7, <1>8, PostedAppend
<1> QED BY <1>1, <1>5, <1>7, <1>9 DEF Alike

LEMMA PinnedSafe ==
    ASSUME NEW c, NEW v, NEW J, Safe(c, v, J), NEW job \in J, job.k = "output",
           NEW source, source = <<job.session, job.operation>>,
           NEW d,
           IF c.held # None /\ c.held.session = job.session THEN d = Pinning(c, source) ELSE d = c
    PROVE  Safe(d, v, J \ {job})
<1>1. c \in Cores /\ c.spawned = {} /\ v \in Views /\ J \in SUBSET Jobs /\ Sound(c, v, J)
  BY DEF Safe
<1>2. source \in Sources BY <1>1, JobFacts
<1>3. HeldKnown(c) /\ SourcesOld(c, v, J) BY <1>1 DEF Sound, Steady, Flowing, Working
<1>4. CASE c.held # None /\ c.held.session = job.session
  <2>1. PICK x : x = ShowPinOf(source) OBVIOUS
  <2>2. x.k = "ShowPin" /\ x.source = source BY <2>1 DEF ShowPinOf
  <2>3. /\ d \in Cores /\ d.shot = c.shot /\ d.pins = c.pins /\ d.held = c.held
        /\ d.images = c.images
        /\ d.spawned = c.spawned /\ d.pending = c.pending \cup {source}
        /\ Posted(c.queue, d.queue, x)
    BY <1>1, <1>2, <1>4, <2>1, PinningFacts
  <2>4. Adds(c, d, x) BY <1>3, <1>4, <2>2, <2>3 DEF Adds, HeldKnown
  <2>5. PostsFor(c, x) BY <1>3, <2>2 DEF PostsFor, SourcesOld
  <2>6. Handed(c, job, x) BY <2>2 DEF Handed, Wanted
  <2>7. Sound(d, v, J \ {job}) BY <1>1, <2>2, <2>3, <2>4, <2>5, <2>6, PostedSound
  <2> QED BY <1>1, <2>3, <2>7 DEF Safe
<1>5. CASE ~ (c.held # None /\ c.held.session = job.session)
  BY <1>1, <1>3, <1>5, EndedJob DEF HeldKnown, Wanted, Source, Active, Undone, Safe
<1> QED BY <1>4, <1>5

\* A preview is posted, or is not wanted any more.
LEMMA PreviewedSafe ==
    ASSUME NEW c, NEW v, NEW J, Safe(c, v, J), NEW job \in J, job.k = "preview",
           NEW x, x = [k |-> "Present", id |-> job.id, revision |-> job.revision],
           NEW d, d = c \/ d = Post(c, x)
    PROVE  Safe(d, v, J \ {job})
<1>1. c \in Cores /\ c.spawned = {} /\ v \in Views /\ J \in SUBSET Jobs /\ Sound(c, v, J)
  BY DEF Safe
<1>2. CASE d = Post(c, x)
  <2>1. job.id \in Nat /\ job.revision \in Nat BY <1>1, JobFacts
  <2>2. x.k = "Present" /\ x.id = job.id OBVIOUS
  <2>3. x \in Closures BY <2>1 DEF Closures
  <2>4. d \in Cores /\ Adds(c, d, x) /\ d.spawned = c.spawned BY <1>1, <1>2, <2>2, <2>3, AddsPost
  <2>5. Known(v, x.id) BY <1>1, <2>2 DEF Sound, Steady, IdsKnown
  <2>6. PostsFor(c, x) BY <2>2 DEF PostsFor
  <2>7. Handed(c, job, x) BY DEF Handed
  <2>8. Sound(d, v, J \ {job}) BY <1>1, <2>4, <2>5, <2>6, <2>7, PostedSound
  <2> QED BY <1>1, <2>4, <2>8 DEF Safe
<1>3. CASE d = c BY <1>1, <1>3, EndedJob DEF Undone, Safe
<1> QED BY <1>2, <1>3

\* What a worker dispatches: the transition and its snapshot; its commands come later.
Snapshot(c, d, a) ==
    /\ d \in Cores /\ d.shot = a.shot /\ d.pins = a.pins /\ d.spawned = c.spawned /\ Kept(c, d)
    /\ Told(c, d, a.shot, a.pins, <<SyncOf(a.shot, a.pins)>>, {})
    /\ Announced(c.queue, d.queue, a.shot, a.pins, {})
LEMMA SnapshotMade ==
    ASSUME NEW c \in Cores, NEW a \in Cores, Beside(c, a), NEW d,
           d = Snapped(a, a.shot, a.pins, a.lastPin)
    PROVE  Snapshot(c, d, a)
<1>1. PICK shot, pins, last : shot = a.shot /\ pins = a.pins /\ last = a.lastPin OBVIOUS
<1>2. shot \in Shots /\ pins \in PinTables /\ last \in Nat BY <1>1 DEF Cores, Drafts
<1>3. Told(a, d, shot, pins, <<SyncOf(shot, pins)>>, {}) /\ Kept(a, d) BY <1>1, <1>2, SnappedFacts
<1>4. Kept(c, d) BY <1>3 DEF Kept, HeldKept, PendingKept, ImagesSynced, PreviewsKept, Beside
<1>5. Told(c, d, shot, pins, <<SyncOf(shot, pins)>>, {}) BY <1>3 DEF Told, Beside
<1>6. d \in Cores /\ d.shot = shot /\ d.pins = pins /\ d.spawned = c.spawned
      /\ Grows(c.queue, d.queue, <<SyncOf(shot, pins)>>)
  BY <1>5 DEF Told
<1>7. Announced(c.queue, d.queue, shot, pins, {}) BY <1>6, AnnouncedOne
<1> QED BY <1>1, <1>4, <1>5, <1>6, <1>7 DEF Snapshot

LEMMA SettledPlain ==
    ASSUME NEW c \in Cores, NEW a \in Cores, Beside(c, a), NEW d, d = Settled(a)
    PROVE  Snapshot(c, d, a) /\ a.cmds = <<>>
<1>1. PICK cmds : cmds = <<>> OBVIOUS
<1>2. a \in Drafts(cmds) BY <1>1 DEF Cores
<1>3. d = Snapped(a, a.shot, a.pins, a.lastPin) BY <1>2, SettledProof
<1> QED BY <1>3, SnapshotMade DEF Cores, Drafts

LEMMA SettledIssue ==
    ASSUME NEW c \in Cores, NEW a \in Cores, Beside(c, a), NEW S, NEW cmds \in Seq(S),
           NEW b, b = Issue(a, cmds), NEW d, d = Settled(b)
    PROVE  Snapshot(c, d, a) /\ b.cmds = cmds
<1>1. <<>> \o cmds = cmds /\ a.cmds = <<>> BY DEF Cores, Drafts
<1>2. b = [a EXCEPT !.cmds = cmds] BY <1>1 DEF Issue
<1>3. b \in Drafts(cmds) BY <1>2 DEF Cores, Drafts
<1>4. b.shot = a.shot /\ b.pins = a.pins /\ b.lastPin = a.lastPin /\ b.cmds = cmds /\ Beside(a, b)
  BY <1>2 DEF Cores, Drafts, Beside
<1>5. d = Snapped(b, b.shot, b.pins, b.lastPin) BY <1>3, SettledProof
<1>6. d = Snapped(a, a.shot, a.pins, a.lastPin) BY <1>4, <1>5 DEF Snapped, Beside
<1> QED BY <1>4, <1>6, SnapshotMade

\* The worker of a pin ends.
LEMMA PinDispatchSafe ==
    ASSUME NEW c, NEW v, NEW J, Safe(c, v, J), NEW job \in J, OnlyPins(job),
           NEW a \in Cores, Beside(c, a), a.shot = c.shot, DOMAIN a.pins = DOMAIN c.pins,
           NEW d, d = Settled(a)
    PROVE  Safe(d, v, J \ {job})
<1>1. c \in Cores /\ c.spawned = {} /\ v \in Views /\ J \in SUBSET Jobs /\ Sound(c, v, J)
  BY DEF Safe
<1>2. PICK K : K = J \ {job} OBVIOUS
<1>3. K \in SUBSET Jobs BY <1>1, <1>2
<1>4. ~ Undone(c, job) BY DEF Undone, OnlyPins
<1>5. Sound(c, v, K) BY <1>1, <1>2, <1>4, EndedJob
<1>6. With(K, c) = K BY <1>1 DEF With
<1>7. Editor(v) /\ Steady(c, v, With(K, c)) /\ Outputs(c, v, With(K, c)) BY <1>5, <1>6 DEF Sound
<1>8. Snapshot(c, d, a) BY <1>1, SettledPlain
<1>9. PICK pins, new, started, X : pins = a.pins /\ new = <<SyncOf(a.shot, a.pins)>> /\ started = {}
          /\ X = {}
  OBVIOUS
<1>10. /\ Told(c, d, c.shot, pins, new, started) /\ Announced(c.queue, d.queue, c.shot, pins, X)
       /\ Kept(c, d) /\ d \in Cores /\ d.shot = c.shot /\ d.pins = pins
  BY <1>8, <1>9 DEF Snapshot
<1>11. d.pending \subseteq c.pending /\ PendingHeld(c, d) /\ (ImagesKept(c) => ImagesKept(d))
  BY <1>1, <1>9, <1>10, KeptFacts DEF Kept
<1>12. Known(v, job.id) BY <1>1 DEF Sound, Steady, IdsKnown, OnlyPins
<1>13. PICK id : id = job.id OBVIOUS
<1>14. PICK S, kinds : S = PinsWith(c, id) /\ kinds = EndKinds OBVIOUS
<1>15. Naming2(X, kinds, S) /\ StartsFor(started, S) /\ DOMAIN pins \subseteq S /\ HeldKept(c, d)
  BY <1>9, <1>10, <1>14 DEF Naming2, StartsFor, PinsWith, Kept
<1>16. PinMove(c, d, kinds) /\ Names(c, d, S) BY <1>1, <1>10, <1>11, <1>15, MoveStep
<1>17. PinStep(c, d, id) BY <1>11, <1>14, <1>16 DEF PinStep
<1>18. Steady(d, v, With(K, d)) /\ Outputs(d, v, With(K, d))
  BY <1>1, <1>3, <1>7, <1>11, <1>12, <1>13, <1>17, PinSteady
<1>19. d.spawned = {} /\ With(K, d) = K BY <1>1, <1>8 DEF Snapshot, With
<1> QED BY <1>1, <1>2, <1>3, <1>7, <1>10, <1>18, <1>19 DEF Safe, Sound

\* What a worker's dispatch leaves to be carried out.
CommandJob(cmd) == [k |-> "commands", cmds |-> <<cmd>>]
LEMMA CommandJobFacts ==
    ASSUME NEW cmd \in Orders, NEW job, job = CommandJob(cmd)
    PROVE  job \in Jobs /\ job.k = "commands" /\ job.cmds[1] = cmd
  BY DEF Jobs, CommandJob

\* The screenshot ends with what its worker did.
LEMMA QuitSafe ==
    ASSUME NEW c, NEW v, NEW J, Safe(c, v, J), NEW job \in J,
           NEW cmd, cmd = RestoreOf(c.shot.session), NEW other, other = CommandJob(cmd),
           NEW a \in Cores, Beside(c, a), a.shot = Quiescent(c.shot), a.pins = c.pins,
           NEW d, Snapshot(c, d, a)
    PROVE  Safe(d, v, (J \ {job}) \cup {other})
<1>1. c \in Cores /\ c.spawned = {} /\ v \in Views /\ J \in SUBSET Jobs /\ Sound(c, v, J)
  BY DEF Safe
<1>2. PICK K : K = (J \ {job}) \cup {other} OBVIOUS
<1>3. PICK s : s = c.shot.session OBVIOUS
<1>4. s \in Nat BY <1>1, <1>3, ShotNumbers
<1>5. cmd \in Orders /\ cmd.k = "Restore" /\ cmd.session = s BY <1>3, <1>4 DEF RestoreOf, Orders
<1>6. other \in Jobs /\ other.k = "commands" /\ other.cmds[1] = cmd BY <1>5, CommandJobFacts
<1>7. K \in SUBSET Jobs BY <1>1, <1>2, <1>6
<1>8. /\ d \in Cores /\ d.shot = Quiescent(c.shot) /\ d.pins = c.pins /\ d.spawned = {}
      /\ Kept(c, d)
      /\ Announced(c.queue, d.queue, d.shot, d.pins, {})
  BY <1>1 DEF Snapshot
<1>9. d.shot.phase = "Idle" /\ d.shot.session = s
  BY <1>1, <1>3, <1>8, ShotNumbers DEF Quiescent, Shots
<1>10. Ordered(K, "Restore", s) BY <1>2, <1>5, <1>6 DEF Ordered
<1>11. StartedFor(d, other) /\ ~ OnlyPins(other) BY <1>5, <1>6, <1>9 DEF StartedFor, OnlyPins
<1>12. NotPins(K, J) /\ \A some \in K : some \in J \/ StartedFor(d, some) BY <1>2, <1>11 DEF NotPins
<1>13. /\ Apart(c.queue, v) /\ Flowing(c, v, J) /\ ImagesKept(c) /\ IdsKnown(c, v, J) /\ Editor(v)
  BY <1>1 DEF Sound, Steady
<1>14. ImagesSynced(c, d) /\ HeldKept(c, d) /\ PendingKept(c, d) BY <1>8 DEF Kept
<1>15. PICK X : X = {} OBVIOUS
<1>16. Announced(c.queue, d.queue, d.shot, d.pins, X) /\ \A x \in X : x = RestoreOf(c.shot.session)
  BY <1>8, <1>15
<1>17. RestoreOf(c.shot.session) \in X \/ Ordered(K, "Restore", c.shot.session) BY <1>3, <1>10
<1>18. Steady(d, v, K) /\ Outputs(d, v, K)
  BY <1>1, <1>7, <1>8, <1>12, <1>13, <1>14, <1>16, <1>17, QuitSteady
<1> QED BY <1>1, <1>2, <1>7, <1>8, <1>13, <1>18 DEF Safe, Sound

LEMMA ReworkedSafe ==
    ASSUME NEW c, NEW v, NEW J, Safe(c, v, J), NEW job \in J, c.shot.phase = "Output",
           NEW a \in Cores, Beside(c, a), a.shot = Reworked(c.shot), a.pins = c.pins,
           NEW d, Snapshot(c, d, a)
    PROVE  Safe(d, v, J \ {job})
<1>1. c \in Cores /\ c.spawned = {} /\ v \in Views /\ J \in SUBSET Jobs /\ Sound(c, v, J)
  BY DEF Safe
<1>2. PICK K : K = J \ {job} OBVIOUS
<1>3. K \in SUBSET Jobs /\ NotPins(K, J) /\ \A some \in K : some \in J \/ StartedFor(d, some)
  BY <1>1, <1>2 DEF NotPins
<1>4. /\ d \in Cores /\ d.shot = Reworked(c.shot) /\ d.pins = c.pins /\ d.spawned = {}
      /\ Announced(c.queue, d.queue, d.shot, d.pins, {})
      /\ ImagesSynced(c, d) /\ HeldKept(c, d) /\ PendingKept(c, d)
  BY <1>1 DEF Snapshot, Kept
<1>5. /\ d.shot.phase = "Editing" /\ d.shot.session = c.shot.session
      /\ d.shot.operation = c.shot.operation
  BY <1>1, <1>4, ShotNumbers DEF Reworked, Shots
<1>6. Onward(c, d) BY <1>1, <1>5, ShotNumbers DEF Onward
<1>7. Steady(c, v, J) /\ Editor(v) BY <1>1 DEF Sound
<1>8. Tended(v, c.shot.session) BY <1>7 DEF Steady, Working, EditorWork, Tended
<1>9. Steady(d, v, K) BY <1>1, <1>3, <1>4, <1>5, <1>6, <1>7, <1>8, TendedSteady
<1>10. Outputs(d, v, K) BY <1>5 DEF Outputs, OutputWork, OutputKept
<1> QED BY <1>1, <1>2, <1>3, <1>4, <1>7, <1>9, <1>10 DEF Safe, Sound

\* The screen is captured.
Capturing(c) == [c EXCEPT !.held.frames = TRUE]
SameFlow(c, e) ==
    /\ e.shot = c.shot /\ e.queue = c.queue /\ e.pins = c.pins /\ e.images = c.images
    /\ e.pending = c.pending
LEMMA CapturingFacts ==
    ASSUME NEW c \in Cores, c.held # None, NEW e, e = Capturing(c)
    PROVE  /\ e \in Cores /\ SameFlow(c, e) /\ e.spawned = c.spawned
           /\ e.held # None /\ e.held.session = c.held.session /\ e.held.frames
           /\ c.held.frames => e = c
<1>1. c.held \in Frames BY DEF Cores, Drafts
<1>2. PICK h : h = [c.held EXCEPT !.frames = TRUE] OBVIOUS
<1>3. h \in Frames /\ h.session = c.held.session /\ h.frames /\ (c.held.frames => h = c.held)
  BY <1>1, <1>2 DEF Frames
<1>4. e = [c EXCEPT !.held = h] BY <1>2 DEF Capturing, Cores, Drafts
<1>5. e \in Cores BY <1>3, <1>4 DEF Cores, Drafts
<1>6. e.held = h /\ SameFlow(c, e) /\ e.spawned = c.spawned /\ (h = c.held => e = c)
  BY <1>4 DEF Cores, Drafts, SameFlow
<1>7. h # None BY <1>3 DEF Frames, None
<1> QED BY <1>3, <1>5, <1>6, <1>7

Choosing(shot) == [shot EXCEPT !.phase = "Selecting"]
ShowOf(s)      == [k |-> "Show", session |-> s]
LEMMA SelectingSafe ==
    ASSUME NEW c, NEW v, NEW J, Safe(c, v, J), NEW job \in J, c.shot.phase = "Preparing",
           NEW cmd, cmd = ShowOf(c.shot.session), NEW other, other = CommandJob(cmd),
           NEW e \in Cores, SameFlow(c, e), e.spawned = c.spawned,
           e.held # None, e.held.session = c.shot.session, e.held.frames,
           NEW a \in Cores, Beside(e, a), a.shot = Choosing(c.shot), a.pins = c.pins,
           NEW d, Snapshot(e, d, a)
    PROVE  Safe(d, v, (J \ {job}) \cup {other})
<1>1. c \in Cores /\ c.spawned = {} /\ v \in Views /\ J \in SUBSET Jobs /\ Sound(c, v, J)
  BY DEF Safe
<1>2. PICK K : K = (J \ {job}) \cup {other} OBVIOUS
<1>3. PICK s : s = c.shot.session OBVIOUS
<1>4. s \in Nat BY <1>1, <1>3, ShotNumbers
<1>5. cmd \in Orders /\ cmd.k = "Show" /\ cmd.session = s BY <1>3, <1>4 DEF ShowOf, Orders
<1>6. other \in Jobs /\ other.k = "commands" /\ other.cmds[1] = cmd BY <1>5, CommandJobFacts
<1>7. K \in SUBSET Jobs BY <1>1, <1>2, <1>6
<1>8. /\ d \in Cores /\ d.shot = Choosing(c.shot) /\ d.pins = c.pins /\ d.spawned = {}
      /\ Announced(e.queue, d.queue, d.shot, d.pins, {})
      /\ ImagesSynced(e, d) /\ HeldKept(e, d) /\ PendingKept(e, d)
  BY <1>1 DEF Snapshot, Kept
<1>9. d.shot.phase = "Selecting" /\ d.shot.session = s /\ d.shot.operation = c.shot.operation
  BY <1>1, <1>3, <1>8, ShotNumbers DEF Choosing, Shots
<1>10. Ordered(K, "Show", s) BY <1>2, <1>5, <1>6 DEF Ordered
<1>11. StartedFor(d, other) /\ ~ OnlyPins(other) BY <1>5, <1>6, <1>9 DEF StartedFor, OnlyPins
<1>12. NotPins(K, J) /\ \A some \in K : some \in J \/ StartedFor(d, some) BY <1>2, <1>11 DEF NotPins
<1>13. /\ Apart(c.queue, v) /\ Flowing(c, v, J) /\ Working(c, v, J) /\ ImagesKept(c)
       /\ IdsKnown(c, v, J)
       /\ Editor(v)
  BY <1>1 DEF Sound, Steady
<1>14. /\ e.shot = c.shot /\ e.queue = c.queue /\ e.pins = c.pins /\ e.images = c.images
       /\ e.pending = c.pending
  BY DEF SameFlow
<1>15. Apart(e.queue, v) /\ ImagesKept(e) /\ IdsKnown(e, v, J)
  BY <1>13, <1>14 DEF ImagesKept, IdsKnown
<1>16. Flowing(e, v, J)
  BY <1>13, <1>14 DEF Flowing, FlowKnown, SuspendKnown, RecoveryKnown, RestoreOld, ShowOld,
     HostKnown,
                      EditingKnown, Past, SourcesOld, NotLater, Active
<1>17. Onward(e, d) BY <1>1, <1>3, <1>9, <1>14, ShotNumbers DEF Onward
<1>18. PICK X : X = {} OBVIOUS
<1>19. Announced(e.queue, d.queue, d.shot, d.pins, X) /\ (\A x \in X : PostedFor(d, x))
       /\ \A x \in X : x.k = "Restore"
  BY <1>8, <1>18
<1>20. Flowing(d, v, K)
  <2>1. PICK pins : pins = d.pins OBVIOUS
  <2>2. Announced(e.queue, d.queue, d.shot, pins, X) BY <1>19, <2>1
  <2> QED BY <1>1, <1>7, <1>8, <1>12, <1>16, <1>17, <1>19, <2>2, FlowingMoved
<1>21. Apart(d.queue, v) /\ ImagesKept(d) /\ IdsKnown(d, v, K)
  BY <1>8, <1>12, <1>14, <1>15, <1>19, MovedRest
<1>22. HeldKnown(d) BY <1>3, <1>8, <1>9 DEF HeldKept, HeldKnown, Active
<1>23. Longer(e.queue, d.queue) /\ \A i \in NewIn(e.queue, d.queue) : d.queue[i].k = "Sync"
  <2>1. PICK shot, pins, q, r : shot = d.shot /\ pins = d.pins /\ q = e.queue /\ r = d.queue OBVIOUS
  <2>2. Announced(q, r, shot, pins, X) BY <1>19, <2>1
  <2>3. Longer(q, r) /\ \E p \in NewIn(q, r) : /\ r[p] = SyncOf(shot, pins)
                                              /\ \A i \in NewIn(q, r) : i # p => i > p /\ r[i] \in X
    BY ONLY <2>2, AnnouncedFacts
  <2>4. SyncOf(shot, pins).k = "Sync" BY DEF SyncOf
  <2> QED BY <1>18, <2>1, <2>3, <2>4
<1>24. Loaned(d, v) BY <1>13, <1>14, <1>23, LongerFacts DEF Working, Active, Loaned
<1>25. ShowSees(d, v)
  <2>1. SUFFICES ASSUME NEW i \in At(d.queue, "Show"), d.queue[i].session = s PROVE FALSE
    BY <1>9 DEF ShowSees, Is
  <2>2. i \in At(e.queue, "Show") BY <1>23, <2>1, LongerFacts DEF At
  <2>3. d.queue[i] = c.queue[i] BY <1>14, <1>23, <2>2, LongerFacts DEF At
  <2> QED BY <1>3, <1>13, <1>14, <2>1, <2>2, <2>3 DEF Flowing, ShowOld
<1>26. RestoreDue(d, v, K) /\ PrepareWork(d, K) /\ SelectWork(d, v, K) /\ EditorWork(d, v)
  BY <1>9, <1>10 DEF RestoreDue, Active, PrepareWork, SelectWork, EditorWork
<1>27. Outputs(d, v, K) BY <1>9 DEF Outputs, OutputWork, OutputKept
<1>28. Steady(d, v, K) BY <1>20, <1>21, <1>22, <1>24, <1>25, <1>26 DEF Steady, Working
<1> QED BY <1>1, <1>2, <1>7, <1>8, <1>13, <1>27, <1>28 DEF Safe, Sound

\* The transitions of the workers' dispatches.
Phased(shot, phase) == [shot EXCEPT !.phase = phase]
LEMMA PhaseFacts ==
    ASSUME NEW c \in Cores, NEW phase \in {"Idle", "Selecting", "Editing"}, NEW a,
           a = Phase(c, phase)
    PROVE  /\ a \in Cores /\ Beside(c, a) /\ a.shot = Phased(c.shot, phase) /\ a.pins = c.pins
           /\ a # c \/ c.shot.phase = phase
<1>1. PICK shot : shot = Phased(c.shot, phase) OBVIOUS
<1>2. shot \in Shots /\ shot.phase = phase BY <1>1, ShotNumbers DEF Shots, Phased
<1>3. a = [c EXCEPT !.shot = shot] BY <1>1 DEF Phase, Phased, Cores, Drafts
<1>4. a \in Cores /\ Beside(c, a) /\ a.shot = shot /\ a.pins = c.pins BY <1>2, <1>3, ShotChanged
<1> QED BY <1>1, <1>2, <1>4

\* A worker whose dispatch changes nothing.
LEMMA SilentSafe ==
    ASSUME NEW c, NEW v, NEW J, Safe(c, v, J), NEW job \in J, ~ Undone(c, job)
    PROVE  Safe(c, v, J \ {job})
  BY EndedJob DEF Safe

\* One command is left.
LEMMA IssuedOne ==
    ASSUME NEW c \in Cores, NEW a \in Cores, Beside(c, a), NEW cmd,
           NEW b, b = Issue(a, <<cmd>>), NEW d, d = Settled(b)
    PROVE  Snapshot(c, d, a) /\ b.cmds = <<cmd>> /\ b.cmds # <<>>
<1>1. PICK S, cmds : S = {cmd} /\ cmds = <<cmd>> OBVIOUS
<1>2. cmds \in Seq(S) /\ cmds # <<>> BY <1>1
<1>3. b = Issue(a, cmds) BY <1>1
<1>4. Snapshot(c, d, a) /\ b.cmds = cmds BY <1>2, <1>3, SettledIssue
<1> QED BY <1>1, <1>2, <1>4

LEMMA ExecuteCommandsSafe ==
    ASSUME Safe(core, view, jobs), NEW job \in jobs, ExecuteCommands(job)
    PROVE  Safe(core', view', jobs')
<1>1. job.k = "commands" /\ view' = view BY DEF ExecuteCommands
<1>2. PICK after : after = ExecuteAll(core, job.cmds) OBVIOUS
<1>3. core' = [after EXCEPT !.spawned = {}] /\ jobs' = (jobs \ {job}) \cup after.spawned
  BY <1>2 DEF ExecuteCommands
<1> QED BY <1>1, <1>2, <1>3, CommandsSafe

\* What a completed output comes to.
LEMMA CompletedSafe ==
    ASSUME Safe(core, view, jobs), NEW job \in jobs, job.k = "output", NEW result,
           Dispatch(job, Completed(core, job.session, job.operation, result))
    PROVE  Safe(core', view', jobs')
<1>1. core \in Cores /\ core.spawned = {} /\ jobs \in SUBSET Jobs BY DEF Safe
<1>2. PICK after : after = Completed(core, job.session, job.operation, result) OBVIOUS
<1>3. PICK s, operation : s = job.session /\ operation = job.operation OBVIOUS
<1>4. CASE ~ Current(core, s, operation)
  BY <1>2, <1>3, <1>4, SilentSafe DEF Completed, Current, Dispatch, Undone, Wanted, Source, Is
<1>5. CASE Current(core, s, operation) /\ result = "saved"
  <2>0. PICK phase : phase = "Idle" OBVIOUS
  <2>1. phase = "Idle" /\ phase \in {"Idle", "Selecting", "Editing"} BY <2>0
  <2>2. PICK a : a = Phase(core, phase) OBVIOUS
  <2>3. /\ a \in Cores /\ Beside(core, a) /\ a.shot = Phased(core.shot, phase) /\ a.pins = core.pins
        /\ a # core \/ core.shot.phase = phase
    BY <1>1, <2>1, <2>2, PhaseFacts
  <2>4. PICK cmd : cmd = RestoreOf(core.shot.session) OBVIOUS
  <2>5. after = Issue(a, <<cmd>>)
    BY <1>2, <1>3, <1>5, <2>1, <2>2, <2>4 DEF Completed, RestoreOf, Current, Is
  <2>6. PICK d : d = Settled(after) OBVIOUS
  <2>7. Snapshot(core, d, a) /\ after.cmds = <<cmd>> /\ after.cmds # <<>>
    BY <1>1, <2>3, <2>5, <2>6, IssuedOne
  <2>8. after # core BY <1>1, <2>7 DEF Cores, Drafts
  <2>9. core' = d /\ view' = view /\ jobs' = (jobs \ {job}) \cup {CommandJob(cmd)}
    BY <1>2, <2>6, <2>7, <2>8 DEF Dispatch, CommandJob
  <2>10. a.shot = Quiescent(core.shot) BY <2>1, <2>3 DEF Quiescent, Phased
  <2>11. PICK other : other = CommandJob(cmd) OBVIOUS
  <2>12. Safe(d, view, (jobs \ {job}) \cup {other}) BY <2>3, <2>4, <2>7, <2>10, <2>11, QuitSafe
  <2> QED BY <2>9, <2>11, <2>12
<1>6. CASE Current(core, s, operation) /\ result # "saved"
  <2>1. PICK phase : phase = "Editing" OBVIOUS
  <2>2. PICK a : a = Phase(core, phase) OBVIOUS
  <2>3. /\ a \in Cores /\ Beside(core, a) /\ a.shot = Phased(core.shot, phase) /\ a.pins = core.pins
        /\ a # core \/ core.shot.phase = phase
    BY <1>1, <2>1, <2>2, PhaseFacts
  <2>4. after = a /\ core.shot.phase = "Output"
    BY <1>2, <1>3, <1>6, <2>1, <2>2 DEF Completed, Current, Is
  <2>5. PICK d : d = Settled(a) OBVIOUS
  <2>6. Snapshot(core, d, a) /\ a.cmds = <<>> BY <1>1, <2>3, <2>5, SettledPlain
  <2>7. after # core BY <2>1, <2>3, <2>4
  <2>8. core' = d /\ view' = view /\ jobs' = jobs \ {job}
    BY <1>2, <2>4, <2>5, <2>6, <2>7 DEF Dispatch
  <2>9. a.shot = Reworked(core.shot) BY <2>1, <2>3 DEF Reworked, Phased
  <2>10. Safe(d, view, jobs \ {job}) BY <2>3, <2>4, <2>6, <2>9, ReworkedSafe
  <2> QED BY <2>8, <2>10
<1> QED BY <1>4, <1>5, <1>6

LEMMA WriteShotSafe ==
    ASSUME Safe(core, view, jobs), NEW job \in jobs, WriteShot(job)
    PROVE  Safe(core', view', jobs')
  BY CompletedSafe DEF WriteShot

LEMMA PinShotSafe ==
    ASSUME Safe(core, view, jobs), NEW job \in jobs, PinShot(job)
    PROVE  Safe(core', view', jobs')
<1>1. job.k = "output" BY DEF PinShot
<1>2. PICK source : source = <<job.session, job.operation>> OBVIOUS
<1>3. \/ /\ core' = IF Keeps(job) THEN Post([core EXCEPT !.pending = @ \cup {source}],
                                            [k |-> "ShowPin", source |-> source])
                    ELSE core
         /\ jobs' = jobs \ {job} /\ view' = view
      \/ Dispatch(job, Completed(core, job.session, job.operation, "failed"))
  BY <1>2 DEF PinShot
<1>4. CASE Dispatch(job, Completed(core, job.session, job.operation, "failed"))
  <2>1. PICK result : result = "failed" OBVIOUS
  <2> QED BY <1>1, <1>4, <2>1, CompletedSafe
<1>5. CASE /\ core' = IF Keeps(job) THEN Post([core EXCEPT !.pending = @ \cup {source}],
                                            [k |-> "ShowPin", source |-> source])
                    ELSE core
           /\ jobs' = jobs \ {job} /\ view' = view
  <2>1. PICK d : d = core' OBVIOUS
  <2>2. IF core.held # None /\ core.held.session = job.session THEN d = Pinning(core, source)
            ELSE d = core
    BY <1>5, <2>1 DEF Keeps, Pinning, ShowPinOf
  <2>3. Safe(d, view, jobs \ {job}) BY <1>1, <1>2, <2>2, PinnedSafe
  <2> QED BY <1>5, <2>1, <2>3
<1> QED BY <1>3, <1>4, <1>5

\* A dispatch with one command.
LEMMA DispatchOne ==
    ASSUME NEW c \in Cores, NEW a \in Cores, Beside(c, a), NEW cmd, NEW job,
           core \in Cores, NEW b, b = Issue(a, <<cmd>>), Dispatch(job, b)
    PROVE  /\ Snapshot(c, core', a) /\ view' = view
           /\ \E other : other = CommandJob(cmd) /\ jobs' = (jobs \ {job}) \cup {other}
<1>1. PICK d : d = Settled(b) OBVIOUS
<1>2. Snapshot(c, d, a) /\ b.cmds = <<cmd>> /\ b.cmds # <<>> BY <1>1, IssuedOne
<1>3. b # core BY <1>2 DEF Cores, Drafts
<1>4. core' = d /\ view' = view /\ jobs' = (jobs \ {job}) \cup {CommandJob(cmd)}
  BY <1>1, <1>2, <1>3 DEF Dispatch, CommandJob
<1> QED BY <1>2, <1>4

LEMMA PrepareShotSafe ==
    ASSUME Safe(core, view, jobs), NEW job \in jobs, PrepareShot(job)
    PROVE  Safe(core', view', jobs')
<1>1. /\ core \in Cores /\ core.spawned = {} /\ jobs \in SUBSET Jobs /\ Sound(core, view, jobs)
      /\ job.k = "prepare"
  BY DEF Safe, PrepareShot
<1>2. HeldKnown(core) BY <1>1 DEF Sound, Steady, Working
<1>3. PICK s : s = job.session OBVIOUS
<1>4. PICK ok \in BOOLEAN :
         /\ ok => core.held # None /\ core.held.session = s
         /\ LET kept == IF ok THEN [core EXCEPT !.held.frames = TRUE] ELSE core IN
            IF Prepared(kept, s, ok) = core
            THEN core' = core /\ jobs' = jobs \ {job} /\ UNCHANGED view
            ELSE Dispatch(job, Prepared(kept, s, ok))
  BY <1>3 DEF PrepareShot, Keeps
<1>5. PICK kept : kept = IF ok THEN Capturing(core) ELSE core OBVIOUS
<1>6. IF Prepared(kept, s, ok) = core THEN core' = core /\ jobs' = jobs \ {job} /\ view' = view
      ELSE Dispatch(job, Prepared(kept, s, ok))
  BY <1>4, <1>5 DEF Capturing
<1>7. PICK cmd, other : cmd = (IF ok THEN ShowOf(core.shot.session)
                               ELSE RestoreOf(core.shot.session))
                        /\ other = CommandJob(cmd)
  OBVIOUS
<1>8. ok => /\ kept \in Cores /\ SameFlow(core, kept) /\ kept.spawned = core.spawned
            /\ kept.held # None /\ kept.held.session = s /\ kept.held.frames
            /\ (core.held.frames => kept = core)
  BY <1>1, <1>4, <1>5, CapturingFacts
<1>9. CASE ~ Is(core, s, "Preparing")
  <2>1. kept = core BY <1>2, <1>4, <1>5, <1>8, <1>9 DEF HeldKnown, Is
  <2>2. Prepared(kept, s, ok) = core BY <1>9, <2>1 DEF Prepared
  <2>3. ~ Undone(core, job) BY <1>1, <1>3, <1>9 DEF Undone
  <2> QED BY <1>6, <2>2, <2>3, SilentSafe
<1>10. CASE Is(core, s, "Preparing") /\ ~ok
  <2>0. PICK phase : phase = "Idle" OBVIOUS
  <2>1. phase = "Idle" /\ phase \in {"Idle", "Selecting", "Editing"} BY <2>0
  <2>2. PICK a : a = Phase(core, phase) OBVIOUS
  <2>3. /\ a \in Cores /\ Beside(core, a) /\ a.shot = Phased(core.shot, phase) /\ a.pins = core.pins
    BY <1>1, <2>1, <2>2, PhaseFacts
  <2>4. cmd = RestoreOf(core.shot.session) /\ kept = core BY <1>5, <1>7, <1>10
  <2>5. PICK after : after = Prepared(kept, s, ok) OBVIOUS
  <2>6. after = Issue(a, <<cmd>>) BY <1>10, <2>1, <2>2, <2>4, <2>5 DEF Prepared, Is, RestoreOf
  <2>7. after # core
    <3>1. after.cmds # <<>> BY <1>1, <2>3, <2>6, IssuedOne
    <3> QED BY <1>1, <3>1 DEF Cores, Drafts
  <2>8. Dispatch(job, after) BY <1>6, <2>5, <2>7
  <2>9. Snapshot(core, core', a) /\ view' = view /\ jobs' = (jobs \ {job}) \cup {other}
    BY <1>1, <1>7, <2>3, <2>6, <2>8, DispatchOne
  <2>10. a.shot = Quiescent(core.shot) BY <2>1, <2>3 DEF Quiescent, Phased
  <2>11. PICK d : d = core' OBVIOUS
  <2>12. Snapshot(core, d, a) BY <2>9, <2>11
  <2>13. Safe(d, view, (jobs \ {job}) \cup {other}) BY <1>7, <2>3, <2>4, <2>10, <2>12, QuitSafe
  <2> QED BY <2>9, <2>11, <2>13
<1>11. CASE Is(core, s, "Preparing") /\ ok
  <2>0. PICK phase : phase = "Selecting" OBVIOUS
  <2>1. phase = "Selecting" /\ phase \in {"Idle", "Selecting", "Editing"} BY <2>0
  <2>2. PICK a : a = Phase(kept, phase) OBVIOUS
  <2>3. /\ a \in Cores /\ Beside(kept, a) /\ a.shot = Phased(kept.shot, phase) /\ a.pins = kept.pins
    BY <1>8, <1>11, <2>1, <2>2, PhaseFacts
  <2>4. cmd = ShowOf(core.shot.session) /\ kept.shot = core.shot /\ kept.pins = core.pins
    BY <1>7, <1>8, <1>11 DEF SameFlow
  <2>5. PICK after : after = Prepared(kept, s, ok) OBVIOUS
  <2>6. after = Issue(a, <<cmd>>) BY <1>11, <2>1, <2>2, <2>4, <2>5 DEF Prepared, Is, ShowOf
  <2>7. after # core
    <3>1. after.cmds # <<>> BY <1>8, <1>11, <2>3, <2>6, IssuedOne
    <3> QED BY <1>1, <3>1 DEF Cores, Drafts
  <2>8. Dispatch(job, after) BY <1>6, <2>5, <2>7
  <2>9. Snapshot(kept, core', a) /\ view' = view /\ jobs' = (jobs \ {job}) \cup {other}
    BY <1>1, <1>7, <1>8, <1>11, <2>3, <2>6, <2>8, DispatchOne
  <2>10. a.shot = Choosing(core.shot) /\ a.pins = core.pins /\ core.shot.phase = "Preparing"
         /\ core.shot.session = s
    BY <1>11, <2>1, <2>3, <2>4 DEF Choosing, Phased, Is
  <2>11. PICK d : d = core' OBVIOUS
  <2>12. Snapshot(kept, d, a) BY <2>9, <2>11
  <2>13. kept.held.session = core.shot.session BY <1>8, <1>11, <2>10
  <2>14. Safe(d, view, (jobs \ {job}) \cup {other})
    BY <1>7, <1>8, <1>11, <2>3, <2>4, <2>10, <2>12, <2>13, SelectingSafe
  <2> QED BY <2>9, <2>11, <2>14
<1> QED BY <1>9, <1>10, <1>11

\* The transition of a pin's worker.
LEMMA PinDispatched ==
    ASSUME Safe(core, view, jobs), NEW job \in jobs, OnlyPins(job), NEW a, Dispatch(job, a),
           a = core \/ (a \in Cores /\ Beside(core, a) /\ a.shot = core.shot
                        /\ DOMAIN a.pins = DOMAIN core.pins)
    PROVE  Safe(core', view', jobs')
<1>1. CASE a = core
  <2>1. core' = core /\ view' = view /\ jobs' = jobs \ {job} BY <1>1 DEF Dispatch
  <2>2. ~ Undone(core, job) BY DEF Undone, OnlyPins
  <2> QED BY <2>1, <2>2, SilentSafe
<1>2. CASE a # core /\ a \in Cores /\ Beside(core, a) /\ a.shot = core.shot
          /\ DOMAIN a.pins = DOMAIN core.pins
  <2>1. PICK d : d = Settled(a) OBVIOUS
  <2>2. a.cmds = <<>> BY <1>2 DEF Cores, Drafts
  <2>3. core' = d /\ view' = view /\ jobs' = jobs \ {job} BY <1>2, <2>1, <2>2 DEF Dispatch
  <2>4. Safe(d, view, jobs \ {job}) BY <1>2, <2>1, PinDispatchSafe
  <2> QED BY <2>3, <2>4
<1> QED BY <1>1, <1>2

PinChanging(c, id, pin) == [c EXCEPT !.pins[id] = pin]
LEMMA PinChanged ==
    ASSUME NEW c \in Cores, NEW id \in DOMAIN c.pins, NEW pin \in Pins, NEW a,
           a = PinChanging(c, id, pin)
    PROVE  a \in Cores /\ Beside(c, a) /\ a.shot = c.shot /\ DOMAIN a.pins = DOMAIN c.pins
<1>1. PICK pins : pins = PinSet(c.pins, id, pin) OBVIOUS
<1>2. a = [c EXCEPT !.pins = pins] BY <1>1 DEF PinSet, PinChanging, Cores, Drafts
<1>3. c.pins \in PinTables BY DEF Cores, Drafts
<1>4. pins \in PinTables /\ DOMAIN pins = DOMAIN c.pins BY <1>1, <1>3, PinSetFacts
<1> QED BY <1>2, <1>4, PinsChanged

LEMMA WritePinSafe ==
    ASSUME Safe(core, view, jobs), NEW job \in jobs, WritePin(job)
    PROVE  Safe(core', view', jobs')
<1>1. /\ core \in Cores /\ job.k = "pin output"
      /\ Dispatch(job, PinCompleted(core, job.id, job.operation))
  BY DEF Safe, WritePin
<1>2. PICK a : a = PinCompleted(core, job.id, job.operation) OBVIOUS
<1>3. a = core \/ (a \in Cores /\ Beside(core, a) /\ a.shot = core.shot
                   /\ DOMAIN a.pins = DOMAIN core.pins)
  <2>1. CASE Has(core, job.id) /\ core.pins[job.id].busy
            /\ core.pins[job.id].operation = job.operation
    <3>1. PICK id : id = job.id OBVIOUS
    <3>2. id \in DOMAIN core.pins /\ core.pins[id] \in Pins
      BY <1>1, <2>1, <3>1, PinTableFacts DEF Has, Cores, Drafts
    <3>3. PICK pin : pin = [core.pins[id] EXCEPT !.busy = FALSE] OBVIOUS
    <3>4. pin \in Pins BY <3>2, <3>3 DEF Pins
    <3>5. a = PinChanging(core, id, pin) BY <1>2, <2>1, <3>1, <3>3 DEF PinCompleted, PinChanging
    <3> QED
      <4>1. core \in Cores BY <1>1
      <4> QED BY ONLY <3>2, <3>4, <3>5, <4>1, PinChanged
  <2>2. CASE ~ (Has(core, job.id) /\ core.pins[job.id].busy
                /\ core.pins[job.id].operation = job.operation)
    BY <1>2, <2>2 DEF PinCompleted
  <2> QED BY <2>1, <2>2
<1> QED BY <1>1, <1>2, <1>3, PinDispatched DEF OnlyPins

LEMMA PreviewPinSafe ==
    ASSUME Safe(core, view, jobs), NEW job \in jobs, PreviewPin(job)
    PROVE  Safe(core', view', jobs')
<1>1. core \in Cores /\ jobs \in SUBSET Jobs /\ job.k = "preview" BY DEF Safe, PreviewPin
<1>2. PICK x : x = [k |-> "Present", id |-> job.id, revision |-> job.revision] OBVIOUS
<1>3. \/ core' = core /\ jobs' = jobs \ {job} /\ view' = view
      \/ core' = Post(core, x) /\ jobs' = jobs \ {job} /\ view' = view
      \/ Dispatch(job, PreviewFailed(core, job.id, job.revision))
  BY <1>2 DEF PreviewPin
<1>4. CASE (core' = core \/ core' = Post(core, x)) /\ jobs' = jobs \ {job} /\ view' = view
  <2>1. PICK d : d = core' OBVIOUS
  <2>2. Safe(d, view, jobs \ {job}) BY <1>1, <1>2, <1>4, <2>1, PreviewedSafe
  <2> QED BY <1>4, <2>1, <2>2
<1>5. CASE Dispatch(job, PreviewFailed(core, job.id, job.revision))
  <2>1. PICK a : a = PreviewFailed(core, job.id, job.revision) OBVIOUS
  <2>2. a = core \/ (a \in Cores /\ Beside(core, a) /\ a.shot = core.shot
                     /\ DOMAIN a.pins = DOMAIN core.pins)
    <3>1. CASE Has(core, job.id) /\ core.pins[job.id].revision = job.revision
      <4>1. PICK id : id = job.id OBVIOUS
      <4>2. id \in DOMAIN core.pins /\ core.pins[id] \in Pins /\ job.revision \in Nat
        BY <1>1, <3>1, <4>1, PinTableFacts, JobFacts DEF Has, Cores, Drafts
      <4>3. PICK pin : pin = [core.pins[id] EXCEPT !.failed = job.revision] OBVIOUS
      <4>4. pin \in Pins BY <4>2, <4>3 DEF Pins
      <4>5. a = PinChanging(core, id, pin) BY <2>1, <3>1, <4>1, <4>3 DEF PreviewFailed, PinChanging
      <4> QED BY <1>1, <4>2, <4>4, <4>5, PinChanged
    <3>2. CASE ~ (Has(core, job.id) /\ core.pins[job.id].revision = job.revision)
      BY <2>1, <3>2 DEF PreviewFailed
    <3> QED BY <3>1, <3>2
  <2> QED BY <1>1, <1>5, <2>1, <2>2, PinDispatched DEF OnlyPins
<1> QED BY <1>3, <1>4, <1>5

LEMMA WorkerSafe ==
    ASSUME Safe(core, view, jobs), NEW job \in jobs, Worker(job)
    PROVE  Safe(core', view', jobs')
  BY ExecuteCommandsSafe, WriteShotSafe, PinShotSafe, PrepareShotSafe, WritePinSafe, PreviewPinSafe
     DEF Worker

\* The documents kept are those of the windows there are.
Stocked(v)   == DOMAIN v.stored = DOMAIN v.windows
Stocks(v, u) == Stocked(v) => Stocked(u)
LEMMA StocksSame ==
    ASSUME NEW v, NEW u, u.stored = v.stored \/ DOMAIN u.stored = DOMAIN v.stored,
           u.windows = v.windows \/ DOMAIN u.windows = DOMAIN v.windows
    PROVE  Stocks(v, u)
  BY DEF Stocks, Stocked

LEMMA StocksEnded ==
    ASSUME NEW w \in Worlds, NEW w2, NEW id, EditTaken(w, w2, id)
    PROVE  Stocks(w.view, w2.view)
  BY StocksSame DEF EditTaken, Restocked, Rewindowed

LEMMA StocksEnd ==
    ASSUME NEW w \in Worlds, Lent(w.view), NEW id \in Nat, NEW edit \in Nat, NEW w2,
           w2 = End(w, id, edit)
    PROVE  Stocks(w.view, w2.view)
  BY EndFacts, StocksEnded DEF Stocks

LEMMA StocksFinishNow ==
    ASSUME NEW w \in Worlds, Lent(w.view), NEW w2, w2 = FinishNow(w)
    PROVE  Stocks(w.view, w2.view)
<1>1. CASE w.view.active = None BY <1>1 DEF FinishNow, Stocks
<1>2. CASE w.view.active # None
  <2>1. PICK w1 \in Worlds : w1.view = w.view /\ EditTaken(w1, w2, w.view.active.id)
    BY <1>2, FinishNowFacts
  <2> QED BY <2>1, StocksEnded
<1> QED BY <1>1, <1>2

LEMMA StocksClear ==
    ASSUME NEW w \in Worlds, NEW w2, w2 = RegistryClose(w)
    PROVE  Stocks(w.view, w2.view)
<1>1. /\ Except(w.view, w2.view, {"registry", "timers", "stored"})
      /\ w2.view.stored = KeptAside(w.view)
  BY RegistryCloseFacts
<1>2. DOMAIN KeptAside(w.view) = DOMAIN w.view.stored BY DEF KeptAside
<1> QED BY <1>1, <1>2, StocksSame DEF Except

LEMMA StocksClose ==
    ASSUME NEW w \in Worlds, NEW w2, w2 = CloseEditor(w)
    PROVE  Stocks(w.view, w2.view)
  BY StocksClear, FinishFacts DEF CloseEditor, Stocks

LEMMA StocksToggle ==
    ASSUME NEW w \in Worlds, NEW w2, w2 = Toggle(w)
    PROVE  Stocks(w.view, w2.view)
<1>1. CASE w.view.registry.open BY <1>1, StocksClose DEF Toggle
<1>2. CASE ~w.view.registry.open BY <1>2, ToggleFacts, StocksSame DEF Except
<1> QED BY <1>1, <1>2

LEMMA StocksCloseWindow ==
    ASSUME NEW w \in Worlds, NEW id \in Nat, NEW w2, w2 = CloseWindow(w, id)
    PROVE  Stocks(w.view, w2.view)
<1>1. Removed(w.view, w2.view, id) BY CloseWindowFacts
<1> QED BY <1>1 DEF Removed, Stocks, Stocked

LEMMA StocksRequestClose ==
    ASSUME NEW w \in Worlds, NEW id \in Nat, NEW w2, w2 = RequestClose(w, id)
    PROVE  Stocks(w.view, w2.view)
  BY RequestCloseFacts DEF Except, Rewindowed, Stocks, Stocked

LEMMA StocksPublish ==
    ASSUME NEW w \in Worlds, NEW id \in Nat, NEW w2, w2 = Publish(w, id)
    PROVE  Stocks(w.view, w2.view)
  BY PublishFacts DEF Except, Restocked, Stocks, Stocked

LEMMA StocksBegin ==
    ASSUME NEW w \in Worlds, Lent(w.view), w.view.recovery = None,
           NEW id \in Nat, NEW edit \in Nat, NEW w2, w2 = BeginEdit(w, id, edit),
           NEW w1 \in Worlds, w1 = FreedOf(w), w1.view.registry.editing = None
    PROVE  Stocks(w.view, w2.view)
<1>1. Stocks(w.view, w1.view) BY FreedFacts, StocksEnded DEF Stocks
<1>2. Stocks(w1.view, w2.view)
  <2>1. CASE Lends(w1.view, id)
    BY <2>1, BeginFacts DEF EditLent, Restocked, Rewindowed, Stocks, Stocked
  <2>2. CASE ~ Lends(w1.view, id)
    <3>1. w2 = Emit(w1, EditEnded(w1.core, id, edit)) BY <2>2, BeginFacts
    <3>2. w2.view = w1.view BY <3>1, EditEndedWorld
    <3> QED BY <3>2 DEF Stocks
  <2> QED BY <2>1, <2>2
<1> QED BY <1>1, <1>2 DEF Stocks

\* The workers a step started join the others; nothing is said of them in the core afterwards.
Alikes(c, d) ==
    /\ d.shot = c.shot /\ d.pins = c.pins /\ d.queue = c.queue /\ d.held = c.held
    /\ d.pending = c.pending /\ d.images = c.images
LEMMA SoundAlikes ==
    ASSUME NEW c, NEW d, Alikes(c, d), NEW v, NEW J, Sound(c, v, J)
    PROVE  Sound(d, v, J)
<1>1. Flowing(d, v, J)
  <2>1. FlowKnown(d, v) /\ SuspendKnown(d, v) /\ RecoveryKnown(d, v) /\ HostKnown(d, v)
    BY DEF Sound, Steady, Flowing, FlowKnown, SuspendKnown, RecoveryKnown, HostKnown, Alikes
  <2>2. RestoreOld(d, J) /\ ShowOld(d, J)
    BY DEF Sound, Steady, Flowing, RestoreOld, ShowOld, Alikes, Active
  <2>3. EditingKnown(d, v) /\ SourcesOld(d, v, J)
    BY DEF Sound, Steady, Flowing, EditingKnown, SourcesOld, NotLater, Past, Alikes
  <2> QED BY <2>1, <2>2, <2>3 DEF Flowing
<1>2. Working(d, v, J)
  <2>1. HeldKnown(d) /\ Loaned(d, v) /\ RestoreDue(d, v, J)
    BY DEF Sound, Steady, Working, HeldKnown, Loaned, RestoreDue, Alikes, Active
  <2>2. ShowSees(d, v) /\ PrepareWork(d, J) /\ SelectWork(d, v, J) /\ EditorWork(d, v)
    BY ZenonT(60) DEF Sound, Steady, Working, ShowSees, PrepareWork, SelectWork, EditorWork, Alikes,
       Is
  <2> QED BY <2>1, <2>2 DEF Working
<1>3. Apart(d.queue, v) /\ ImagesKept(d) /\ IdsKnown(d, v, J)
  BY DEF Sound, Steady, ImagesKept, IdsKnown, Alikes
<1>4. Outputs(d, v, J) BY DEF Sound, Outputs, OutputWork, OutputKept, Source, Alikes
<1> QED BY <1>1, <1>2, <1>3, <1>4 DEF Sound, Steady

\* Between steps the world of the model is good, and a good world makes a safe step.
LEMMA WorldGood ==
    ASSUME Safe(core, view, jobs)
    PROVE  Good(World, jobs) /\ World.core = core /\ World.view = view /\ jobs \in SUBSET Jobs
  BY DEF Safe, World, Worlds, With, Good, Fine, Paid, Sound

LEMMA DoSafe ==
    ASSUME NEW w, Good(w, jobs), jobs \in SUBSET Jobs, Do(w)
    PROVE  Safe(core', view', jobs') /\ view' = w.view
<1>1. w.core \in Cores /\ w.view \in Views BY WorldParts DEF Good
<1>2. PICK c, d : c = w.core /\ d = [c EXCEPT !.spawned = {}] OBVIOUS
<1>3. d \in Cores /\ d.spawned = {} /\ Alikes(c, d) /\ c.spawned \in SUBSET Jobs
  BY <1>1, <1>2 DEF Cores, Drafts, Alikes
<1>4. Sound(c, w.view, With(jobs, c)) BY <1>2 DEF Good, Fine, Paid, Sound
<1>5. Sound(d, w.view, With(jobs, c)) BY <1>3, <1>4, SoundAlikes
<1>6. core' = d /\ view' = w.view /\ jobs' = With(jobs, c) BY <1>2 DEF Do, With
<1>7. With(jobs, c) \in SUBSET Jobs BY <1>3 DEF With
<1>8. Safe(d, w.view, With(jobs, c)) BY <1>1, <1>3, <1>5, <1>7 DEF Safe
<1> QED BY <1>6, <1>8

LEMMA GoodBehind ==
    ASSUME NEW w, NEW J, Good(w, J), w.core.queue # <<>>, NEW w1, w1 = Behind(w), NEW x,
           x = Head(w.core.queue)
    PROVE  /\ w1 \in Worlds /\ w1.view = w.view /\ Editor(w1.view) /\ x \in Closures
           /\ x.k = "Suspend" => w.view.active = None
           /\ x.k = "BeginEdit" => w.view.recovery = None
  BY RestsFacts, HeadFacts DEF Good, Fine, Steady, Apart

LEMMA StocksRun ==
    ASSUME NEW w, NEW J, Good(w, J), w.core.queue # <<>>, NEW w1, w1 = Behind(w), NEW x,
           x = Head(w.core.queue),
           NEW w2, w2 = Run(w1, x)
    PROVE  Stocks(w.view, w2.view)
<1>1. /\ w1 \in Worlds /\ w1.view = w.view /\ Editor(w1.view) /\ x \in Closures
      /\ (x.k = "Suspend" => w1.view.active = None)
      /\ (x.k = "BeginEdit" => w1.view.recovery = None)
  BY GoodBehind
<1>2. Lent(w1.view) BY <1>1 DEF Editor
<1>3. Stocks(w1.view, w1.view) BY DEF Stocks
<1>4. CASE x.k = "Sync"
  <2>1. x \in Snapshots /\ w2 = SyncView(w1, x) BY <1>1, <1>4, ClosureFields DEF Run
  <2>2. Except(w1.view, w2.view, {"flow", "windows"}) /\ Synced(w1.view, w2.view, x)
    BY <1>1, <2>1, SyncViewFacts
  <2> QED BY ZenonT(60), <1>1, <2>2, StocksSame DEF Except, Synced
<1>5. CASE x.k = "Suspend"
  <2>1. x.session \in Nat /\ w2 = Suspend(w1, x.session) BY <1>1, <1>5, ClosureFields DEF Run
  <2>2. \/ w2 = w1
        \/ w2 = Emit(w1, Ended(w1.core, x.session))
        \/ Except(w1.view, w2.view, {"registry", "recovery"})
    BY <1>1, <1>2, <1>5, <2>1, SuspendFacts
  <2>3. w2.view = w1.view \/ Except(w1.view, w2.view, {"registry", "recovery"})
    BY <1>1, <2>1, <2>2, EndedWorld
  <2> QED BY <1>1, <1>3, <2>3, StocksSame DEF Except
<1>6. CASE x.k = "Show"
  <2>1. x.session \in Nat /\ w2 = Show(w1, x.session) BY <1>1, <1>6, ClosureFields DEF Run
  <2>2. w2 = w1 \/ Except(w1.view, w2.view, {"host"}) BY <1>1, <2>1, ShowFacts
  <2> QED BY <1>1, <1>3, <2>2, StocksSame DEF Except
<1>7. CASE x.k = "Restore"
  <2>1. x.session \in Nat /\ w2 = Restore(w1, x.session) BY <1>1, <1>7, ClosureFields DEF Run
  <2>2. w2 = w1 \/ Except(w1.view, w2.view, {"registry", "recovery", "host"})
    BY <1>1, <2>1, RestoreFacts
  <2> QED BY <1>1, <1>3, <2>2, StocksSame DEF Except
<1>8. CASE x.k = "ShowPin"
  <2>1. x.source \in Sources /\ w2 = ShowPin(w1, x.source) BY <1>1, <1>8, ClosureFields DEF Run
  <2>2. w2 = w1 \/ Added(w1.view, w2.view, w1.view.next + 1, NewWindow(x.source),
                         EntryOf("pin", FirstOf(x.source)))
    BY <1>1, <2>1, ShowPinFacts
  <2> QED BY ZenonT(60), <1>1, <2>2 DEF Added, Stocks, Stocked
<1>9. CASE x.k \in Naming
  <2>1. x.id \in Nat BY <1>1, <1>9, ClosureFields
  <2>2. CASE x.k = "ClosePin" BY <1>1, <2>1, <2>2, StocksRequestClose DEF Run
  <2>3. CASE x.k = "EndEdit" BY <1>1, <1>2, <2>1, <2>3, ClosureFields, StocksEnd DEF Run
  <2>4. CASE x.k = "Present"
    BY <1>1, <1>3, <2>1, <2>4, ClosureFields, PresentFacts, StocksSame DEF Run, Except,
       Rewindowed
  <2>5. CASE x.k = "BeginEdit"
    <3>1. x.edit \in Nat /\ w2 = BeginEdit(w1, x.id, x.edit) BY <1>1, <2>5, ClosureFields DEF Run
    <3>2. PICK f : f = FreedOf(w1) OBVIOUS
    <3>3. IF w1.view.active = None THEN f = w1 ELSE EditTaken(w1, f, w1.view.active.id)
      BY <1>1, <1>2, <3>2, FreedFacts
    <3>4. f \in Worlds /\ Editor(f.view) /\ f.view.active = None /\ f.view.recovery = None
      BY ZenonT(60), <1>1, <2>5, <3>3, EditorReturned DEF EditTaken, Except
    <3>5. f.view.registry.editing = None BY <3>4 DEF Editor, Lent
    <3> QED BY <1>1, <1>2, <2>1, <2>5, <3>1, <3>2, <3>4, <3>5, StocksBegin
  <2> QED BY <1>9, <2>2, <2>3, <2>4, <2>5 DEF Naming
<1>10. x.k \in {"Sync", "Suspend", "Show", "Restore", "ShowPin"} \cup Naming BY <1>1, ClosureFields
<1> QED BY <1>4, <1>5, <1>6, <1>7, <1>8, <1>9, <1>10

----------------------------------------
(* The invariant, and the steps of the event loop. *)
Sure(c, v, J) == Safe(c, v, J) /\ Stocked(v)

LEMMA SureStep ==
    ASSUME Sure(core, view, jobs), NEW w, Good(w, jobs), Stocks(view, w.view), Do(w)
    PROVE  Sure(core', view', jobs')
  BY DoSafe DEF Sure, Safe, Stocks

LEMMA SureWorld ==
    ASSUME Sure(core, view, jobs)
    PROVE  /\ Good(World, jobs) /\ World.core = core /\ World.view = view /\ jobs \in SUBSET Jobs
           /\ World \in Worlds /\ Fine(World, jobs) /\ Lent(World.view) /\ Stocks(view, view)
  BY WorldGood DEF Sure, Good, Fine, Editor, Stocks

LEMMA RunPostedSure ==
    ASSUME Sure(core, view, jobs), RunPosted
    PROVE  Sure(core', view', jobs')
<1>1. Good(World, jobs) /\ World.core = core /\ World.view = view /\ jobs \in SUBSET Jobs
  BY SureWorld
<1>2. PICK w, w1, x, w2 : w = World /\ w1 = Behind(w) /\ x = Head(w.core.queue) /\ w2 = Run(w1, x)
  OBVIOUS
<1>3. w.core.queue # <<>> /\ Do(w2) BY <1>1, <1>2 DEF RunPosted, Behind
<1>4. Good(w2, jobs) BY <1>1, <1>2, <1>3, RunGood
<1>5. Stocks(w.view, w2.view) BY <1>1, <1>2, <1>3, StocksRun
<1> QED BY <1>1, <1>2, <1>3, <1>4, <1>5, SureStep

LEMMA FireSure ==
    ASSUME Sure(core, view, jobs), NEW timer, Fire(timer)
    PROVE  Sure(core', view', jobs')
<1>1. /\ Good(World, jobs) /\ World.core = core /\ World.view = view /\ jobs \in SUBSET Jobs
      /\ World \in Worlds /\ Lent(World.view)
  BY SureWorld
<1>2. PICK w, w1 : w = World /\ w1 = Dropping(w, timer) OBVIOUS
<1>3. PICK w2 : w2 = CASE timer.k = "shot failed"  -> Emit(w1, Ended(w1.core, timer.session))
                       [] timer.k = "region"       -> Emit(w1,
                                                           Selected(w1.core, timer.session,
                                                                    timer.bounds))
                       [] timer.k = "close window" -> CloseWindow(w1, timer.id)
                       [] timer.k = "edit failed"  ->
                            LET told == Emit(w1, EditEnded(w1.core, timer.id, timer.edit)) IN
                            End(told, timer.id, timer.edit)
  OBVIOUS
<1>4. timer \in w.view.timers /\ Do(w2) BY <1>1, <1>2, <1>3 DEF Fire, Dropping
<1>5. Good(w2, jobs) BY <1>1, <1>2, <1>3, <1>4, FireGood
<1>6. /\ w1 \in Worlds /\ w1.core = w.core /\ Except(w.view, w1.view, {"timers"})
      /\ timer \in Timers
  BY ZenonT(60), <1>1, <1>2, <1>4, FiredFacts DEF Dropping
<1>7. Stocks(w.view, w1.view) /\ Stocks(w1.view, w1.view) /\ Lent(w1.view)
  BY <1>1, <1>2, <1>6, StocksSame DEF Except, Lent, Stocks
<1>8. Stocks(w1.view, w2.view)
  <2>1. CASE timer.k = "shot failed" BY <1>3, <1>6, <1>7, <2>1, TimerFields, EndedWorld
  <2>2. CASE timer.k = "region"
    <3>1. PICK s, bounds : s = timer.session /\ bounds = timer.bounds OBVIOUS
    <3>2. w2 = Emit(w1, Selected(w1.core, s, bounds)) /\ s \in Nat /\ bounds \in Nat
      BY <1>3, <1>6, <2>2, <3>1, TimerFields
    <3>3. w2.view = w1.view BY ONLY <1>6, <3>2, SelectedWorld
    <3> QED BY <1>7, <3>3
  <2>3. CASE timer.k = "close window" BY <1>3, <1>6, <2>3, TimerFields, StocksCloseWindow
  <2>4. CASE timer.k = "edit failed"
    <3>1. PICK id, edit : id = timer.id /\ edit = timer.edit OBVIOUS
    <3>2. id \in Nat /\ edit \in Nat BY <1>6, <2>4, <3>1, TimerFields
    <3>3. PICK told : told = Emit(w1, EditEnded(w1.core, id, edit)) OBVIOUS
    <3>4. w2 = End(told, id, edit) BY <1>3, <2>4, <3>1, <3>3
    <3>5. told \in Worlds /\ told.view = w1.view BY ONLY <1>6, <3>2, <3>3, EditEndedWorld
    <3> QED BY <1>7, <3>2, <3>4, <3>5, StocksEnd
  <2>5. timer.k \in {"shot failed", "region", "close window", "edit failed"} BY <1>6, TimerFields
  <2> QED BY <2>1, <2>2, <2>3, <2>4, <2>5
<1>9. Stocks(view, w2.view) BY <1>1, <1>2, <1>7, <1>8 DEF Stocks
<1> QED BY <1>4, <1>5, <1>9, SureStep

\* The documents that wait are not touched by an event.
LEMMA StocksEmitted ==
    ASSUME NEW w, NEW w2, w2.view = w.view
    PROVE  Stocks(w.view, w2.view)
  BY DEF Stocks

LEMMA StocksDrawn ==
    ASSUME NEW w \in Worlds, NEW drawn \in BOOLEAN, NEW w2, w2 = WithDrawn(w, drawn)
    PROVE  Stocks(w.view, w2.view)
  BY SMTT(30), DrawnFacts, StocksSame DEF Except

LEMMA StocksShown ==
    ASSUME NEW w \in Worlds, NEW id \in DOMAIN w.view.windows,
           w.view.windows[id].phase = "Preparing",
           Stocked(w.view), NEW source \in Sources, ~ Has(w.core, id), id \in Nat,
           NEW w1, w1 = Showing(w, id),
           NEW w2, w2 = Emit(w1, Opened(w1.core, id, source)),
           NEW w3, w3 = Emit(w2, DocumentChanged(w2.core, id, w2.view.stored[id].published)),
           NEW w4, w4 = Emit(w3, Completed(w3.core, source[1], source[2], "saved"))
    PROVE  Stocks(w.view, w4.view)
<1>1. w1 \in Worlds /\ w1.core = w.core /\ Except(w.view, w1.view, {"windows"})
      /\ Rewindowed(w.view, w1.view, id, VisibleOf(w.view.windows[id]))
  BY ZenonT(60), VisibleFacts DEF Showing
<1>2. w2 \in Worlds /\ w2.view = w1.view BY SMTT(30), <1>1, OpenedWorld DEF Has
<1>3. PICK document : document = w2.view.stored[id].published BY SMTT(30)
<1>4. document \in Documents
  BY <1>1, <1>2, <1>3, WorldParts, StoreFacts DEF Except, Stocked, Entries
<1>5. w3 \in Worlds /\ w3.view = w2.view BY <1>2, <1>3, <1>4, DocumentWorld
<1>6. w4.view = w3.view
  <2>1. PICK s, operation, result : s = source[1] /\ operation = source[2] /\ result = "saved"
    OBVIOUS
  <2>2. s \in Nat /\ operation \in Nat /\ w4 = Emit(w3, Completed(w3.core, s, operation, result))
    BY SMTT(30), <2>1 DEF Sources
  <2> QED BY ONLY SMTT(30), <1>5, <2>2, CompletedWorld
<1>7. Stocks(w.view, w1.view) BY <1>1, StocksSame DEF Except, Rewindowed
<1> QED BY <1>2, <1>5, <1>6, <1>7 DEF Stocks

LEMMA StocksLost ==
    ASSUME NEW w \in Worlds, NEW id \in Nat, NEW source \in Sources, NEW w1,
           w1 = CloseWindow(w, id),
           NEW w2, w2 = Emit(w1, Completed(w1.core, source[1], source[2], "failed"))
    PROVE  Stocks(w.view, w2.view)
<1>1. w1 \in Worlds BY CloseWindowFacts
<1>2. PICK s, operation, result : s = source[1] /\ operation = source[2] /\ result = "failed"
  OBVIOUS
<1>3. s \in Nat /\ operation \in Nat /\ w2 = Emit(w1, Completed(w1.core, s, operation, result))
  BY <1>2 DEF Sources
<1>4. w2.view = w1.view BY ONLY SMTT(30), <1>1, <1>3, CompletedWorld
<1> QED BY <1>4, StocksCloseWindow

LEMMA WindowReadySure ==
    ASSUME Sure(core, view, jobs), NEW id, WindowReady(id)
    PROVE  Sure(core', view', jobs')
<1>1. PICK w, source : w = World /\ source = w.view.windows[id].source OBVIOUS
<1>2. Good(w, jobs) /\ w.core = core /\ w.view = view /\ jobs \in SUBSET Jobs /\ Stocked(w.view)
  BY <1>1, SureWorld DEF Sure
<1>3. id \in DOMAIN w.view.windows /\ w.view.windows[id].phase = "Preparing" BY <1>2 DEF WindowReady
<1>4. w \in Worlds /\ id \in Nat /\ source \in Sources /\ ~ Has(w.core, id)
  BY <1>1, <1>2, <1>3, PreparingFacts
<1>5. CASE ~ OutputCurrent(w, source)
  <2>1. PICK w2 : w2 = CloseWindow(w, id) OBVIOUS
  <2>2. Do(w2) BY <1>1, <1>2, <1>5, <2>1 DEF WindowReady
  <2>3. Good(w2, jobs) BY <1>1, <1>2, <1>3, <1>5, <2>1, UnwantedGood
  <2>4. Stocks(w.view, w2.view) BY <1>4, <2>1, StocksCloseWindow
  <2> QED BY <1>2, <2>2, <2>3, <2>4, SureStep
<1>6. PICK w1, w2, w3, w4 :
          /\ w1 = Showing(w, id) /\ w2 = Emit(w1, Opened(w1.core, id, source))
          /\ w3 = Emit(w2, DocumentChanged(w2.core, id, w2.view.stored[id].published))
          /\ w4 = Emit(w3, Completed(w3.core, source[1], source[2], "saved"))
  OBVIOUS
<1>7. CASE Do(w4)
  <2>1. id \in DOMAIN w.view.stored BY <1>2, <1>3 DEF Stocked
  <2>2. Good(w4, jobs)
    <3>1. /\ w1 = Showing(w, id) /\ w2 = Emit(w1, Opened(w1.core, id, source))
          /\ source = w.view.windows[id].source
      BY ZenonT(60), <1>1, <1>6
    <3>2. w3 = Emit(w2, DocumentChanged(w2.core, id, w2.view.stored[id].published)) BY <1>6
    <3>3. w4 = Emit(w3, Completed(w3.core, source[1], source[2], "saved")) BY <1>6
    <3>4. Good(w, jobs) /\ jobs \in SUBSET Jobs BY <1>2
    <3> QED BY ONLY ZenonT(60), <1>3, <2>1, <3>1, <3>2, <3>3, <3>4, WindowGood
  <2>3. Stocks(w.view, w4.view) BY ZenonT(60), <1>2, <1>3, <1>4, <1>6, StocksShown
  <2> QED BY <1>2, <1>7, <2>2, <2>3, SureStep
<1>8. PICK w5, w6 : w5 = CloseWindow(w, id)
          /\ w6 = Emit(w5, Completed(w5.core, source[1], source[2], "failed"))
  OBVIOUS
<1>9. CASE Do(w6) BY <1>1, <1>2, <1>3, <1>4, <1>8, <1>9, LostWindowGood, StocksLost, SureStep
<1>10. ~ OutputCurrent(w, source) \/ Do(w4) \/ Do(w6)
  BY ZenonT(60), <1>1, <1>2, <1>6, <1>8 DEF WindowReady, Showing
<1> QED BY <1>5, <1>7, <1>9, <1>10

LEMMA DrawnBoolean ==
    ASSUME NEW w \in Worlds, NEW P \in BOOLEAN
    PROVE  \E drawn \in BOOLEAN : drawn = (w.view.drawn /\ P)
  BY DEF Worlds, Views

LEMMA EditorFailsSure ==
    ASSUME Sure(core, view, jobs), EditorFails
    PROVE  Sure(core', view', jobs')
<1>1. PICK w, w1 : w = World /\ w1 = RegistryClose(w) OBVIOUS
<1>2. /\ Good(w, jobs) /\ w.core = core /\ w.view = view /\ jobs \in SUBSET Jobs
      /\ w \in Worlds /\ Fine(w, jobs)
  BY <1>1, SureWorld
<1>3. w1 \in Worlds BY <1>1, <1>2, RegistryCloseFacts
<1>4. PICK drawn \in BOOLEAN : drawn = (w1.view.drawn /\ w.view.registry.document # "desktop")
  BY <1>3, DrawnBoolean
<1>5. PICK w2 : w2 = WithDrawn(w1, drawn) OBVIOUS
<1>6. Do(w2) BY <1>1, <1>2, <1>4, <1>5 DEF EditorFails, WithDrawn
<1>7. Goes(w, w2, jobs) BY <1>1, <1>2, <1>4, <1>5, LostFine
<1>8. Stocks(w.view, w1.view) /\ Stocks(w1.view, w2.view)
  BY <1>1, <1>2, <1>3, <1>5, StocksClear, StocksDrawn
<1>9. Good(w2, jobs) /\ Stocks(view, w2.view) BY <1>2, <1>7, <1>8, GoodGoes DEF Stocks
<1> QED BY <1>6, <1>9, SureStep

LEMMA CloseToolbarSure ==
    ASSUME Sure(core, view, jobs), CloseToolbar
    PROVE  Sure(core', view', jobs')
<1>1. PICK w, w1 : w = World /\ w1 = CloseEditor(w) OBVIOUS
<1>2. /\ Good(w, jobs) /\ w.core = core /\ w.view = view /\ jobs \in SUBSET Jobs
      /\ w \in Worlds /\ Fine(w, jobs)
  BY <1>1, SureWorld
<1>3. w1 \in Worlds BY <1>1, <1>2, FinishFacts, RegistryCloseFacts DEF CloseEditor
<1>4. PICK drawn \in BOOLEAN : drawn = (w1.view.drawn /\ w.view.registry.document # "desktop")
  BY <1>3, DrawnBoolean
<1>5. PICK w2 : w2 = WithDrawn(w1, drawn) OBVIOUS
<1>6. Do(w2) BY <1>1, <1>2, <1>4, <1>5 DEF CloseToolbar, WithDrawn
<1>7. Goes(w, w2, jobs) BY <1>1, <1>2, <1>4, <1>5, CloseToolbarFine
<1>8. Stocks(w.view, w1.view) /\ Stocks(w1.view, w2.view)
  BY <1>1, <1>2, <1>3, <1>5, StocksClose, StocksDrawn
<1>9. Good(w2, jobs) /\ Stocks(view, w2.view) BY <1>2, <1>7, <1>8, GoodGoes DEF Stocks
<1> QED BY <1>6, <1>9, SureStep

LEMMA DrawSure ==
    ASSUME Sure(core, view, jobs), Draw
    PROVE  Sure(core', view', jobs')
<1>1. PICK w, w1 : w = World /\ w1 = Document(w, "desktop") OBVIOUS
<1>2. /\ Good(w, jobs) /\ w.core = core /\ w.view = view /\ jobs \in SUBSET Jobs
      /\ w \in Worlds /\ Fine(w, jobs)
  BY <1>1, SureWorld
<1>3. w1 \in Worlds /\ Except(w.view, w1.view, {"registry"}) BY <1>1, <1>2, DocumentSet
<1>4. PICK drawn : drawn = TRUE OBVIOUS
<1>5. PICK w2 : w2 = WithDrawn(w1, drawn) OBVIOUS
<1>6. Do(w2) /\ w.view.registry.open /\ w.view.registry.editing = None
  BY <1>1, <1>2, <1>4, <1>5 DEF Draw, WithDrawn
<1>7. drawn \in BOOLEAN BY <1>4
<1>8. Goes(w, w2, jobs) BY <1>1, <1>2, <1>5, <1>6, <1>7, DrawFine
<1>9. Stocks(w.view, w1.view) BY <1>3, StocksSame DEF Except
<1>10. Stocks(w1.view, w2.view) BY <1>3, <1>5, <1>7, StocksDrawn
<1>11. Good(w2, jobs) /\ Stocks(view, w2.view) BY <1>2, <1>8, <1>9, <1>10, GoodGoes DEF Stocks
<1> QED BY <1>6, <1>11, SureStep

LEMMA ToggleAnnotationSure ==
    ASSUME Sure(core, view, jobs), ToggleAnnotation
    PROVE  Sure(core', view', jobs')
<1>1. PICK w : w = World OBVIOUS
<1>2. /\ Good(w, jobs) /\ w.core = core /\ w.view = view /\ jobs \in SUBSET Jobs
      /\ w \in Worlds /\ Fine(w, jobs) /\ Lent(w.view)
  BY <1>1, SureWorld
<1>3. CASE w.view.active # None
  <2>1. PICK w2 : w2 = FinishNow(w) OBVIOUS
  <2>2. Do(w2) BY <1>1, <1>2, <1>3, <2>1 DEF ToggleAnnotation
  <2>3. Goes(w, w2, jobs) BY <1>2, <2>1, FinishNowFine
  <2>4. Good(w2, jobs) /\ Stocks(w.view, w2.view) BY <1>2, <2>1, <2>3, GoodGoes, StocksFinishNow
  <2> QED BY <1>2, <2>2, <2>4, SureStep
<1>4. CASE w.view.active = None /\ Busy(w)
  <2>1. PICK s, w2 : s = w.view.flow.session /\ w2 = Emit(w, Ended(w.core, s)) OBVIOUS
  <2>2. Do(w2) BY <1>1, <1>2, <1>4, <2>1 DEF ToggleAnnotation
  <2>3. s \in Nat BY <1>2, <2>1, WorldParts DEF Views, Shots
  <2>4. Good(w2, jobs) BY <1>2, <2>1, <2>3, EndedGood
  <2>5. Stocks(w.view, w2.view) BY <1>2, <2>1, <2>3, EndedWorld, StocksEmitted
  <2> QED BY <1>2, <2>2, <2>4, <2>5, SureStep
<1>5. CASE w.view.active = None /\ ~ Busy(w)
  <2>1. PICK w1 : w1 = Toggle(w) OBVIOUS
  <2>2. w1 \in Worlds BY <1>2, <1>5, <2>1, ToggleFacts, RegistryCloseFacts DEF CloseEditor
  <2>3. PICK drawn \in BOOLEAN : drawn = (w1.view.drawn /\ ~w.view.registry.open)
    BY <2>2, DrawnBoolean
  <2>4. PICK w2 : w2 = WithDrawn(w1, drawn) OBVIOUS
  <2>5. Do(w2) BY <1>1, <1>2, <1>5, <2>1, <2>3, <2>4 DEF ToggleAnnotation, WithDrawn
  <2>6. w.view.recovery = None BY <1>5 DEF Busy
  <2>7. Goes(w, w2, jobs) BY <1>2, <1>5, <2>1, <2>3, <2>4, <2>6, ToggleFine
  <2>8. Stocks(w.view, w1.view) /\ Stocks(w1.view, w2.view)
    BY <1>2, <2>1, <2>2, <2>4, StocksToggle, StocksDrawn
  <2>9. Good(w2, jobs) /\ Stocks(view, w2.view) BY <1>2, <2>7, <2>8, GoodGoes DEF Stocks
  <2> QED BY <2>5, <2>9, SureStep
<1> QED BY <1>3, <1>4, <1>5

LEMMA EmitView ==
    ASSUME NEW w \in Worlds, NEW a
    PROVE  Emit(w, a).view = w.view
  BY DEF Emit, Worlds

LEMMA CancelledSure ==
    ASSUME Sure(core, view, jobs), NEW s \in Nat, NEW w, w = World, Do(Emit(w, Ended(w.core, s)))
    PROVE  Sure(core', view', jobs')
<1>1. Good(w, jobs) /\ w.view = view /\ jobs \in SUBSET Jobs /\ w \in Worlds BY SureWorld
<1>2. PICK w2 : w2 = Emit(w, Ended(w.core, s)) OBVIOUS
<1>3. Good(w2, jobs) /\ Stocks(w.view, w2.view) BY <1>1, <1>2, EndedGood, EmitView, StocksEmitted
<1> QED BY <1>1, <1>2, <1>3, SureStep

LEMMA RequestShotSure ==
    ASSUME Sure(core, view, jobs), RequestShot
    PROVE  Sure(core', view', jobs')
<1>1. PICK w, w1 : w = World /\ w1 = FinishNow(w) OBVIOUS
<1>2. /\ Good(w, jobs) /\ w.core = core /\ w.view = view /\ jobs \in SUBSET Jobs
      /\ w \in Worlds /\ Fine(w, jobs) /\ Lent(w.view)
  BY <1>1, SureWorld
<1>3. PICK w2 : w2 = IF Busy(w1) \/ ~w1.view.registry.open THEN w1 ELSE Emit(w1, Requested(w1.core))
  OBVIOUS
<1>4. Do(w2) /\ w.core.queue = <<>> BY <1>1, <1>2, <1>3 DEF RequestShot, Input
<1>5. Good(w2, jobs) BY <1>1, <1>2, <1>3, <1>4, RequestShotGood
<1>6. Goes(w, w1, jobs) BY <1>1, <1>2, FinishNowFine
<1>7. w2.view = w1.view BY <1>3, <1>6, RequestedWorld DEF Goes
<1>8. Stocks(w.view, w1.view) BY <1>1, <1>2, StocksFinishNow
<1> QED BY <1>2, <1>4, <1>5, <1>7, <1>8, SureStep

LEMMA SelectRegionSure ==
    ASSUME Sure(core, view, jobs), SelectRegion
    PROVE  Sure(core', view', jobs')
<1>1. PICK w, s, bounds : w = World /\ s = w.view.host /\ bounds = 1 OBVIOUS
<1>2. PICK w1, w2, w3 : w1 = Emit(w, Selected(w.core, s, bounds)) /\ w2 = Region(w1, s)
          /\ w3 = Toggle(w2)
  OBVIOUS
<1>3. /\ Good(w, jobs) /\ w.core = core /\ w.view = view /\ jobs \in SUBSET Jobs
      /\ w \in Worlds /\ Lent(w.view)
  BY <1>1, SureWorld
<1>4. s # 0 /\ s \in Nat /\ bounds \in Nat BY <1>1, <1>3, WorldParts DEF SelectRegion, Views
<1>5. CASE Do(w3)
  <2>1. Good(w3, jobs) BY <1>1, <1>2, <1>3, <1>4, SelectRegionGood
  <2>2. w1 \in Worlds /\ w1.view = w.view BY ONLY <1>2, <1>3, <1>4, SelectedWorld
  <2>3. w.view.recovery # None BY <1>1, <1>3, <1>4 DEF Lent
  <2>4. w1.view.registry.document # "desktop" /\ w1.view.active = None BY <1>3, <2>2, <2>3 DEF Lent
  <2>5. LentRegion(w1.view, w3.view, s) BY <1>2, <1>4, <2>2, <2>4, RegionView
  <2>6. Stocks(w1.view, w3.view) BY <2>5, StocksSame DEF LentRegion, Except
  <2> QED BY <1>3, <1>5, <2>1, <2>2, <2>6, SureStep
<1>6. CASE Do(Emit(w, Ended(core, view.flow.session)))
  BY <1>1, <1>3, <1>6, WorldParts, CancelledSure DEF Views, Shots
<1>7. Do(w3) \/ Do(Emit(w, Ended(core, view.flow.session)))
  BY <1>1, <1>2, <1>3 DEF SelectRegion, Region
<1> QED BY <1>5, <1>6, <1>7

LEMMA DragRegionSure ==
    ASSUME Sure(core, view, jobs), DragRegion
    PROVE  Sure(core', view', jobs')
<1>1. PICK w, s : w = World /\ s = w.view.registry.editing.session OBVIOUS
<1>2. PICK timer, w1, w2 : /\ timer = [k |-> "region", session |-> s, bounds |-> 2]
                           /\ w1 = [w EXCEPT !.view.registry.editing.region = 2]
                           /\ w2 = Defer(w1, timer)
  OBVIOUS
<1>3. /\ Good(w, jobs) /\ w.core = core /\ w.view = view /\ jobs \in SUBSET Jobs /\ w \in Worlds
  BY <1>1, SureWorld
<1>4. Do(w2) /\ w.view.registry.editing # None /\ w.view.registry.editing.k = "shot"
  BY <1>1, <1>2, <1>3 DEF DragRegion, EditsShot
<1>5. Good(w2, jobs) BY <1>1, <1>2, <1>3, <1>4, DragGood
<1>6. w1 \in Worlds /\ Except(w.view, w1.view, {"registry"}) BY <1>2, <1>3, <1>4, DragFacts
<1>7. timer \in Timers BY <1>1, <1>2, <1>3, <1>4, WorldParts, StoreFacts DEF Edited, Timers
<1>8. Except(w1.view, w2.view, {"timers"}) BY <1>2, <1>6, <1>7, DeferFacts
<1>9. Stocks(w.view, w2.view) BY <1>6, <1>8, StocksSame DEF Except
<1> QED BY <1>3, <1>4, <1>5, <1>9, SureStep

LEMMA RequestOutputSure ==
    ASSUME Sure(core, view, jobs), NEW kind \in {"copy", "pin"}, RequestOutput(kind)
    PROVE  Sure(core', view', jobs')
<1>1. PICK w, s, operation, bounds : /\ w = World /\ s = w.view.flow.session
                                     /\ operation = w.view.flow.operation + 1
                                     /\ bounds = w.view.registry.editing.region
  OBVIOUS
<1>2. PICK w2 : w2 = Emit(w, OutputRequested(w.core, s, operation, kind, bounds)) OBVIOUS
<1>3. /\ Good(w, jobs) /\ w.core = core /\ w.view = view /\ jobs \in SUBSET Jobs /\ w \in Worlds
      /\ Fine(w, jobs)
  BY <1>1, SureWorld
<1>4. s \in Nat /\ operation \in Nat BY <1>1, <1>3, WorldParts DEF Views, Shots
<1>5. Do(w2) /\ kind \in Kinds BY <1>1, <1>2, <1>3 DEF RequestOutput, Kinds
<1>6. Good(w2, jobs) BY <1>2, <1>3, <1>4, <1>5, OutputGood
<1>7. w2.view = w.view BY <1>2, <1>3, EmitView
<1> QED BY <1>3, <1>5, <1>6, <1>7, StocksEmitted, SureStep

LEMMA ShownFacts ==
    ASSUME Sure(core, view, jobs), NEW id, Shown(id), NEW w, w = World
    PROVE  /\ Good(w, jobs) /\ w.core = core /\ w.view = view /\ jobs \in SUBSET Jobs
           /\ w \in Worlds
           /\ id \in DOMAIN w.view.windows /\ w.view.windows[id].phase = "Visible"
           /\ id \in Nat /\ w.view.recovery = None
  BY SureWorld, VisibleKnown DEF Shown, Busy

LEMMA AnnotatePinSure ==
    ASSUME Sure(core, view, jobs), NEW id, AnnotatePin(id)
    PROVE  Sure(core', view', jobs')
<1>1. PICK w, w2 : w = World /\ w2 = Emit(w, EditRequested(w.core, id)) OBVIOUS
<1>2. Shown(id) BY DEF AnnotatePin
<1>3. /\ Good(w, jobs) /\ w.core = core /\ w.view = view /\ jobs \in SUBSET Jobs /\ w \in Worlds
      /\ id \in Nat /\ w.view.recovery = None
  BY <1>1, <1>2, ShownFacts
<1>4. Do(w2) /\ w.core.queue = <<>> BY <1>1, <1>3 DEF AnnotatePin, Input
<1>5. Good(w2, jobs) BY <1>1, <1>3, <1>4, AnnotateGood
<1> QED BY <1>1, <1>3, <1>4, <1>5, EmitView, StocksEmitted, SureStep

LEMMA HidePinSure ==
    ASSUME Sure(core, view, jobs), NEW id, HidePin(id)
    PROVE  Sure(core', view', jobs')
<1>1. PICK w : w = World OBVIOUS
<1>2. Shown(id) BY DEF HidePin
<1>3. /\ Good(w, jobs) /\ w.core = core /\ w.view = view /\ jobs \in SUBSET Jobs /\ w \in Worlds
      /\ id \in DOMAIN w.view.windows /\ w.view.windows[id].phase = "Visible"
  BY <1>1, <1>2, ShownFacts
<1>4. PICK hidden \in BOOLEAN : Do(Emit(w, VisibilityChanged(w.core, id, hidden)))
  BY <1>1, <1>3 DEF HidePin
<1>5. PICK w2 : w2 = Emit(w, VisibilityChanged(w.core, id, hidden)) OBVIOUS
<1>6. Good(w2, jobs) BY <1>3, <1>5, HideGood
<1> QED BY <1>3, <1>4, <1>5, <1>6, EmitView, StocksEmitted, SureStep

LEMMA OutputPinSure ==
    ASSUME Sure(core, view, jobs), NEW id, OutputPin(id)
    PROVE  Sure(core', view', jobs')
<1>1. PICK w : w = World OBVIOUS
<1>2. Shown(id) BY DEF OutputPin
<1>3. /\ Good(w, jobs) /\ w.core = core /\ w.view = view /\ jobs \in SUBSET Jobs /\ w \in Worlds
      /\ id \in DOMAIN w.view.windows /\ w.view.windows[id].phase = "Visible" /\ id \in Nat
  BY <1>1, <1>2, ShownFacts
<1>4. PICK w1 : w1 = IF w.view.active # None /\ w.view.active.id = id THEN Publish(w, id) ELSE w
  OBVIOUS
<1>5. PICK w2 : w2 = Emit(w1, PinOutputRequested(w1.core, id)) OBVIOUS
<1>6. w1 = Publish(w, id) \/ w1 = w BY <1>4
<1>7. Do(w2) BY <1>1, <1>3, <1>4, <1>5 DEF OutputPin
<1>8. Good(w2, jobs) BY <1>3, <1>5, <1>6, PinOutputGood
<1>9. Stocks(w.view, w1.view) BY <1>3, <1>6, StocksPublish DEF Stocks
<1>10. w2.view = w1.view BY <1>3, <1>5, <1>6, PublishFacts, EmitView
<1> QED BY <1>3, <1>7, <1>8, <1>9, <1>10, SureStep

LEMMA ClosePinSure ==
    ASSUME Sure(core, view, jobs), NEW id, ClosePin(id)
    PROVE  Sure(core', view', jobs')
<1>1. PICK w, w2 : w = World /\ w2 = RequestClose(w, id) OBVIOUS
<1>2. Shown(id) BY DEF ClosePin
<1>3. /\ Good(w, jobs) /\ w.view = view /\ jobs \in SUBSET Jobs /\ w \in Worlds
      /\ id \in DOMAIN w.view.windows /\ w.view.windows[id].phase = "Visible" /\ id \in Nat
  BY <1>1, <1>2, ShownFacts
<1>4. Good(w2, jobs) /\ Stocks(w.view, w2.view) BY <1>1, <1>3, ClosePinGood, StocksRequestClose
<1> QED BY <1>1, <1>3, <1>4, SureStep DEF ClosePin

LEMMA NextSure ==
    ASSUME Sure(core, view, jobs), [Next]_vars
    PROVE  Sure(core', view', jobs')
<1>1. CASE EventLoop
  BY <1>1, RunPostedSure, FireSure, WindowReadySure, EditorFailsSure DEF EventLoop
<1>2. CASE User
  <2>1. CASE ToggleAnnotation \/ CloseToolbar \/ Draw
    BY <2>1, ToggleAnnotationSure, CloseToolbarSure, DrawSure
  <2>2. CASE RequestShot \/ SelectRegion \/ DragRegion
    BY <2>2, RequestShotSure, SelectRegionSure, DragRegionSure
  <2>3. CASE CancelShot
    <3>1. PICK w, s : w = World /\ s = core.shot.session OBVIOUS
    <3>2. Do(Emit(w, Ended(w.core, s))) BY <2>3, <3>1 DEF CancelShot, World
    <3>3. s \in Nat BY <3>1 DEF Sure, Safe, Cores, Drafts, Shots
    <3> QED BY <3>1, <3>2, <3>3, CancelledSure
  <2>4. CASE \E kind \in {"copy", "pin"} : RequestOutput(kind) BY <2>4, RequestOutputSure
  <2>5. CASE \E id \in DOMAIN view.windows :
            AnnotatePin(id) \/ HidePin(id) \/ OutputPin(id) \/ ClosePin(id)
    BY <2>5, AnnotatePinSure, HidePinSure, OutputPinSure, ClosePinSure
  <2> QED BY <1>2, <2>1, <2>2, <2>3, <2>4, <2>5 DEF User
<1>3. CASE \E job \in jobs : Worker(job)
  <2>1. PICK job \in jobs : Worker(job) BY <1>3
  <2>2. Safe(core', view', jobs') BY <2>1, WorkerSafe DEF Sure
  <2>3. view' = view
    BY <2>1 DEF Worker, PrepareShot, WriteShot, PinShot, PreviewPin, WritePin, ExecuteCommands,
       Dispatch
  <2> QED BY <2>2, <2>3 DEF Sure
<1>4. CASE UNCHANGED vars BY <1>4 DEF vars
<1> QED BY <1>1, <1>2, <1>3, <1>4 DEF Next

----------------------------------------
(* The start, and what the invariant says of the properties. *)
LEMMA InitSure ==
    ASSUME Init
    PROVE  Sure(core, view, jobs)
<1>1. /\ Empty \in PinTables /\ Empty \in Tables /\ Empty \in Store /\ Empty \in WindowTables
      /\ DOMAIN Empty = {}
  <2>1. \A V : Empty \in [{} -> V] BY DEF Empty
  <2>2. DOMAIN Empty = {} /\ IsFiniteSet(DOMAIN Empty) BY FS_EmptySet DEF Empty
  <2>3. \A V : Empty \in TableOf(V) BY <2>1 DEF TableOf
  <2>4. Empty \in UNION {[ids -> Pins] : ids \in SUBSET Nat} BY <2>1
  <2> QED BY <2>2, <2>3, <2>4 DEF PinTables, Tables, Store, WindowTables
<1>2. PICK q, shot : q = <<>> /\ shot = [session |-> 0, phase |-> "Idle", operation |-> 0,
                                         bounds |-> 0]
  OBVIOUS
<1>3. q \in Seq(Closures) /\ shot \in Shots BY <1>2 DEF Shots
<1>4. core \in Cores /\ core.spawned = {} /\ core.queue = <<>> /\ core.shot = shot
          /\ core.pins = Empty
      /\ core.held = None /\ core.pending = {} /\ core.images = {}
  BY <1>1, <1>2, <1>3 DEF Init, Cores, Drafts
<1>5. /\ view \in Views /\ view.flow = core.shot /\ view.recovery = None /\ view.active = None
      /\ view.stored = Empty /\ view.windows = Empty /\ view.host = 0 /\ view.timers = {}
      /\ ~ view.drawn
      /\ view.registry.editing = None /\ view.registry.capture = "live" /\ view.next = 0
  <2>1. PICK r : r = [document |-> "blank", open |-> FALSE, editing |-> None, capture |-> "live"]
    OBVIOUS
  <2>2. r \in Registries /\ r.editing = None /\ r.capture = "live"
    BY <2>1 DEF Registries, Contents, Captures
  <2> QED BY <1>1, <1>2, <1>3, <1>4, <2>1, <2>2 DEF Init, Views
<1>6. jobs = {} /\ DOMAIN core.queue = {} /\ Len(core.queue) = 0 /\ ~ Active(core)
  BY <1>2, <1>4 DEF Init, Active
<1>7. \A k : At(core.queue, k) = {} BY <1>6 DEF At
<1>8. Flowing(core, view, jobs)
  <2>1. FlowKnown(core, view) BY <1>5, <1>7 DEF FlowKnown, Sees, Syncs
  <2> QED
    BY <1>1, <1>5, <1>6, <1>7, <2>1 DEF Flowing, SuspendKnown, RecoveryKnown, RestoreOld, ShowOld,
       HostKnown,
         EditingKnown, SourcesOld
<1>9. Working(core, view, jobs)
  BY <1>2, <1>4, <1>5, <1>6, <1>7 DEF Working, HeldKnown, Loaned, RestoreDue, ShowSees, PrepareWork,
     SelectWork,
       EditorWork, Active
<1>10. Outputs(core, view, jobs) BY <1>2, <1>4 DEF Outputs, OutputWork, OutputKept
<1>11. Apart(core.queue, view) /\ ImagesKept(core) /\ IdsKnown(core, view, jobs)
  BY <1>1, <1>4, <1>5, <1>6, <1>7 DEF Apart, ImagesKept, IdsKnown
<1>12. Editor(view) BY <1>1, <1>5 DEF Editor, Lent, DrawnAt
<1> QED
  BY <1>1, <1>4, <1>5, <1>6, <1>8, <1>9, <1>10, <1>11, <1>12 DEF Sure, Safe, Sound, Steady, Stocked

\* The inductive invariant of the screenshots and the pins: the types, what the queue of the event
\* loop, the timers and the workers still hold for the phase of the screenshot, and one document
\* for each window (screenshot.rs, pinned_image.rs, annotation/screenshot.rs, pin_editor.rs).
THEOREM ScreenshotsSure == Spec => []Sure(core, view, jobs)
<1>1. Init => Sure(core, view, jobs) BY InitSure
<1>2. Sure(core, view, jobs) /\ [Next]_vars => Sure(core, view, jobs)' BY NextSure
<1> QED BY <1>1, <1>2, PTL DEF Spec

\* The states of the core, the event loop and the workers stay what the code declares, whatever the
\* bounds: no number, document, window or closure of another kind ever comes to be.
THEOREM ScreenshotsTyped == Spec => []TypeOK
<1>1. Sure(core, view, jobs) => TypeOK BY DEF Sure, Safe, TypeOK
<1> QED BY <1>1, ScreenshotsSure, PTL

LEMMA IdleKnows ==
    ASSUME Sure(core, view, jobs), Quiet
    PROVE  view.flow = core.shot
  BY DEF Sure, Safe, Quiet, Syncs, At, Sound, Steady, Flowing, FlowKnown, Sees

LEMMA SureDesktop ==
    ASSUME Sure(core, view, jobs)
    PROVE  DesktopKept
<1>1. view \in Views /\ Lent(view) /\ DrawnAt(view) BY DEF Sure, Safe, Sound, Editor
<1>2. view.drawn => 1 = Cardinality(Desktops(view))
  <2>1. SUFFICES ASSUME view.drawn PROVE 1 = Cardinality(Desktops(view)) OBVIOUS
  <2>2. PICK place : Desktops(view) = {place} BY <1>1, <2>1, DrawnAtMeans DEF OnePlace
  <2> QED BY <2>2, FS_Singleton
<1>3. Idle => /\ view.registry.capture = "live"
              /\ view.drawn => view.registry.document = "desktop"
  <2>1. SUFFICES ASSUME Idle PROVE view.recovery = None /\ view.active = None
    BY <1>1 DEF Lent, DrawnAt
  <2>2. World.view = view BY DEF World
  <2> QED BY <2>1, <2>2 DEF Idle, Busy
<1> QED BY <1>2, <1>3 DEF DesktopKept, Desktops

LEMMA SurePixels ==
    ASSUME Sure(core, view, jobs)
    PROVE  PinKeepsPixels
  BY IdleKnows DEF Idle, Busy, World, Active, Sure, Safe, Sound, Steady, Working, PinKeepsPixels,
     HeldKnown, ImagesKept

LEMMA SureWork ==
    ASSUME Sure(core, view, jobs)
    PROVE  ShotHasWork
<1>1. PICK c, v, s : c = core /\ v = view /\ s = c.shot.session OBVIOUS
<1>2. /\ PrepareWork(c, jobs) /\ SelectWork(c, v, jobs) /\ EditorWork(c, v)
      /\ OutputWork(c, v, jobs) /\ c \in Cores
  BY <1>1 DEF Sure, Safe, Sound, Steady, Working, Outputs
<1>3. c.shot.phase \in {"Idle", "Preparing", "Selecting", "Editing", "Output"}
  BY <1>2 DEF Cores, Drafts, Shots
<1>4. c.shot.phase = "Preparing" => \E job \in jobs : job.k = "prepare" /\ job.session = s
  BY <1>1, <1>2 DEF PrepareWork
<1>5. c.shot.phase = "Selecting" =>
          \/ \E job \in jobs : job.k = "commands"
          \/ \E i \in DOMAIN c.queue : c.queue[i].k = "Show"
          \/ v.host = s
  BY <1>1, <1>2 DEF SelectWork, Ordered, At
<1>6. c.shot.phase = "Editing" =>
          \/ \E timer \in v.timers : timer.k = "shot failed" /\ timer.session = s
          \/ /\ v.registry.editing # None /\ v.registry.editing.k = "shot"
             /\ v.registry.editing.session = s /\ v.registry.open
  BY <1>1, <1>2 DEF EditorWork
<1>7. c.shot.phase = "Output" =>
          \/ \E job \in jobs : job.k = "output" /\ job.session = s
          \/ \E i \in DOMAIN c.queue : c.queue[i].k = "ShowPin"
          \/ \E id \in DOMAIN v.windows :
               v.windows[id].phase = "Preparing" /\ v.windows[id].source = <<s, c.shot.operation>>
  BY <1>1, <1>2 DEF OutputWork, Source, At
<1> QED BY ZenonT(60), <1>1, <1>3, <1>4, <1>5, <1>6, <1>7 DEF ShotHasWork, EditsShot

\* What the event loop knows of the screenshot once everything has arrived: the state of the core;
\* the document of the desktop is put aside exactly while a screenshot is active; and every window
\* has a document.
ScreenAgrees ==
    Quiet => /\ view.flow = core.shot
             /\ view.recovery # None <=> Active(core)
             /\ DOMAIN view.stored = DOMAIN view.windows

LEMMA SureAgrees ==
    ASSUME Sure(core, view, jobs)
    PROVE  ScreenAgrees
<1>1. SUFFICES ASSUME Quiet
               PROVE  /\ view.flow = core.shot
                      /\ view.recovery # None <=> Active(core)
                      /\ DOMAIN view.stored = DOMAIN view.windows
  BY DEF ScreenAgrees
<1>2. view.flow = core.shot BY <1>1, IdleKnows
<1>3. DOMAIN view.stored = DOMAIN view.windows BY DEF Sure, Stocked
<1>4. Loaned(core, view) /\ RestoreDue(core, view, jobs) BY DEF Sure, Safe, Sound, Steady, Working
<1>5. \A k : At(core.queue, k) = {} BY <1>1 DEF Quiet, At
<1>6. ~ Ordered(jobs, "Restore", core.shot.session) BY <1>1 DEF Quiet, Ordered
<1> QED BY <1>2, <1>3, <1>4, <1>5, <1>6 DEF Loaned, RestoreDue

\* What is drawn on the desktop is in one place, and in the editor again with the live capture once
\* screenshot and pin are over: suspend and restore (annotation/screenshot.rs), begin and end
\* (annotation/pin_editor.rs) lose or double it in no order of closures, timers and workers.
THEOREM DesktopIsKept == Spec => []DesktopKept
<1>1. Sure(core, view, jobs) => DesktopKept BY SureDesktop
<1> QED BY <1>1, ScreenshotsSure, PTL

\* The runtime keeps the pixels of exactly the pins the core knows, and none of a finished
\* screenshot (ScreenshotRuntime::sync, sync_pins and execute_pin, app/screenshot.rs).
THEOREM PixelsFollowPins == Spec => []PinKeepsPixels
<1>1. Sure(core, view, jobs) => PinKeepsPixels BY SurePixels
<1> QED BY <1>1, ScreenshotsSure, PTL

\* A screenshot waits only for something that is under way or in front of the user: a worker, a
\* closure, a timer, the selection, the editor or a window (reduce of domain/screenshot.rs with
\* what the event loop and the workers answer it).
THEOREM ShotsHaveWork == Spec => []ShotHasWork
<1>1. Sure(core, view, jobs) => ShotHasWork BY SureWork
<1> QED BY <1>1, ScreenshotsSure, PTL

\* Once nothing is on the way, the event loop and the core agree on the screenshot: the flow it
\* follows and the desktop's document it put aside (sync_outputs, suspend, restore).
THEOREM ScreenIsKnown == Spec => []ScreenAgrees
<1>1. Sure(core, view, jobs) => ScreenAgrees BY SureAgrees
<1> QED BY <1>1, ScreenshotsSure, PTL

========================================
