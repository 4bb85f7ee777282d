---------------------- MODULE TranslationSessionsProofs ----------------------
(***************************************************************************)
(* Theorems about TranslationSessions, for any number of tasks, requests   *)
(* and gestures.  The reducer is a set of operators from state to state,   *)
(* and each of them is described once: that it keeps GoodState, which      *)
(* implies OnePassivePopup, and by a relation of the two states that the    *)
(* other invariants need.  WorkInv relates the windows to the workers and   *)
(* to the commands the threads have still to execute; QueueInv relates the  *)
(* popups to the commands that show and hide their windows.                *)
(***************************************************************************)
EXTENDS TranslationSessions, TLAPS

\* The states of the reducer in which every field has its type, popups are numbered
\* and at most the active one is unpinned.
StateRecord(sessions) ==
    [current : {None} \cup Tasks, main : MainView, sessions : {sessions}, active : Nat,
     nextTask : 0..MaxTasks, nextSession : Nat, ocr : Ocr, toolbar : Toolbar]

IsState(s) ==
    /\ s \in StateRecord(s.sessions)
    /\ s.sessions \in [Live(s) -> Session]
    /\ Live(s) \subseteq 1..s.nextSession

OnePassive(s) ==
    /\ \A i \in Passive(s) : i = s.active
    /\ s.active # None => s.active \in Passive(s)

GoodState(s) == IsState(s) /\ OnePassive(s)

\* The fields of a good state.
LEMMA Fields ==
    ASSUME NEW s, GoodState(s)
    PROVE  /\ s \in StateRecord(s.sessions)
           /\ s.current \in {None} \cup Tasks /\ s.main \in MainView
           /\ s.active \in Nat /\ s.nextTask \in 0..MaxTasks /\ s.nextSession \in Nat
           /\ s.ocr \in Ocr /\ s.toolbar \in Toolbar
           /\ s.sessions \in [Live(s) -> Session] /\ Live(s) \subseteq 1..s.nextSession
           /\ OnePassive(s)
BY DEF GoodState, IsState, StateRecord

\* The phases the reducer gives to windows and to OCR.
LEMMA PhaseNames ==
    /\ {"Idle", "Capturing", "Translating", "Success", "NoSelection", "Error"} \subseteq Phases
    /\ {"Idle", "Checking", "DownloadRequired", "Downloading", "Capturing", "Recognizing",
        "Translating", "Error"} \subseteq OcrPhases
BY DEF Phases, OcrPhases

\* The main window in another phase.
LEMMA MainChange ==
    ASSUME NEW main \in MainView, NEW phase \in Phases, NEW source \in {None} \cup Tasks,
           NEW result \in {None} \cup Tasks
    PROVE  [main EXCEPT !.phase = phase, !.source = source, !.result = result] \in MainView
BY DEF MainView

\* A task begins in the main window.
LEMMA BeginTaskGood ==
    ASSUME NEW s, GoodState(s), s.nextTask < MaxTasks, NEW phase \in Phases,
           NEW source \in {None} \cup Tasks
    PROVE  /\ GoodState(BeginTask(s, phase, source))
           /\ BeginTask(s, phase, source).current \in Tasks
           /\ BeginTask(s, phase, source).nextTask = s.nextTask + 1
<1> DEFINE r == BeginTask(s, phase, source)
<1>1. s.nextTask + 1 \in Tasks /\ s.nextTask + 1 \in 0..MaxTasks
  BY Fields, MaxTasksAssumption DEF Tasks
<1>2. [phase |-> phase, source |-> source, result |-> None] \in MainView BY DEF MainView
<1>3. /\ r.sessions = s.sessions /\ r.active = s.active /\ r.nextSession = s.nextSession
      /\ r.nextTask = s.nextTask + 1 /\ r.current = s.nextTask + 1
  BY DEF BeginTask, GoodState, IsState
<1>4. r \in StateRecord(s.sessions) BY <1>1, <1>2 DEF BeginTask, GoodState, IsState, StateRecord
<1> QED BY <1>1, <1>3, <1>4 DEF GoodState, IsState, OnePassive, Live, Passive

\* A popup is made or reused: it becomes the one unpinned popup.
LEMMA PreparePopupGood ==
    ASSUME NEW s, GoodState(s), NEW phase \in Phases, NEW task \in {None} \cup Tasks,
           NEW source \in {None} \cup Tasks
    PROVE  /\ GoodState(PreparePopup(s, phase, task, source))
           /\ PreparePopup(s, phase, task, source).active \in Sessions
<1> DEFINE id  == PopupFor(s)
           new == [phase |-> phase, pinned |-> FALSE, task |-> task, source |-> source,
                   result |-> None]
           r   == PreparePopup(s, phase, task, source)
<1>1. /\ s.active \in Passive(s) => id = s.active
      /\ s.active \notin Passive(s) => id = s.nextSession + 1 /\ Passive(s) = {}
  BY DEF PopupFor, GoodState, OnePassive
<1>2. s.nextSession \in Nat /\ id \in Sessions /\ id \in 1..(s.nextSession + 1)
  BY <1>1, Fields DEF Sessions, Passive, None
<1>3. new \in Session BY DEF Session, None
<1>4. /\ r.sessions = [i \in Live(s) \cup {id} |-> IF i = id THEN new ELSE s.sessions[i]]
      /\ r.active = id
      /\ r.nextSession = IF id > s.nextSession THEN id ELSE s.nextSession
      /\ Live(r) = Live(s) \cup {id}
  BY DEF PreparePopup, GoodState, IsState, Live
<1>5. r \in StateRecord(r.sessions)
  BY <1>2, <1>4 DEF PreparePopup, GoodState, IsState, StateRecord, Sessions
<1>5a. IsState(r)
  BY <1>2, <1>3, <1>4, <1>5 DEF GoodState, IsState
<1>6. Passive(r) = {id} BY <1>1, <1>4 DEF Passive, GoodState, OnePassive, Live
<1> QED BY <1>2, <1>4, <1>5a, <1>6 DEF GoodState, OnePassive

\* A popup that closes leaves the active slot.
LEMMA ClosePopupGood ==
    ASSUME NEW s, GoodState(s), NEW id
    PROVE  GoodState(ClosePopup(s, id)) /\ ClosePopup(s, id).nextTask = s.nextTask
<1> DEFINE r == ClosePopup(s, id)
<1>1. /\ r.sessions = [i \in Live(s) \ {id} |-> s.sessions[i]]
      /\ r.active = IF s.active = id THEN None ELSE s.active
      /\ r.nextSession = s.nextSession /\ r.nextTask = s.nextTask
      /\ Live(r) = Live(s) \ {id}
  BY DEF ClosePopup, Without, GoodState, IsState, Live
<1>2. /\ s.ocr \in Ocr /\ s.main \in MainView /\ s.current \in {None} \cup Tasks
      /\ s \in StateRecord(s.sessions)
  BY Fields
<1>3. [phase |-> "Idle", popup |-> None, generation |-> s.ocr.generation + 1] \in Ocr
  BY <1>2, PhaseNames DEF Ocr
<1>3a. [s.main EXCEPT !.phase = "Idle", !.result = None] \in MainView
  BY <1>2, PhaseNames DEF MainView
<1>4a. r \in StateRecord(r.sessions)
  BY <1>1, <1>2, <1>3, <1>3a DEF ClosePopup, StateRecord, None
<1>4b. IsState(r)
  BY <1>1, <1>4a DEF GoodState, IsState
<1>4. Passive(r) = Passive(s) \ {id} BY <1>1 DEF Passive, GoodState, IsState, Live
<1> QED BY <1>1, <1>4, <1>4b DEF GoodState, OnePassive, None

\* A request in a popup: it waits for a new task.
LEMMA TranslateInGood ==
    ASSUME NEW s, GoodState(s), NEW id, s.nextTask < MaxTasks
    PROVE  /\ GoodState(TranslateIn(s, id))
           /\ id \in Live(s) => TranslateIn(s, id).nextTask = s.nextTask + 1
<1> DEFINE t == s.nextTask + 1
           new == [s.sessions[id] EXCEPT !.phase = "Translating", !.source = t,
                                         !.result = None, !.task = t]
           r == [s EXCEPT !.nextTask = t, !.sessions[id] = new]
<1>0. t \in Tasks /\ t \in 0..MaxTasks BY Fields, MaxTasksAssumption DEF Tasks
<1>1. CASE id \in Live(s)
  <2>1. new \in Session /\ new.pinned = s.sessions[id].pinned
    <3>1. s.sessions[id] \in Session BY <1>1, Fields
    <3>2. "Translating" \in Phases /\ None \in {None} \cup Tasks BY PhaseNames
    <3> QED BY <1>0, <3>1, <3>2 DEF Session
  <2>2. /\ r.sessions = [s.sessions EXCEPT ![id] = new] /\ r.active = s.active
        /\ r.nextSession = s.nextSession /\ r.nextTask = t
    BY Fields DEF StateRecord
  <2>3. r \in StateRecord(r.sessions) BY ZenonT(60), <1>0, Fields DEF StateRecord
  <2>4. r.sessions \in [Live(s) -> Session] /\ Live(r) = Live(s)
    <3>1. s.sessions \in [Live(s) -> Session] BY Fields
    <3>2. \A x : x \in Session => [s.sessions EXCEPT ![id] = x] \in [Live(s) -> Session] BY <3>1
    <3>3. r.sessions \in [Live(s) -> Session] BY <2>1, <2>2, <3>2
    <3> QED BY <3>3 DEF Live
  <2>5. Passive(r) = Passive(s) BY <2>1, <2>2, <2>4, Fields DEF Passive
  <2>6. GoodState(r) BY <2>2, <2>3, <2>4, <2>5, Fields DEF GoodState, IsState, OnePassive
  <2>7. TranslateIn(s, id) = r BY <1>1 DEF TranslateIn
  <2> QED BY <2>2, <2>6, <2>7
<1>2. CASE id \notin Live(s) BY <1>2 DEF TranslateIn
<1> QED BY <1>1, <1>2

\* One popup is changed, but not its pin.
LEMMA PopupChangeGood ==
    ASSUME NEW s, GoodState(s), NEW f \in [Live(s) -> Session],
           \A i \in Live(s) : f[i].pinned = s.sessions[i].pinned
    PROVE  GoodState([s EXCEPT !.sessions = f])
<1> DEFINE r == [s EXCEPT !.sessions = f]
<1>1. /\ r.sessions = f /\ r.active = s.active /\ r.nextSession = s.nextSession
      /\ r \in StateRecord(f)
  BY Fields DEF StateRecord
<1>2. Live(r) = Live(s) /\ Passive(r) = Passive(s) BY <1>1, Fields DEF Live, Passive
<1> QED BY <1>1, <1>2, Fields DEF GoodState, IsState, OnePassive

\* What is not about popups changes.
LEMMA OtherChangeGood ==
    ASSUME NEW s, GoodState(s), NEW current \in {None} \cup Tasks, NEW main \in MainView,
           NEW ocr \in Ocr, NEW toolbar \in Toolbar
    PROVE  GoodState([s EXCEPT !.current = current, !.main = main, !.ocr = ocr,
                               !.toolbar = toolbar])
<1> DEFINE r == [s EXCEPT !.current = current, !.main = main, !.ocr = ocr, !.toolbar = toolbar]
<1>1. s \in StateRecord(s.sessions) BY Fields
<1>2. r.sessions = s.sessions /\ r.active = s.active /\ r.nextSession = s.nextSession
  BY <1>1 DEF StateRecord
<1>3. r \in StateRecord(s.sessions) BY <1>1 DEF StateRecord
<1> QED BY <1>2, <1>3, Fields DEF GoodState, IsState, OnePassive, Live, Passive

\* The main window changes, and the task it waits for.
LEMMA MainOnlyGood ==
    ASSUME NEW s, GoodState(s), NEW current \in {None} \cup Tasks, NEW main \in MainView
    PROVE  GoodState([s EXCEPT !.current = current, !.main = main])
<1>1. [s EXCEPT !.current = current, !.main = main] =
      [s EXCEPT !.current = current, !.main = main, !.ocr = s.ocr, !.toolbar = s.toolbar]
  BY Fields DEF StateRecord
<1>2. s.ocr \in Ocr /\ s.toolbar \in Toolbar BY Fields
<1>3. GoodState([s EXCEPT !.current = current, !.main = main, !.ocr = s.ocr,
                          !.toolbar = s.toolbar])
  BY <1>2, OtherChangeGood
<1> QED BY <1>1, <1>3, Zenon

\* A report of task t changes only views that wait for it, and no pin.
LEMMA ReportGood ==
    ASSUME NEW s, GoodState(s), NEW t \in Tasks,
           NEW event \in {"started", "progress", "finished", "failed"}, NEW session
    PROVE  /\ GoodState(Report(s, t, event, session))
           /\ Report(s, t, event, session).nextTask = s.nextTask
<1> DEFINE Waits(i) == /\ s.sessions[i].task = t
                       /\ event = "started" /\ session = None => s.current = t
           InSession(r) == [Reported(r, t, event) EXCEPT !.task = IF Ends(event) THEN None ELSE @]
           f == [i \in Live(s) |-> IF Waits(i) THEN InSession(s.sessions[i]) ELSE s.sessions[i]]
           current == IF s.current = t /\ Ends(event) THEN None ELSE s.current
           main == IF s.current = t THEN Reported(s.main, t, event) ELSE s.main
           phase == IF /\ Ends(event) /\ session \in Live(s) /\ Waits(session)
                       /\ s.ocr.popup = session /\ s.ocr.phase = "Translating"
                    THEN IF event = "finished" THEN "Idle" ELSE "Error"
                    ELSE s.ocr.phase
           ocr == [s.ocr EXCEPT !.phase = phase]
           p == [s EXCEPT !.sessions = f]
           r == [p EXCEPT !.current = current, !.main = main, !.ocr = ocr, !.toolbar = p.toolbar]
<1>1. ASSUME NEW view \in Session
      PROVE  InSession(view) \in Session /\ InSession(view).pinned = view.pinned
  BY PhaseNames DEF Reported, Session, Ends
<1>2. f \in [Live(s) -> Session] /\ \A i \in Live(s) : f[i].pinned = s.sessions[i].pinned
  BY <1>1, Fields
<1>3. GoodState(p) BY <1>2, PopupChangeGood
<1>4. main \in MainView BY PhaseNames, Fields DEF Reported, MainView
<1>5. ocr \in Ocr
  <2>1. s.ocr \in Ocr /\ phase \in OcrPhases BY PhaseNames, Fields DEF Ocr
  <2> HIDE DEF phase
  <2> QED BY <2>1 DEF Ocr
<1>6. current \in {None} \cup Tasks /\ p.toolbar \in Toolbar BY <1>3, Fields
<1>7. GoodState(r)
  <2> HIDE DEF p, current, main, ocr
  <2> QED BY <1>3, <1>4, <1>5, <1>6, OtherChangeGood
<1>8. r = Report(s, t, event, session) BY ZenonT(60), Fields DEF Report, StateRecord
<1>9. r.nextTask = s.nextTask BY Fields DEF StateRecord
<1> HIDE DEF r
<1> QED BY <1>7, <1>8, <1>9

\* OCR in another phase or generation.
LEMMA OcrChangeGood ==
    ASSUME NEW s, GoodState(s), NEW ocr \in Ocr
    PROVE  GoodState([s EXCEPT !.ocr = ocr]) /\ [s EXCEPT !.ocr = ocr].nextTask = s.nextTask
<1>1. [s EXCEPT !.ocr = ocr] = [s EXCEPT !.current = s.current, !.main = s.main, !.ocr = ocr,
                                         !.toolbar = s.toolbar]
  BY Fields DEF StateRecord
<1>2. [s EXCEPT !.ocr = ocr].nextTask = s.nextTask BY Fields DEF StateRecord
<1>3. s.current \in {None} \cup Tasks /\ s.main \in MainView /\ s.toolbar \in Toolbar BY Fields
<1>4. GoodState([s EXCEPT !.current = s.current, !.main = s.main, !.ocr = ocr,
                          !.toolbar = s.toolbar])
  BY <1>3, OtherChangeGood
<1> QED BY <1>1, <1>2, <1>4, Zenon

LEMMA OcrPhaseGood ==
    ASSUME NEW s, GoodState(s), NEW phase \in OcrPhases
    PROVE  /\ GoodState([s EXCEPT !.ocr.phase = phase])
           /\ [s EXCEPT !.ocr.phase = phase].nextTask = s.nextTask
<1>1. [s.ocr EXCEPT !.phase = phase] \in Ocr BY Fields DEF Ocr
<1> QED BY <1>1, OcrChangeGood

LEMMA NewShotGood ==
    ASSUME NEW s, GoodState(s), NEW phase \in OcrPhases
    PROVE  GoodState(NewShot(s, phase)) /\ NewShot(s, phase).nextTask = s.nextTask
<1>1. [phase |-> phase, popup |-> None, generation |-> s.ocr.generation + 1] \in Ocr
  BY Fields DEF Ocr
<1> QED BY <1>1, OcrChangeGood DEF NewShot

\* The toolbar offers a selection or none.
LEMMA ToolbarChangeGood ==
    ASSUME NEW s, GoodState(s), NEW toolbar \in Toolbar
    PROVE  /\ GoodState([s EXCEPT !.toolbar = toolbar])
           /\ [s EXCEPT !.toolbar = toolbar].nextTask = s.nextTask
<1>1. [s EXCEPT !.toolbar = toolbar] = [s EXCEPT !.current = s.current, !.main = s.main,
                                                 !.ocr = s.ocr, !.toolbar = toolbar]
  BY Fields DEF StateRecord
<1>2. [s EXCEPT !.toolbar = toolbar].nextTask = s.nextTask BY Fields DEF StateRecord
<1>3. s.current \in {None} \cup Tasks /\ s.main \in MainView /\ s.ocr \in Ocr BY Fields
<1>4. GoodState([s EXCEPT !.current = s.current, !.main = s.main, !.ocr = s.ocr,
                          !.toolbar = toolbar])
  BY <1>3, OtherChangeGood
<1> QED BY <1>1, <1>2, <1>4, Zenon

LEMMA ToolbarClearedGood ==
    ASSUME NEW s, GoodState(s)
    PROVE  GoodState(ToolbarCleared(s)) /\ ToolbarCleared(s).nextTask = s.nextTask
<1>1. [generation |-> s.toolbar.generation + 1, selection |-> None] \in Toolbar
  BY Fields DEF Toolbar, None
<1> QED BY <1>1, ToolbarChangeGood DEF ToolbarCleared

\* One popup in another phase.
LEMMA PopupPhaseGood ==
    ASSUME NEW s, GoodState(s), NEW id \in Live(s), NEW phase \in Phases
    PROVE  /\ GoodState([s EXCEPT !.sessions[id].phase = phase])
           /\ [s EXCEPT !.sessions[id].phase = phase].nextTask = s.nextTask
<1> DEFINE new == [s.sessions[id] EXCEPT !.phase = phase]
           f   == [s.sessions EXCEPT ![id] = new]
<1>1. s.sessions \in [Live(s) -> Session] /\ s.sessions[id] \in Session BY Fields
<1>2. new \in Session /\ new.pinned = s.sessions[id].pinned BY <1>1 DEF Session
<1>3. \A x : x \in Session => [s.sessions EXCEPT ![id] = x] \in [Live(s) -> Session] BY <1>1
<1>4. f \in [Live(s) -> Session] /\ \A i \in Live(s) : f[i].pinned = s.sessions[i].pinned
  <2> HIDE DEF new
  <2> QED BY <1>1, <1>2, <1>3
<1>5. GoodState([s EXCEPT !.sessions = f])
  <2> HIDE DEF f
  <2> QED BY <1>4, PopupChangeGood
<1>6. [s EXCEPT !.sessions = f].nextTask = s.nextTask BY Fields DEF StateRecord
<1> QED BY <1>5, <1>6

\* A failed recognition shows in its popup.
LEMMA OcrFailsGood ==
    ASSUME NEW s, GoodState(s)
    PROVE  GoodState(OcrFails(s))
<1> DEFINE f == [i \in Live(s) |-> IF i = s.ocr.popup
                                   THEN [s.sessions[i] EXCEPT !.phase = "Error"]
                                   ELSE s.sessions[i]]
           p == [s EXCEPT !.sessions = f]
<1>1. ASSUME NEW view \in Session
      PROVE  /\ [view EXCEPT !.phase = "Error"] \in Session
             /\ [view EXCEPT !.phase = "Error"].pinned = view.pinned
  BY PhaseNames DEF Session
<1>2. f \in [Live(s) -> Session] /\ \A i \in Live(s) : f[i].pinned = s.sessions[i].pinned
  BY <1>1, Fields
<1>3. GoodState(p) BY <1>2, PopupChangeGood
<1>4. GoodState([p EXCEPT !.ocr.phase = "Error"])
  <2> HIDE DEF p
  <2> QED BY <1>3, PhaseNames, OcrPhaseGood
<1>5. [p EXCEPT !.ocr.phase = "Error"] = OcrFails(s) BY Fields DEF OcrFails, StateRecord
<1> QED BY <1>4, <1>5

\* A pinned popup leaves the active slot.
LEMMA PinGood ==
    ASSUME NEW s, GoodState(s), NEW id \in Passive(s)
    PROVE  GoodState([s EXCEPT !.sessions[id].pinned = TRUE,
                               !.active = IF @ = id THEN None ELSE @])
<1> DEFINE new == [s.sessions[id] EXCEPT !.pinned = TRUE]
           r   == [s EXCEPT !.sessions[id].pinned = TRUE, !.active = IF @ = id THEN None ELSE @]
<1>1. s.sessions \in [Live(s) -> Session] /\ id \in Live(s) /\ s.sessions[id] \in Session
  BY Fields DEF Passive
<1>2. new \in Session /\ new.pinned BY <1>1 DEF Session
<1>3. /\ r.sessions = [s.sessions EXCEPT ![id] = new] /\ r.nextSession = s.nextSession
      /\ r.active = IF s.active = id THEN None ELSE s.active
  BY Fields DEF StateRecord
<1>4. r \in StateRecord(r.sessions) BY <1>3, Fields DEF StateRecord, None
<1>5. \A x : x \in Session => [s.sessions EXCEPT ![id] = x] \in [Live(s) -> Session] BY <1>1
<1> HIDE DEF r
<1>6. r.sessions \in [Live(s) -> Session] /\ Live(r) = Live(s) BY <1>2, <1>3, <1>5 DEF Live
<1>7. Passive(r) = Passive(s) \ {id} BY <1>1, <1>2, <1>3, <1>6 DEF Passive
<1>8. IsState(r) BY <1>3, <1>4, <1>6, Fields DEF IsState
<1>9. OnePassive(r) BY <1>3, <1>7, Fields DEF OnePassive, None
<1> QED BY <1>8, <1>9 DEF GoodState, r

\* An unpinned popup takes the active slot, and the one it replaces goes.
LEMMA UnpinGood ==
    ASSUME NEW s, GoodState(s), NEW id \in Live(s) \ Passive(s)
    PROVE  LET u        == [s EXCEPT !.sessions[id].pinned = FALSE, !.active = id]
               replaced == {s.active} \cap Passive(s) IN
           GoodState([u EXCEPT !.sessions = [i \in Live(u) \ replaced |-> u.sessions[i]]])
<1> DEFINE new == [s.sessions[id] EXCEPT !.pinned = FALSE]
           u   == [s EXCEPT !.sessions[id].pinned = FALSE, !.active = id]
           replaced == {s.active} \cap Passive(s)
           r   == [u EXCEPT !.sessions = [i \in Live(u) \ replaced |-> u.sessions[i]]]
<1>1. /\ s.sessions \in [Live(s) -> Session] /\ id \in Live(s) /\ s.sessions[id] \in Session
      /\ id \in Nat
  BY Fields DEF Passive
<1>2. new \in Session /\ ~new.pinned BY <1>1 DEF Session
<1>3. u.sessions = [s.sessions EXCEPT ![id] = new] BY Fields DEF StateRecord
<1>4. \A x : x \in Session => [s.sessions EXCEPT ![id] = x] \in [Live(s) -> Session] BY <1>1
<1>5. u.sessions \in [Live(s) -> Session] /\ Live(u) = Live(s)
  <2> HIDE DEF u, new
  <2> QED BY <1>2, <1>3, <1>4 DEF Live
<1>6. /\ r.sessions = [i \in Live(u) \ replaced |-> u.sessions[i]]
      /\ r.nextSession = s.nextSession /\ r.active = id
  BY Fields DEF StateRecord
<1>7. r \in StateRecord(r.sessions) BY ZenonT(60), <1>1, <1>6, Fields DEF StateRecord
<1>8. replaced = Passive(s) BY Fields DEF OnePassive
<1> HIDE DEF r, u, new, replaced
<1>9. Live(r) = Live(s) \ Passive(s) /\ r.sessions \in [Live(r) -> Session]
  BY <1>5, <1>6, <1>8 DEF Live
<1>10. Passive(r) = {id} BY <1>1, <1>2, <1>3, <1>5, <1>6, <1>8, <1>9 DEF Passive
<1>11. IsState(r) BY <1>6, <1>7, <1>9, Fields DEF IsState
<1>12. OnePassive(r) BY <1>6, <1>10 DEF OnePassive
<1> QED BY <1>11, <1>12 DEF GoodState, r, u, replaced

----------------------------------------
\* The commands of the threads.
LEMMA CommandNames ==
    /\ \A id \in Sessions : Show(id) \in Command /\ Hide(id) \in Command
    /\ \A t \in Tasks : Translate(t) \in Command /\ Register(t) \in Command /\ t \in Threads
    /\ UI \in Threads
BY DEF Command, Show, Hide, Translate, Register, Threads

LEMMA ExecuteGood ==
    ASSUME pending \in [Threads -> Seq(Command)], NEW thread, NEW commands \in Seq(Command),
           Execute(thread, commands)
    PROVE  pending' \in [Threads -> Seq(Command)]
BY DEF Execute

LEMMA PendingTail ==
    ASSUME pending \in [Threads -> Seq(Command)], NEW thread \in Threads, ~Free(thread)
    PROVE  Head(pending[thread]) \in Command /\ Tail(pending[thread]) \in Seq(Command)
<1>1. pending[thread] \in Seq(Command) /\ pending[thread] # <<>> BY DEF Free
<1> QED BY <1>1

\* OnePassivePopup as an invariant every step preserves.
PopupInv ==
    /\ GoodState(state)
    /\ pending \in [Threads -> Seq(Command)]
    /\ gestures \subseteq Nat

LEMMA PopupInvInit == Init => PopupInv
<1> SUFFICES ASSUME Init PROVE PopupInv OBVIOUS
<1>1. Live(state) = {} /\ state.sessions = <<>> BY DEF Init, Live
<1>2. state.sessions \in [{} -> Session] BY DEF Init
<1>3. EmptyView \in MainView /\ [phase |-> "Idle", popup |-> None, generation |-> 0] \in Ocr
      /\ [generation |-> 0, selection |-> None] \in Toolbar
  BY PhaseNames DEF EmptyView, MainView, Ocr, Toolbar, None
<1>4. state \in StateRecord(state.sessions) BY <1>3, MaxTasksAssumption DEF Init, StateRecord, None
<1>5. IsState(state) BY <1>1, <1>2, <1>4 DEF IsState
<1>6. OnePassive(state) BY <1>1 DEF Init, OnePassive, Passive
<1> QED BY <1>5, <1>6 DEF GoodState, PopupInv, Init

----------------------------------------
\* The selection shortcut and its capture.
LEMMA HotkeySteps ==
    ASSUME PopupInv, PressHotkey \/ \E t \in Tasks : CaptureWorker(t)
    PROVE  PopupInv'
<1> USE DEF PopupInv
<1>1. CASE PressHotkey
  <2>1. CASE state' = state BY <1>1, <2>1 DEF PressHotkey
  <2>2. CASE state' # state
    <3> DEFINE s == BeginTask(state, "Capturing", None)
    <3>1. state' = s /\ state.nextTask < MaxTasks /\ pending' = pending /\ gestures' = gestures
      BY <1>1, <2>2 DEF PressHotkey, MayBegin, Dispatch
    <3>2. GoodState(s) BY <3>1, PhaseNames, BeginTaskGood
    <3> QED BY <3>1, <3>2
  <2> QED BY <2>1, <2>2
<1>2. ASSUME NEW t \in Tasks, CaptureSelection(t) PROVE PopupInv' BY <1>2 DEF CaptureSelection
<1>3. ASSUME NEW t \in Tasks, SelectionCaptured(t) PROVE PopupInv'
  <2>1. CASE state.current = t
    <3> DEFINE m == [state EXCEPT !.main.source = t]
               s == PreparePopup(m, "Translating", t, t)
    <3>1. /\ state' = s /\ Execute(t, <<Show(s.active), Translate(t)>>) /\ gestures' = gestures
      BY <1>3, <2>1 DEF SelectionCaptured, Dispatch
    <3>2. GoodState(m)
      <4> DEFINE main == [state.main EXCEPT !.source = t]
      <4>1. main \in MainView /\ state.current \in {None} \cup Tasks BY Fields DEF MainView
      <4>2. m = [state EXCEPT !.current = state.current, !.main = main] BY Fields DEF StateRecord
      <4> HIDE DEF m, main
      <4>3. GoodState([state EXCEPT !.current = state.current, !.main = main]) BY <4>1, MainOnlyGood
      <4> QED BY <4>2, <4>3, Zenon
    <3>3. GoodState(s) /\ s.active \in Sessions
      <4> HIDE DEF m
      <4> QED BY <3>2, PhaseNames, PreparePopupGood
    <3>4. <<Show(s.active), Translate(t)>> \in Seq(Command)
      <4> HIDE DEF s
      <4> QED BY <3>3, CommandNames
    <3>5. pending' \in [Threads -> Seq(Command)]
      <4> HIDE DEF s
      <4> QED BY <3>1, <3>4, ExecuteGood
    <3> HIDE DEF s
    <3> QED BY <3>1, <3>3, <3>5
  <2>2. CASE state.current # t BY <1>3, <2>2 DEF SelectionCaptured, Dispatch
  <2> QED BY <2>1, <2>2
<1>4. ASSUME NEW t \in Tasks, SelectionNotCaptured(t) PROVE PopupInv'
  <2>1. CASE state.current = t
    <3> DEFINE phase == IF workers[t].stage = "empty" THEN "NoSelection" ELSE "Error"
               m == [state EXCEPT !.current = None, !.main.phase = phase,
                                  !.main.source = None, !.main.result = None]
               s == PreparePopup(m, phase, None, None)
    <3>1. /\ state' = s /\ Execute(t, <<Show(s.active)>>) /\ gestures' = gestures
      BY <1>4, <2>1 DEF SelectionNotCaptured, Dispatch
    <3>2. phase \in Phases BY PhaseNames
    <3> HIDE DEF phase
    <3>3. GoodState(m)
      <4> DEFINE main == [state.main EXCEPT !.phase = phase, !.source = None, !.result = None]
      <4>1. main \in MainView BY <3>2, Fields, MainChange
      <4>2. m = [state EXCEPT !.current = None, !.main = main] OBVIOUS
      <4> HIDE DEF m, main
      <4>3. GoodState([state EXCEPT !.current = None, !.main = main]) BY <4>1, MainOnlyGood
      <4> QED BY <4>2, <4>3, Zenon
    <3>4. GoodState(s) /\ s.active \in Sessions
      <4> HIDE DEF m
      <4> QED BY <3>2, <3>3, PreparePopupGood
    <3>5. <<Show(s.active)>> \in Seq(Command)
      <4> HIDE DEF s
      <4> QED BY <3>4, CommandNames
    <3>6. pending' \in [Threads -> Seq(Command)]
      <4> HIDE DEF s
      <4> QED BY <3>1, <3>5, ExecuteGood
    <3> HIDE DEF s
    <3> QED BY <3>1, <3>4, <3>6
  <2>2. CASE state.current # t BY <1>4, <2>2 DEF SelectionNotCaptured, Dispatch
  <2> QED BY <2>1, <2>2
<1> QED BY <1>1, <1>2, <1>3, <1>4 DEF CaptureWorker

----------------------------------------
\* The main window.
LEMMA MainWindowSteps ==
    ASSUME PopupInv, InputTranslation \/ EmptyInput \/ CloseMainWindow
    PROVE  PopupInv'
<1> USE DEF PopupInv
<1>1. CASE InputTranslation
  <2> DEFINE s == BeginTask(state, "Idle", state.nextTask + 1)
  <2>1. /\ state' = s /\ Execute(UI, <<Translate(s.current)>>) /\ gestures' = gestures
        /\ state.nextTask < MaxTasks
    BY <1>1 DEF InputTranslation, MayBegin, Dispatch
  <2>2. state.nextTask + 1 \in Tasks BY <2>1, Fields, MaxTasksAssumption DEF Tasks
  <2>3. GoodState(s) /\ s.current \in Tasks BY <2>1, <2>2, PhaseNames, BeginTaskGood
  <2> HIDE DEF s
  <2>4. <<Translate(s.current)>> \in Seq(Command) BY <2>3, CommandNames
  <2>5. pending' \in [Threads -> Seq(Command)] BY <2>1, <2>4, ExecuteGood
  <2> QED BY <2>1, <2>3, <2>5
<1>2. CASE EmptyInput
  <2> DEFINE main == [EmptyView EXCEPT !.phase = "Error"]
             s    == [state EXCEPT !.current = None, !.main = main]
  <2>1. state' = s /\ pending' = pending /\ gestures' = gestures BY <1>2 DEF EmptyInput, Dispatch
  <2>2. main \in MainView BY PhaseNames DEF EmptyView, MainView
  <2> HIDE DEF main
  <2>3. GoodState(s) BY <2>2, MainOnlyGood
  <2> QED BY <2>1, <2>3
<1>3. CASE CloseMainWindow
  <2> DEFINE main == [state.main EXCEPT !.phase = "Idle", !.result = None]
             s    == [state EXCEPT !.current = None, !.main = main]
  <2>1. state' = s /\ pending' = pending /\ gestures' = gestures
    BY <1>3 DEF CloseMainWindow, Dispatch
  <2>2. main \in MainView BY PhaseNames, Fields DEF MainView
  <2> HIDE DEF main
  <2>3. GoodState(s) BY <2>2, MainOnlyGood
  <2> QED BY <2>1, <2>3
<1> QED BY <1>1, <1>2, <1>3

LEMMA PopupRequestGood ==
    ASSUME NEW s, GoodState(s), NEW id
    PROVE  /\ GoodState(PopupRequest(s, id)) /\ PopupRequest(s, id).nextTask = s.nextTask
           /\ Live(PopupRequest(s, id)) = Live(s)
<1>1. NewShot(s, "Idle").sessions = s.sessions BY Fields DEF NewShot, StateRecord
<1> QED BY <1>1, PhaseNames, NewShotGood DEF PopupRequest, Live

\* The popup windows.
LEMMA PopupSteps ==
    ASSUME PopupInv, NEW id,
           TranslatePopup(id) \/ TranslateEmptyPopup(id) \/ PinPopup(id) \/ UnpinPopup(id)
               \/ CloseWindow(id)
    PROVE  PopupInv'
<1> USE DEF PopupInv
<1>1. CASE TranslatePopup(id)
  <2> DEFINE p == PopupRequest(state, id)
             s == TranslateIn(p, id)
  <2>1. /\ state' = s /\ gestures' = gestures /\ state.nextTask < MaxTasks
        /\ IF id \in Live(state) THEN Execute(UI, <<Translate(s.nextTask)>>) ELSE pending' = pending
    BY <1>1 DEF TranslatePopup, MayBegin, Dispatch
  <2>2. GoodState(p) /\ p.nextTask = state.nextTask /\ Live(p) = Live(state) BY PopupRequestGood
  <2> HIDE DEF p
  <2>3. GoodState(s) /\ (id \in Live(state) => s.nextTask = state.nextTask + 1)
    BY <2>1, <2>2, TranslateInGood
  <2> HIDE DEF s
  <2>4. CASE id \in Live(state)
    <3>1. s.nextTask \in Tasks BY <2>1, <2>3, <2>4, Fields, MaxTasksAssumption DEF Tasks
    <3>2. <<Translate(s.nextTask)>> \in Seq(Command) BY <3>1, CommandNames
    <3>3. pending' \in [Threads -> Seq(Command)] BY <2>1, <2>4, <3>2, ExecuteGood
    <3> QED BY <2>1, <2>3, <3>3
  <2>5. CASE id \notin Live(state) BY <2>1, <2>3, <2>5
  <2> QED BY <2>4, <2>5
<1>2. CASE TranslateEmptyPopup(id)
  <2> DEFINE p == PopupRequest(state, id)
  <2>1. /\ state' = IF id \in Live(p) THEN [p EXCEPT !.sessions[id].phase = "Error"] ELSE p
        /\ pending' = pending /\ gestures' = gestures
    BY <1>2 DEF TranslateEmptyPopup, Dispatch
  <2>2. GoodState(p) BY PopupRequestGood
  <2> HIDE DEF p
  <2>3. id \in Live(p) => GoodState([p EXCEPT !.sessions[id].phase = "Error"])
    BY <2>2, PhaseNames, PopupPhaseGood
  <2> QED BY <2>1, <2>2, <2>3
<1>3. CASE PinPopup(id)
  <2> DEFINE s == [state EXCEPT !.sessions[id].pinned = TRUE,
                                !.active = IF @ = id THEN None ELSE @]
  <2>1. state' = s /\ pending' = pending /\ gestures' = gestures /\ id \in Passive(state)
    BY <1>3 DEF PinPopup, Dispatch
  <2>2. GoodState(s) BY <2>1, PinGood
  <2> HIDE DEF s
  <2> QED BY <2>1, <2>2
<1>4. CASE UnpinPopup(id)
  <2> DEFINE u        == [state EXCEPT !.sessions[id].pinned = FALSE, !.active = id]
             replaced == {state.active} \cap Passive(state)
             s        == [u EXCEPT !.sessions = [i \in Live(u) \ replaced |-> u.sessions[i]]]
             commands == IF replaced = {} THEN <<>> ELSE <<Hide(state.active)>>
  <2>1. /\ state' = s /\ Execute(UI, commands) /\ gestures' = gestures
        /\ id \in Live(state) \ Passive(state)
    BY <1>4 DEF UnpinPopup, Dispatch
  <2>2. GoodState(s) BY <2>1, UnpinGood
  <2>3. commands \in Seq(Command)
    <3>1. replaced # {} => state.active \in Sessions BY Fields DEF Passive, Sessions, None
    <3> QED BY <3>1, CommandNames
  <2> HIDE DEF s, commands
  <2>4. pending' \in [Threads -> Seq(Command)] BY <2>1, <2>3, ExecuteGood
  <2> QED BY <2>1, <2>2, <2>4
<1>5. CASE CloseWindow(id)
  <2> DEFINE s == ClosePopup(state, id)
  <2>1. state' = s /\ Execute(UI, HideIfLive(state, id)) /\ gestures' = gestures
    BY <1>5 DEF CloseWindow, Dispatch
  <2>2. GoodState(s) BY ClosePopupGood
  <2>3. HideIfLive(state, id) \in Seq(Command)
    <3>1. id \in Live(state) => id \in Sessions BY Fields DEF Sessions, None
    <3> QED BY <3>1, CommandNames DEF HideIfLive
  <2>4. pending' \in [Threads -> Seq(Command)] BY <2>1, <2>3, ExecuteGood
  <2> HIDE DEF s
  <2> QED BY <2>1, <2>2, <2>4
<1> QED BY <1>1, <1>2, <1>3, <1>4, <1>5

\* The commands of a thread and the workers it started.
LEMMA ThreadSteps ==
    ASSUME PopupInv, NEW thread \in Threads, Thread(thread)
    PROVE  PopupInv'
<1> USE DEF PopupInv
<1> DEFINE command == Head(pending[thread])
           rest    == Tail(pending[thread])
<1>1. ~Free(thread) BY DEF Thread, StartTranslation, RegisterTranslation, PostToUi
<1>2. command \in Command /\ rest \in Seq(Command) BY <1>1, PendingTail
<1>3. CASE StartTranslation(thread)
  <2> DEFINE t == command.id
             s == Report(state, t, "started", workers[t].session)
  <2>1. /\ state' = s /\ gestures' = gestures /\ command.op = "translate"
        /\ Execute(thread, <<Register(t)>> \o rest)
    BY <1>3 DEF StartTranslation, Dispatch
  <2>2. t \in Tasks BY <1>2, <2>1 DEF Command
  <2>3. GoodState(s) BY <2>2, ReportGood
  <2>4. <<Register(t)>> \o rest \in Seq(Command) BY <1>2, <2>2, CommandNames
  <2>5. pending' \in [Threads -> Seq(Command)] BY <2>1, <2>4, ExecuteGood
  <2> QED BY <2>1, <2>3, <2>5
<1>4. CASE RegisterTranslation(thread)
  <2>1. state' = state /\ gestures' = gestures /\ Execute(thread, rest)
    BY <1>4 DEF RegisterTranslation
  <2> QED BY <1>2, <2>1, ExecuteGood
<1>5. CASE PostToUi(thread)
  <2>1. state' = state /\ gestures' = gestures /\ Execute(thread, rest) BY <1>5 DEF PostToUi
  <2> QED BY <1>2, <2>1, ExecuteGood
<1> QED BY <1>3, <1>4, <1>5 DEF Thread

LEMMA WorkerSteps ==
    ASSUME PopupInv, NEW t \in Tasks, TranslationWorker(t) \/ ReportProgress(t)
    PROVE  PopupInv'
<1> USE DEF PopupInv
<1>1. CASE StopTranslation(t) BY <1>1 DEF StopTranslation
<1>2. CASE ReportProgress(t) \/ EndTranslation(t)
  <2>1. PICK event \in {"started", "progress", "finished", "failed"} :
            /\ state' = Report(state, t, event, workers[t].session)
            /\ pending' = pending /\ gestures' = gestures
    BY <1>2 DEF ReportProgress, EndTranslation, Dispatch
  <2>2. GoodState(Report(state, t, event, workers[t].session)) BY ReportGood
  <2> QED BY <2>1, <2>2
<1> QED BY <1>1, <1>2 DEF TranslationWorker

LEMMA EventLoopSteps ==
    ASSUME PopupInv, EventLoop
    PROVE  PopupInv'
BY DEF PopupInv, EventLoop, ShowWindow, HideWindow

----------------------------------------
\* A refused OCR request shows a popup.
LEMMA RefuseOcrGood ==
    ASSUME PopupInv, NEW s, GoodState(s), RefuseOcr(s), gestures' = gestures
    PROVE  PopupInv'
<1> USE DEF PopupInv
<1> DEFINE told == PreparePopup(s, "Error", None, None)
<1>1. state' = told /\ Execute(UI, <<Show(told.active)>>) BY DEF RefuseOcr, Dispatch
<1>2. GoodState(told) /\ told.active \in Sessions BY PhaseNames, PreparePopupGood
<1> HIDE DEF told
<1>3. <<Show(told.active)>> \in Seq(Command) BY <1>2, CommandNames
<1>4. pending' \in [Threads -> Seq(Command)] BY <1>1, <1>3, ExecuteGood
<1> QED BY <1>1, <1>2, <1>4

\* The shortcut retires the request under way.
LEMMA BeginOcrGood ==
    ASSUME PopupInv, BeginOcr, gestures' = gestures
    PROVE  PopupInv'
<1> USE DEF PopupInv
<1> DEFINE id  == state.ocr.popup
           old == state.ocr.phase \in {"Recognizing", "Translating"} /\ id \in Live(state)
           s   == IF old /\ id \in Passive(state) THEN ClosePopup(state, id)
                  ELSE IF old /\ state.ocr.phase = "Recognizing"
                  THEN [state EXCEPT !.sessions[id].phase = "Idle"] ELSE state
           shot == NewShot(s, "Checking")
           commands == IF old /\ id \in Passive(state) THEN <<Hide(id)>> ELSE <<>>
<1>1. state' = ToolbarCleared(shot) /\ Execute(UI, commands) BY DEF BeginOcr, Dispatch
<1>2. GoodState(s)
  <2>1. GoodState(ClosePopup(state, id)) BY ClosePopupGood
  <2>2. id \in Live(state) => GoodState([state EXCEPT !.sessions[id].phase = "Idle"])
    BY PhaseNames, PopupPhaseGood
  <2> QED BY <2>1, <2>2
<1> HIDE DEF s
<1>3. GoodState(shot) BY <1>2, PhaseNames, NewShotGood
<1> HIDE DEF shot
<1>4. GoodState(ToolbarCleared(shot)) BY <1>3, ToolbarClearedGood
<1>5. commands \in Seq(Command)
  <2>1. id \in Live(state) => id \in Sessions BY Fields DEF Sessions, None
  <2> QED BY <2>1, CommandNames
<1> HIDE DEF commands
<1>6. pending' \in [Threads -> Seq(Command)] BY <1>1, <1>5, ExecuteGood
<1> QED BY <1>1, <1>4, <1>6

\* OCR requests of the user.
LEMMA OcrRequestSteps ==
    ASSUME PopupInv, RequestOcr \/ RequestOcrWhileAnnotating \/ DownloadOcr
    PROVE  PopupInv'
<1>1. GoodState(state) /\ GoodState(NewShot(state, "Idle")) /\ GoodState(NewShot(state, "Error"))
      /\ GoodState(NewShot(state, "Downloading"))
  BY PhaseNames, NewShotGood DEF PopupInv
<1>2. CASE RequestOcr
  <2>1. CASE RefuseOcr(state) BY <1>1, <1>2, <2>1, RefuseOcrGood DEF RequestOcr
  <2>2. CASE BeginOcr BY <1>2, <2>2, BeginOcrGood DEF RequestOcr
  <2>3. CASE Dispatch(NewShot(state, "Idle"), workers) /\ pending' = pending
    BY <1>1, <1>2, <2>3 DEF RequestOcr, Dispatch, PopupInv
  <2> QED BY <1>2, <2>1, <2>2, <2>3 DEF RequestOcr
<1>3. CASE RequestOcrWhileAnnotating
  <2>1. \/ RefuseOcr(state)
        \/ RefuseOcr(IF state.ocr.phase = "Downloading" THEN state ELSE NewShot(state, "Error"))
    BY <1>3 DEF RequestOcrWhileAnnotating
  <2>2. gestures' = gestures BY <1>3 DEF RequestOcrWhileAnnotating
  <2> QED BY <1>1, <2>1, <2>2, RefuseOcrGood
<1>4. CASE DownloadOcr BY <1>1, <1>4 DEF DownloadOcr, Dispatch, PopupInv
<1> QED BY <1>2, <1>3, <1>4

\* The user marks a region or gives up.
LEMMA RegionSteps ==
    ASSUME PopupInv, NEW job, SubmitRegion(job) \/ CancelRegion(job)
    PROVE  PopupInv'
<1> USE DEF PopupInv
<1>1. CASE SubmitRegion(job)
  <2> DEFINE shown == PreparePopup(state, "Capturing", None, None)
             ocr == [shown.ocr EXCEPT !.phase = "Recognizing", !.popup = shown.active]
             s == [shown EXCEPT !.ocr = ocr]
  <2>1. GoodState(shown) /\ shown.active \in Sessions BY PhaseNames, PreparePopupGood
  <2>2. /\ state' = [shown EXCEPT !.ocr.phase = "Recognizing", !.ocr.popup = shown.active]
        /\ Execute(UI, <<Show(shown.active)>>) /\ gestures' = gestures
    BY <1>1 DEF SubmitRegion, Dispatch
  <2> HIDE DEF shown
  <2>3. ocr \in Ocr BY <2>1, PhaseNames, Fields DEF Ocr
  <2>4. s = [shown EXCEPT !.ocr.phase = "Recognizing", !.ocr.popup = shown.active]
    BY <2>1, Fields DEF StateRecord
  <2> HIDE DEF ocr
  <2>5. GoodState(s) BY <2>1, <2>3, OcrChangeGood
  <2> HIDE DEF s
  <2>6. <<Show(shown.active)>> \in Seq(Command) BY <2>1, CommandNames
  <2>7. pending' \in [Threads -> Seq(Command)] BY <2>2, <2>6, ExecuteGood
  <2> QED BY <2>2, <2>4, <2>5, <2>7
<1>2. CASE CancelRegion(job) BY <1>2, PhaseNames, NewShotGood DEF CancelRegion, Dispatch
<1> QED BY <1>1, <1>2

\* The answers of the OCR jobs.
LEMMA OcrWorkerSteps ==
    ASSUME PopupInv, NEW job, OcrWorker(job)
    PROVE  PopupInv'
<1> USE DEF PopupInv
<1>0. \A phase \in OcrPhases : /\ GoodState([state EXCEPT !.ocr.phase = phase])
                               /\ [state EXCEPT !.ocr.phase = phase].nextTask = state.nextTask
  BY OcrPhaseGood
<1>1. CASE OcrChecked(job)
  <2>1. /\ \/ state' = [state EXCEPT !.ocr.phase = "Capturing"]
           \/ state' = [state EXCEPT !.ocr.phase = "DownloadRequired"]
        /\ pending' = pending /\ gestures' = gestures
    BY <1>1 DEF OcrChecked, Dispatch
  <2> QED BY <1>0, <2>1, PhaseNames
<1>2. CASE OcrCaptured(job) BY <1>2 DEF OcrCaptured
<1>3. CASE OcrRecognized(job)
  <2> DEFINE id == state.ocr.popup
             p == [state EXCEPT !.ocr.phase = "Translating"]
             s == TranslateIn(p, id)
  <2>1. /\ state' = s /\ gestures' = gestures /\ state.nextTask < MaxTasks
        /\ IF id \in Live(state)
           THEN Execute(s.nextTask, <<Translate(s.nextTask)>>) ELSE pending' = pending
    BY <1>3 DEF OcrRecognized, Dispatch
  <2>2. GoodState(p) /\ p.nextTask = state.nextTask BY <1>0, PhaseNames
  <2>3. Live(p) = Live(state) BY Fields DEF Live, StateRecord
  <2> HIDE DEF p
  <2>4. GoodState(s) /\ (id \in Live(state) => s.nextTask = state.nextTask + 1)
    BY <2>1, <2>2, <2>3, TranslateInGood
  <2> HIDE DEF s
  <2>5. CASE id \in Live(state)
    <3>1. s.nextTask \in Tasks BY <2>1, <2>4, <2>5, Fields, MaxTasksAssumption DEF Tasks
    <3>2. <<Translate(s.nextTask)>> \in Seq(Command) BY <3>1, CommandNames
    <3>3. pending' \in [Threads -> Seq(Command)] BY <2>1, <2>5, <3>2, ExecuteGood
    <3> QED BY <2>1, <2>4, <3>3
  <2>6. CASE id \notin Live(state) BY <2>1, <2>4, <2>6
  <2> QED BY <2>5, <2>6
<1>4. CASE OcrDownloaded(job) BY <1>0, <1>4, PhaseNames DEF OcrDownloaded, Dispatch
<1>5. CASE OcrJobEnds(job) BY <1>5, OcrFailsGood DEF OcrJobEnds, Dispatch
<1> QED BY <1>1, <1>2, <1>3, <1>4, <1>5 DEF OcrWorker

\* The selection toolbar.
LEMMA ToolbarSteps ==
    ASSUME PopupInv,
           \/ DismissToolbar \/ SelectWithMouse \/ ToolbarTranslate \/ ToolbarCopy
           \/ \E g \in gestures : ToolbarCaptured(g)
    PROVE  PopupInv'
<1> USE DEF PopupInv
<1>1. /\ GoodState(ToolbarCleared(state)) /\ ToolbarCleared(state).nextTask = state.nextTask
      /\ state.toolbar.generation + 1 \in Nat
  BY ToolbarClearedGood, Fields DEF Toolbar
<1>2. CASE DismissToolbar \/ SelectWithMouse \/ ToolbarCopy
  BY <1>1, <1>2 DEF DismissToolbar, SelectWithMouse, ToolbarCopy, Dispatch
<1>3. ASSUME NEW g \in gestures, ToolbarCaptured(g)
      PROVE  PopupInv'
  <2> DEFINE toolbar(x) ==
        [state.toolbar EXCEPT !.selection = IF g = state.toolbar.generation THEN x ELSE @]
  <2>1. PICK selection \in {g, None} :
            /\ state' = [state EXCEPT !.toolbar = toolbar(selection)]
            /\ pending' = pending /\ gestures' \subseteq gestures
    BY <1>3, Fields DEF ToolbarCaptured, Dispatch, StateRecord
  <2>2. toolbar(selection) \in Toolbar BY Fields DEF Toolbar, None
  <2> HIDE DEF toolbar
  <2>3. GoodState([state EXCEPT !.toolbar = toolbar(selection)]) BY <2>2, ToolbarChangeGood
  <2> QED BY <2>1, <2>3
<1>4. CASE ToolbarTranslate
  <2> DEFINE c     == ToolbarCleared(state)
             begun == BeginTask(c, "Translating", state.nextTask + 1)
             s     == PreparePopup(begun, "Translating", begun.current, begun.current)
  <2>1. /\ state' = s /\ gestures' = gestures /\ state.nextTask < MaxTasks
        /\ Execute(UI, <<Show(s.active), Translate(s.current)>>)
    BY <1>4 DEF ToolbarTranslate, MayBegin, Dispatch
  <2>2. state.nextTask + 1 \in Tasks BY <2>1, Fields, MaxTasksAssumption DEF Tasks
  <2>3. GoodState(begun) /\ begun.current \in Tasks
    <3>1. GoodState(c) /\ c.nextTask < MaxTasks BY <1>1, <2>1
    <3> HIDE DEF c
    <3> QED BY <2>2, <3>1, PhaseNames, BeginTaskGood
  <2> HIDE DEF begun
  <2>4. GoodState(s) /\ s.active \in Sessions BY <2>3, PhaseNames, PreparePopupGood
  <2>5. s.current = begun.current BY <2>3, Fields DEF PreparePopup, StateRecord
  <2> HIDE DEF s
  <2>6. <<Show(s.active), Translate(s.current)>> \in Seq(Command) BY <2>3, <2>4, <2>5, CommandNames
  <2>7. pending' \in [Threads -> Seq(Command)] BY <2>1, <2>6, ExecuteGood
  <2> QED BY <2>1, <2>4, <2>7
<1> QED BY <1>2, <1>3, <1>4

----------------------------------------
LEMMA PopupInvNext == PopupInv /\ [Next]_vars => PopupInv'
<1> SUFFICES ASSUME PopupInv, [Next]_vars PROVE PopupInv' OBVIOUS
<1>1. CASE User
  <2>1. ASSUME NEW id \in windows, \/ TranslatePopup(id) \/ TranslateEmptyPopup(id)
                                   \/ PinPopup(id) \/ UnpinPopup(id) \/ CloseWindow(id)
        PROVE  PopupInv'
    BY <2>1, PopupSteps
  <2>2. ASSUME NEW job \in ocrJobs, SubmitRegion(job) \/ CancelRegion(job)
        PROVE  PopupInv'
    BY <2>2, RegionSteps
  <2> QED BY <1>1, <2>1, <2>2, HotkeySteps, MainWindowSteps, OcrRequestSteps, ToolbarSteps DEF User
<1>2. ASSUME NEW t \in Tasks, CaptureWorker(t) \/ TranslationWorker(t) \/ ReportProgress(t)
      PROVE  PopupInv'
  BY <1>2, HotkeySteps, WorkerSteps
<1>3. ASSUME NEW thread \in Threads, Thread(thread) PROVE PopupInv' BY <1>3, ThreadSteps
<1>4. CASE EventLoop BY <1>4, EventLoopSteps
<1>5. ASSUME NEW job \in ocrJobs, OcrWorker(job) PROVE PopupInv' BY <1>5, OcrWorkerSteps
<1>6. ASSUME NEW g \in gestures, ToolbarCaptured(g) PROVE PopupInv' BY <1>6, ToolbarSteps
<1>7. CASE UNCHANGED vars BY <1>7 DEF vars, PopupInv
<1> QED BY <1>1, <1>2, <1>3, <1>4, <1>5, <1>6, <1>7 DEF Next

\* At most one popup is unpinned and it is the one the next selection reuses, however
\* selections, requests, pins, closes, OCR and the reports of workers interleave.
THEOREM OnePassivePopupHolds == Spec => []OnePassivePopup
<1>1. PopupInv => OnePassivePopup BY DEF PopupInv, GoodState, OnePassive, OnePassivePopup
<1> QED BY <1>1, PopupInvInit, PopupInvNext, PTL DEF Spec

\* A worker dispatch can abort is one somebody waits for: each dispatch drops the
\* handles nobody waits for, and a registration stores only a wanted one.
THEOREM HandlesWantedHolds == Spec => []HandlesWanted
<1>1. Init => HandlesWanted BY DEF Init, HandlesWanted
<1>2. HandlesWanted /\ [Next]_vars => HandlesWanted'
  <2> SUFFICES ASSUME HandlesWanted, [Next]_vars PROVE HandlesWanted' OBVIOUS
  <2>1. ASSUME NEW s, NEW ws, Dispatch(s, ws) PROVE HandlesWanted'
    BY <2>1 DEF Dispatch, HandlesWanted
  <2>2. ASSUME UNCHANGED <<state, registered>> PROVE HandlesWanted'
    BY <2>2 DEF HandlesWanted, Wanted, Live
  <2>3. CASE User
    <3>1. CASE PressHotkey BY <2>1, <2>2, <3>1 DEF PressHotkey
    <3>2. CASE InputTranslation \/ EmptyInput \/ CloseMainWindow
      BY <2>1, <3>2 DEF InputTranslation, EmptyInput, CloseMainWindow
    <3>3. ASSUME NEW id \in windows, TranslatePopup(id) \/ TranslateEmptyPopup(id)
                     \/ PinPopup(id) \/ UnpinPopup(id) \/ CloseWindow(id)
          PROVE  HandlesWanted'
      BY ZenonT(60), <2>1, <3>3 DEF TranslatePopup, TranslateEmptyPopup, PinPopup, UnpinPopup,
         CloseWindow
    <3>4. CASE RequestOcr \/ RequestOcrWhileAnnotating \/ DownloadOcr
      BY <2>1, <3>4 DEF RequestOcr, RequestOcrWhileAnnotating, DownloadOcr, RefuseOcr, BeginOcr
    <3>5. ASSUME NEW job \in ocrJobs, SubmitRegion(job) \/ CancelRegion(job)
          PROVE  HandlesWanted'
      BY <2>1, <3>5 DEF SubmitRegion, CancelRegion
    <3>6. CASE DismissToolbar \/ SelectWithMouse \/ ToolbarTranslate \/ ToolbarCopy
      BY <2>1, <3>6 DEF DismissToolbar, SelectWithMouse, ToolbarTranslate, ToolbarCopy
    <3> QED BY <2>3, <3>1, <3>2, <3>3, <3>4, <3>5, <3>6 DEF User
  <2>4. ASSUME NEW t \in Tasks, CaptureWorker(t) \/ TranslationWorker(t) \/ ReportProgress(t)
        PROVE  HandlesWanted'
    BY <2>1, <2>2, <2>4 DEF CaptureWorker, CaptureSelection, SelectionCaptured,
       SelectionNotCaptured, TranslationWorker, EndTranslation, StopTranslation, ReportProgress
  <2>5. ASSUME NEW thread \in Threads, Thread(thread) PROVE HandlesWanted'
    <3>1. CASE StartTranslation(thread) BY <2>1, <3>1 DEF StartTranslation
    <3>2. CASE RegisterTranslation(thread)
      BY <3>2 DEF RegisterTranslation, HandlesWanted, Wanted, Live
    <3>3. CASE PostToUi(thread) BY <2>2, <3>3 DEF PostToUi
    <3> QED BY <2>5, <3>1, <3>2, <3>3 DEF Thread
  <2>6. CASE EventLoop BY <2>2, <2>6 DEF EventLoop, ShowWindow, HideWindow
  <2>7. ASSUME NEW job \in ocrJobs, OcrWorker(job) PROVE HandlesWanted'
    BY <2>1, <2>2, <2>7 DEF OcrWorker, OcrChecked, OcrCaptured, OcrRecognized, OcrDownloaded,
       OcrJobEnds
  <2>8. ASSUME NEW g \in gestures, ToolbarCaptured(g) PROVE HandlesWanted'
    BY <2>1, <2>8 DEF ToolbarCaptured
  <2>9. CASE UNCHANGED vars BY <2>2, <2>9 DEF vars
  <2> QED BY <2>3, <2>4, <2>5, <2>6, <2>7, <2>8, <2>9 DEF Next
<1> QED BY <1>1, <1>2, PTL DEF Spec

----------------------------------------
(* What each operator of the reducer changes, and what it leaves.             *)

SameTasks(s, r)  == r.current = s.current /\ r.main = s.main /\ r.nextTask = s.nextTask
SamePopups(s, r) == /\ r.sessions = s.sessions /\ Live(r) = Live(s) /\ Passive(r) = Passive(s)
                    /\ r.nextSession = s.nextSession

\* The main window waits for the next task.
Begins(s, r, source) ==
    /\ SamePopups(s, r) /\ r.ocr = s.ocr /\ r.toolbar = s.toolbar
    /\ r.nextTask = s.nextTask + 1 /\ r.current = s.nextTask + 1
    /\ r.main.source = source /\ r.main.result = None

LEMMA BeginTaskFacts ==
    ASSUME NEW s, GoodState(s), NEW phase, NEW source
    PROVE  Begins(s, BeginTask(s, phase, source), source)
BY Fields DEF BeginTask, StateRecord, Begins, SamePopups, Live, Passive

\* The unpinned popup, or a new one, is given to the task, if any.
Gives(s, r, phase, task, source) ==
    /\ r.active \in Passive(s) \/ (r.active = s.nextSession + 1 /\ Passive(s) = {})
    /\ r.active \in Sessions /\ r.active <= r.nextSession
    /\ r.nextSession \in Nat /\ s.nextSession <= r.nextSession
    /\ Live(r) = Live(s) \cup {r.active}
    /\ r.sessions[r.active] = [phase |-> phase, pinned |-> FALSE, task |-> task,
                               source |-> source, result |-> None]
    /\ \A i \in Live(s) \ {r.active} : r.sessions[i] = s.sessions[i]

Prepares(s, r, phase, task, source) ==
    /\ SameTasks(s, r) /\ r.ocr = s.ocr /\ r.toolbar = s.toolbar
    /\ Gives(s, r, phase, task, source)

LEMMA PreparePopupFacts ==
    ASSUME NEW s, GoodState(s), NEW phase, NEW task, NEW source
    PROVE  Prepares(s, PreparePopup(s, phase, task, source), phase, task, source)
<1> DEFINE r   == PreparePopup(s, phase, task, source)
           id  == PopupFor(s)
           new == [phase |-> phase, pinned |-> FALSE, task |-> task, source |-> source,
                   result |-> None]
<1>1. /\ s.active \in Passive(s) => id = s.active
      /\ s.active \notin Passive(s) => id = s.nextSession + 1 /\ Passive(s) = {}
  BY DEF PopupFor, GoodState, OnePassive
<1>2. /\ s.nextSession \in Nat /\ id \in Sessions /\ id \in 1..(s.nextSession + 1)
      /\ id \in Passive(s) => id <= s.nextSession
  BY <1>1, Fields DEF Sessions, Passive, None
<1>3. /\ r.sessions = [i \in Live(s) \cup {id} |-> IF i = id THEN new ELSE s.sessions[i]]
      /\ r.active = id
      /\ r.nextSession = IF id > s.nextSession THEN id ELSE s.nextSession
      /\ r.current = s.current /\ r.main = s.main /\ r.nextTask = s.nextTask
      /\ r.ocr = s.ocr /\ r.toolbar = s.toolbar
  BY Fields DEF PreparePopup, StateRecord
<1> HIDE DEF id, new
<1>4. Live(r) = Live(s) \cup {id} /\ r.sessions[id] = new
      /\ \A i \in Live(s) \ {id} : r.sessions[i] = s.sessions[i]
  BY <1>3 DEF Live
<1>5. id \in Nat /\ id <= r.nextSession /\ r.nextSession \in Nat /\ s.nextSession <= r.nextSession
  BY <1>2, <1>3
<1>6. id \in Passive(s) \/ (id = s.nextSession + 1 /\ Passive(s) = {}) BY <1>1
<1> QED BY <1>2, <1>3, <1>4, <1>5, <1>6 DEF new, Prepares, Gives, SameTasks

\* A popup is closed, and with it what only that popup asked for.
Closes(s, r, id) ==
    /\ r.toolbar = s.toolbar /\ r.nextTask = s.nextTask /\ r.nextSession = s.nextSession
    /\ Live(r) = Live(s) \ {id} /\ \A i \in Live(r) : r.sessions[i] = s.sessions[i]
    /\ r.active = IF s.active = id THEN None ELSE s.active
    /\ \/ r.current = s.current /\ r.main = s.main
       \/ r.current = None /\ r.main = [s.main EXCEPT !.phase = "Idle", !.result = None]
    /\ r.ocr = s.ocr \/ (r.ocr.phase = "Idle" /\ s.ocr.popup = id)

LEMMA ClosePopupFacts ==
    ASSUME NEW s, GoodState(s), NEW id
    PROVE  Closes(s, ClosePopup(s, id), id)
<1> DEFINE r == ClosePopup(s, id)
<1>1. /\ r.sessions = [i \in Live(s) \ {id} |-> s.sessions[i]]
      /\ r.active = IF s.active = id THEN None ELSE s.active
      /\ r.nextSession = s.nextSession /\ r.nextTask = s.nextTask /\ r.toolbar = s.toolbar
  BY Fields DEF ClosePopup, Without, StateRecord
<1>2. Live(r) = Live(s) \ {id} BY <1>1 DEF Live
<1>3. r.ocr = IF s.ocr.popup = id
              THEN [phase |-> "Idle", popup |-> None, generation |-> s.ocr.generation + 1]
              ELSE s.ocr
  BY Fields DEF ClosePopup, StateRecord
<1>4. \/ r.current = s.current /\ r.main = s.main
      \/ r.current = None /\ r.main = [s.main EXCEPT !.phase = "Idle", !.result = None]
  BY Fields DEF ClosePopup, StateRecord
<1> QED BY <1>1, <1>2, <1>3, <1>4 DEF Closes

\* The popup waits for the next task.
Asks(s, r, id) ==
    /\ r.current = s.current /\ r.main = s.main /\ r.toolbar = s.toolbar
    /\ r.nextSession = s.nextSession /\ r.nextTask = s.nextTask + 1 /\ Live(r) = Live(s)
    /\ r.sessions[id] = [s.sessions[id] EXCEPT !.phase = "Translating",
                             !.source = s.nextTask + 1, !.result = None,
                             !.task = s.nextTask + 1]
    /\ \A i \in Live(s) \ {id} : r.sessions[i] = s.sessions[i]

LEMMA TranslateInFacts ==
    ASSUME NEW s, GoodState(s), NEW id \in Live(s)
    PROVE  Asks(s, TranslateIn(s, id), id) /\ TranslateIn(s, id).ocr = s.ocr
<1> DEFINE r == TranslateIn(s, id)
           t == s.nextTask + 1
           new == [s.sessions[id] EXCEPT !.phase = "Translating", !.source = t,
                                         !.result = None, !.task = t]
<1>1. r = [s EXCEPT !.nextTask = t, !.sessions[id] = new] BY DEF TranslateIn
<1> HIDE DEF t, new
<1>2. /\ r.sessions = [s.sessions EXCEPT ![id] = new]
      /\ r.current = s.current /\ r.main = s.main /\ r.ocr = s.ocr
      /\ r.toolbar = s.toolbar /\ r.active = s.active /\ r.nextSession = s.nextSession
      /\ r.nextTask = t
  BY <1>1, Fields DEF StateRecord
<1>3. /\ Live(r) = Live(s) /\ r.sessions[id] = new
      /\ \A i \in Live(s) \ {id} : r.sessions[i] = s.sessions[i]
  BY <1>2, Fields DEF Live
<1> QED BY <1>2, <1>3 DEF t, new, Asks

\* A view after a report of task t.
ViewReported(view, new, t, event) ==
    /\ new.source = view.source
    /\ new.result = IF event \in {"progress", "finished"} THEN t ELSE view.result
    /\ new.phase = CASE event = "started" -> "Translating"
                     [] event = "progress" -> view.phase
                     [] event = "finished" -> "Success"
                     [] event = "failed" -> "Error"

\* What a report of task t changes.
Reports(s, r, t, event) ==
    /\ r.nextTask = s.nextTask /\ r.nextSession = s.nextSession /\ r.active = s.active
    /\ r.toolbar = s.toolbar /\ Live(r) = Live(s)
    /\ r.current = IF s.current = t /\ Ends(event) THEN None ELSE s.current
    /\ s.current = t => ViewReported(s.main, r.main, t, event)
    /\ s.current # t => r.main = s.main
    /\ \A i \in Live(s) : r.sessions[i].pinned = s.sessions[i].pinned
    /\ \A i \in Live(s) :
         \/ r.sessions[i] = s.sessions[i]
            /\ (s.sessions[i].task = t => event = "started")
         \/ s.sessions[i].task = t /\ ViewReported(s.sessions[i], r.sessions[i], t, event)
            /\ r.sessions[i].task = IF Ends(event) THEN None ELSE t
    /\ r.ocr.popup = s.ocr.popup /\ r.ocr.generation = s.ocr.generation
    /\ r.ocr.phase = s.ocr.phase
       \/ (s.ocr.phase = "Translating" /\ r.ocr.phase \in {"Idle", "Error"})

LEMMA ReportFacts ==
    ASSUME NEW s, GoodState(s), NEW t \in Tasks,
           NEW event \in {"started", "progress", "finished", "failed"}, NEW session
    PROVE  Reports(s, Report(s, t, event, session), t, event)
<1> DEFINE r == Report(s, t, event, session)
           Waiter(i) == /\ s.sessions[i].task = t
                        /\ event = "started" /\ session = None => s.current = t
           InSession(v) == [Reported(v, t, event) EXCEPT !.task = IF Ends(event) THEN None ELSE @]
           f == [i \in Live(s) |-> IF Waiter(i) THEN InSession(s.sessions[i]) ELSE s.sessions[i]]
           phase == IF /\ Ends(event) /\ session \in Live(s) /\ Waiter(session)
                       /\ s.ocr.popup = session /\ s.ocr.phase = "Translating"
                    THEN IF event = "finished" THEN "Idle" ELSE "Error"
                    ELSE s.ocr.phase
<1>1. /\ r.nextTask = s.nextTask /\ r.nextSession = s.nextSession /\ r.active = s.active
      /\ r.toolbar = s.toolbar
      /\ r.current = IF s.current = t /\ Ends(event) THEN None ELSE s.current
      /\ r.main = IF s.current = t THEN Reported(s.main, t, event) ELSE s.main
      /\ r.sessions = f /\ r.ocr = [s.ocr EXCEPT !.phase = phase]
  BY Fields DEF Report, StateRecord
<1>2. r.ocr.popup = s.ocr.popup /\ r.ocr.generation = s.ocr.generation /\ r.ocr.phase = phase
  <2> HIDE DEF phase
  <2> QED BY <1>1, Fields DEF Ocr
<1>3. ASSUME NEW view \in MainView PROVE ViewReported(view, Reported(view, t, event), t, event)
  BY DEF ViewReported, Reported, MainView
<1>4. ASSUME NEW view \in Session, view.task = t
      PROVE  /\ ViewReported(view, InSession(view), t, event)
             /\ InSession(view).pinned = view.pinned
             /\ InSession(view).task = IF Ends(event) THEN None ELSE t
  BY <1>4 DEF ViewReported, Reported, Session, Ends
<1>5. \A i \in Live(s) : s.sessions[i] \in Session BY Fields
<1> HIDE DEF InSession, phase
<1>6. Live(r) = Live(s) /\ \A i \in Live(s) :
            r.sessions[i] = IF Waiter(i) THEN InSession(s.sessions[i]) ELSE s.sessions[i]
  BY <1>1 DEF Live
<1>7. ASSUME NEW i \in Live(s)
      PROVE  /\ r.sessions[i].pinned = s.sessions[i].pinned
             /\ \/ r.sessions[i] = s.sessions[i]
                   /\ (s.sessions[i].task = t => event = "started")
                \/ s.sessions[i].task = t /\ ViewReported(s.sessions[i], r.sessions[i], t, event)
                   /\ r.sessions[i].task = IF Ends(event) THEN None ELSE t
  BY <1>4, <1>5, <1>6
<1>8. r.ocr.phase = s.ocr.phase
      \/ (s.ocr.phase = "Translating" /\ r.ocr.phase \in {"Idle", "Error"})
  BY <1>2 DEF phase
<1>9. s.current = t => ViewReported(s.main, r.main, t, event) BY <1>1, <1>3, Fields
<1>10. s.current # t => r.main = s.main BY <1>1
<1> QED BY <1>1, <1>2, <1>6, <1>7, <1>8, <1>9, <1>10 DEF Reports

\* OCR failed; its popup says so.
Fails(s, r) ==
    /\ SameTasks(s, r) /\ r.toolbar = s.toolbar /\ r.nextSession = s.nextSession
    /\ r.ocr.phase = "Error" /\ r.ocr.generation = s.ocr.generation
    /\ Live(r) = Live(s)
    /\ \A i \in Live(s) : r.sessions[i] = IF i = s.ocr.popup
                                          THEN [s.sessions[i] EXCEPT !.phase = "Error"]
                                          ELSE s.sessions[i]

LEMMA OcrFailsFacts ==
    ASSUME NEW s, GoodState(s)
    PROVE  Fails(s, OcrFails(s))
BY Fields DEF OcrFails, StateRecord, Live, Ocr, Fails, SameTasks

\* OCR is in a new generation.
Shoots(s, r, phase) ==
    /\ SameTasks(s, r) /\ SamePopups(s, r) /\ r.toolbar = s.toolbar
    /\ r.ocr = [phase |-> phase, popup |-> None, generation |-> s.ocr.generation + 1]

LEMMA NewShotFacts ==
    ASSUME NEW s, GoodState(s), NEW phase
    PROVE  Shoots(s, NewShot(s, phase), phase)
BY Fields DEF NewShot, StateRecord, Live, Passive, Shoots, SameTasks, SamePopups

\* The toolbar offers nothing.
Clears(s, r) ==
    /\ SameTasks(s, r) /\ SamePopups(s, r) /\ r.ocr = s.ocr
    /\ r.toolbar = [generation |-> s.toolbar.generation + 1, selection |-> None]

LEMMA ToolbarClearedFacts ==
    ASSUME NEW s, GoodState(s)
    PROVE  Clears(s, ToolbarCleared(s))
BY Fields DEF ToolbarCleared, StateRecord, Live, Passive, Clears, SameTasks,
   SamePopups

\* A request made in a popup, before the popup waits for the new task.
Requests(s, r, id) ==
    /\ SameTasks(s, r) /\ SamePopups(s, r) /\ r.toolbar = s.toolbar
    /\ r.ocr = s.ocr \/ (r.ocr.phase = "Idle" /\ s.ocr.popup = id)

LEMMA PopupRequestFacts ==
    ASSUME NEW s, GoodState(s), NEW id
    PROVE  Requests(s, PopupRequest(s, id), id)
<1> SUFFICES ASSUME NEW r, r = PopupRequest(s, id) PROVE Requests(s, r, id) OBVIOUS
<1>1. CASE s.ocr.popup = id /\ s.ocr.phase = "Recognizing"
  <2>1. r = NewShot(s, "Idle") BY <1>1 DEF PopupRequest
  <2>2. Shoots(s, r, "Idle") BY <2>1, NewShotFacts
  <2>3. r.ocr.phase = "Idle" /\ s.ocr.popup = id BY <1>1, <2>2 DEF Shoots
  <2> QED BY <2>2, <2>3 DEF Shoots, Requests
<1>2. CASE ~(s.ocr.popup = id /\ s.ocr.phase = "Recognizing")
  <2>1. r = s BY <1>2 DEF PopupRequest
  <2> QED BY <2>1 DEF Requests, SameTasks, SamePopups
<1> QED BY <1>1, <1>2

\* A popup in another phase.
Rephases(s, r, id, phase) ==
    /\ SameTasks(s, r) /\ r.ocr = s.ocr /\ r.toolbar = s.toolbar
    /\ r.nextSession = s.nextSession /\ Live(r) = Live(s)
    /\ r.sessions[id] = [s.sessions[id] EXCEPT !.phase = phase]
    /\ \A i \in Live(s) \ {id} : r.sessions[i] = s.sessions[i]

LEMMA PopupPhaseFacts ==
    ASSUME NEW s, GoodState(s), NEW id \in Live(s), NEW phase, NEW r,
           r = [s EXCEPT !.sessions[id].phase = phase]
    PROVE  Rephases(s, r, id, phase)
BY Fields DEF StateRecord, Live, Rephases, SameTasks

\* A popup is pinned.
Pins(s, r, id) ==
    /\ SameTasks(s, r) /\ r.ocr = s.ocr /\ r.toolbar = s.toolbar
    /\ r.nextSession = s.nextSession /\ Live(r) = Live(s)
    /\ r.sessions[id] = [s.sessions[id] EXCEPT !.pinned = TRUE]
    /\ \A i \in Live(s) \ {id} : r.sessions[i] = s.sessions[i]

LEMMA PinFacts ==
    ASSUME NEW s, GoodState(s), NEW id \in Passive(s), NEW r,
           r = [s EXCEPT !.sessions[id].pinned = TRUE, !.active = IF @ = id THEN None ELSE @]
    PROVE  Pins(s, r, id)
BY Fields DEF StateRecord, Live, Passive, Pins, SameTasks

\* A popup is unpinned and replaces the one that was unpinned.
Unpins(s, r, id) ==
    /\ SameTasks(s, r) /\ r.ocr = s.ocr /\ r.toolbar = s.toolbar /\ r.nextSession = s.nextSession
    /\ Live(r) = Live(s) \ ({s.active} \cap Passive(s))
    /\ r.sessions[id] = [s.sessions[id] EXCEPT !.pinned = FALSE]
    /\ \A i \in Live(r) \ {id} : r.sessions[i] = s.sessions[i]

LEMMA UnpinFacts ==
    ASSUME NEW s, GoodState(s), NEW id \in Live(s) \ Passive(s), NEW u, NEW r,
           u = [s EXCEPT !.sessions[id].pinned = FALSE, !.active = id],
           r = [u EXCEPT !.sessions =
                   [i \in Live(u) \ ({s.active} \cap Passive(s)) |-> u.sessions[i]]]
    PROVE  Unpins(s, r, id)
<1> DEFINE new == [s.sessions[id] EXCEPT !.pinned = FALSE]
<1>1. /\ u.current = s.current /\ u.main = s.main /\ u.nextTask = s.nextTask
      /\ u.ocr = s.ocr /\ u.toolbar = s.toolbar /\ u.nextSession = s.nextSession
      /\ u.sessions = [s.sessions EXCEPT ![id] = new] /\ u.active = id
  BY Fields DEF StateRecord
<1>2. u \in StateRecord(u.sessions)
  <2>1. u.sessions \in {u.sessions} OBVIOUS
  <2>2. id \in Nat BY Fields
  <2> QED BY <1>1, <2>2, Fields DEF StateRecord
<1>3. /\ r.current = s.current /\ r.main = s.main /\ r.nextTask = s.nextTask
      /\ r.ocr = s.ocr /\ r.toolbar = s.toolbar /\ r.nextSession = s.nextSession
      /\ r.sessions = [i \in Live(u) \ ({s.active} \cap Passive(s)) |-> u.sessions[i]]
  BY <1>1, <1>2 DEF StateRecord
<1> HIDE DEF new
<1>4. Live(u) = Live(s) /\ u.sessions[id] = new
      /\ \A i \in Live(s) \ {id} : u.sessions[i] = s.sessions[i]
  BY <1>1, Fields DEF Live
<1>5. Live(r) = Live(s) \ ({s.active} \cap Passive(s)) BY <1>3, <1>4 DEF Live
<1>6. id \in Live(r) BY <1>5
<1>7. \A i \in Live(r) : r.sessions[i] = u.sessions[i] BY ZenonT(60), <1>3, <1>4, <1>5
<1> QED BY ZenonT(60), <1>3, <1>4, <1>5, <1>6, <1>7 DEF new, Unpins, SameTasks

----------------------------------------
(* The steps, by what they change.                                            *)

MayTake == state.nextTask < MaxTasks

\* The next task is one of Tasks.
LEMMA NextTaskFacts ==
    ASSUME GoodState(state), MayTake
    PROVE  state.nextTask + 1 \in Tasks
BY Fields, MaxTasksAssumption DEF Tasks, MayTake

LEMMA HotkeyMoves ==
    ASSUME PopupInv, PressHotkey
    PROVE  /\ UNCHANGED <<pending, ocrJobs, uiVars, user>>
           /\ \/ UNCHANGED <<state, workers, registered>>
              \/ /\ MayTake /\ Begins(state, state', None)
                 /\ Dispatch(state', Begun(state'.current, "capturing", None))
<1> DEFINE s == BeginTask(state, "Capturing", None)
<1>1. /\ UNCHANGED <<pending, ocrJobs, uiVars, user>>
      /\ \/ UNCHANGED <<state, workers, registered>>
         \/ MayTake /\ Dispatch(s, Begun(s.current, "capturing", None))
  BY DEF PressHotkey, MayBegin, MayTake
<1>2. Begins(state, s, None) BY BeginTaskFacts DEF PopupInv
<1> HIDE DEF s
<1>3. \A ws : Dispatch(s, ws) => state' = s BY DEF Dispatch
<1> QED BY <1>1, <1>2, <1>3

LEMMA CapturedMoves ==
    ASSUME PopupInv, NEW t \in Tasks, SelectionCaptured(t)
    PROVE  /\ workers[t].stage = "captured"
           /\ UNCHANGED <<ocrJobs, uiVars, user>>
           /\ \/ /\ state.current = t /\ state'.current = t
                 /\ state'.main = [state.main EXCEPT !.source = t]
                 /\ state'.nextTask = state.nextTask /\ state'.ocr = state.ocr
                 /\ state'.toolbar = state.toolbar
                 /\ Gives(state, state', "Translating", t, t)
                 /\ Dispatch(state', [workers EXCEPT ![t].stage = "starting"])
                 /\ Execute(t, <<Show(state'.active), Translate(t)>>)
              \/ /\ state.current # t /\ UNCHANGED <<state, pending>>
                 /\ Dispatch(state', [workers EXCEPT ![t].stage = "done"])
<1>1. workers[t].stage = "captured" /\ UNCHANGED <<ocrJobs, uiVars, user>> BY DEF SelectionCaptured
<1>2. CASE state.current = t
  <2> DEFINE m == [state EXCEPT !.main.source = t]
             s == PreparePopup(m, "Translating", t, t)
  <2>1. /\ Dispatch(s, [workers EXCEPT ![t].stage = "starting"])
        /\ Execute(t, <<Show(s.active), Translate(t)>>)
    BY <1>2 DEF SelectionCaptured
  <2>2. /\ m.main = [state.main EXCEPT !.source = t] /\ m.current = state.current
        /\ m.nextTask = state.nextTask /\ m.ocr = state.ocr /\ m.toolbar = state.toolbar
        /\ m.sessions = state.sessions /\ m.active = state.active
        /\ m.nextSession = state.nextSession
    BY Fields DEF PopupInv, StateRecord
  <2>3. GoodState(m)
    <3> DEFINE main == [state.main EXCEPT !.source = t]
    <3>1. main \in MainView /\ state.current \in {None} \cup Tasks BY Fields DEF MainView, PopupInv
    <3>2. m = [state EXCEPT !.current = state.current, !.main = main]
      BY Fields DEF StateRecord, PopupInv
    <3> HIDE DEF m, main
    <3>3. GoodState([state EXCEPT !.current = state.current, !.main = main])
      BY <3>1, MainOnlyGood DEF PopupInv
    <3> QED BY <3>2, <3>3, Zenon
  <2> HIDE DEF m
  <2>4. Prepares(m, s, "Translating", t, t) BY <2>3, PreparePopupFacts
  <2> HIDE DEF s
  <2>5. Live(m) = Live(state) /\ Passive(m) = Passive(state) BY <2>2 DEF Live, Passive
  <2>6. Gives(state, s, "Translating", t, t) BY <2>2, <2>4, <2>5 DEF Prepares, Gives
  <2>7. state' = s BY <2>1 DEF Dispatch
  <2>8. /\ s.current = t /\ s.main = [state.main EXCEPT !.source = t]
        /\ s.nextTask = state.nextTask /\ s.ocr = state.ocr /\ s.toolbar = state.toolbar
    BY <1>2, <2>2, <2>4 DEF Prepares, SameTasks
  <2> QED BY <1>1, <1>2, <2>1, <2>6, <2>7, <2>8
<1>3. CASE state.current # t
  <2>1. Dispatch(state, [workers EXCEPT ![t].stage = "done"]) /\ UNCHANGED pending
    BY <1>3 DEF SelectionCaptured
  <2>2. state' = state BY <2>1 DEF Dispatch
  <2> QED BY <1>1, <1>3, <2>1, <2>2
<1> QED BY <1>2, <1>3

LEMMA NotCapturedMoves ==
    ASSUME PopupInv, NEW t \in Tasks, SelectionNotCaptured(t)
    PROVE  /\ workers[t].stage \in {"empty", "failed"}
           /\ UNCHANGED <<ocrJobs, uiVars, user>>
           /\ Dispatch(state', [workers EXCEPT ![t].stage = "done"])
           /\ \/ /\ state.current = t /\ state'.current = None
                 /\ state'.main.source = None /\ state'.main.result = None
                 /\ state'.nextTask = state.nextTask /\ state'.ocr = state.ocr
                 /\ state'.toolbar = state.toolbar
                 /\ \/ Gives(state, state', "NoSelection", None, None)
                    \/ Gives(state, state', "Error", None, None)
                 /\ Execute(t, <<Show(state'.active)>>)
              \/ state.current # t /\ UNCHANGED <<state, pending>>
<1>1. workers[t].stage \in {"empty", "failed"} /\ UNCHANGED <<ocrJobs, uiVars, user>>
  BY DEF SelectionNotCaptured
<1>2. CASE state.current = t
  <2> DEFINE phase == IF workers[t].stage = "empty" THEN "NoSelection" ELSE "Error"
             m == [state EXCEPT !.current = None, !.main.phase = phase,
                                !.main.source = None, !.main.result = None]
             s == PreparePopup(m, phase, None, None)
  <2>1. /\ Dispatch(s, [workers EXCEPT ![t].stage = "done"])
        /\ Execute(t, <<Show(s.active)>>)
    BY <1>2 DEF SelectionNotCaptured
  <2>2. phase \in Phases /\ phase \in {"NoSelection", "Error"} BY PhaseNames
  <2> HIDE DEF phase
  <2>3. /\ m.main = [state.main EXCEPT !.phase = phase, !.source = None, !.result = None]
        /\ m.current = None
        /\ m.nextTask = state.nextTask /\ m.ocr = state.ocr /\ m.toolbar = state.toolbar
        /\ m.sessions = state.sessions /\ m.active = state.active
        /\ m.nextSession = state.nextSession
    BY Fields DEF PopupInv, StateRecord
  <2>4. m.main.source = None /\ m.main.result = None
    BY ZenonT(60), <2>3, Fields DEF PopupInv, MainView
  <2>5. GoodState(m)
    <3> DEFINE main == [state.main EXCEPT !.phase = phase, !.source = None, !.result = None]
    <3>1. main \in MainView BY <2>2, Fields, MainChange DEF PopupInv
    <3>2. m = [state EXCEPT !.current = None, !.main = main] OBVIOUS
    <3> HIDE DEF m, main
    <3>3. GoodState([state EXCEPT !.current = None, !.main = main])
      BY <3>1, MainOnlyGood DEF PopupInv
    <3> QED BY <3>2, <3>3, Zenon
  <2> HIDE DEF m
  <2>6. Prepares(m, s, phase, None, None) BY <2>5, PreparePopupFacts
  <2> HIDE DEF s
  <2>7. Live(m) = Live(state) /\ Passive(m) = Passive(state) BY <2>3 DEF Live, Passive
  <2>8. Gives(state, s, phase, None, None) BY <2>3, <2>6, <2>7 DEF Prepares, Gives
  <2>9. state' = s BY <2>1 DEF Dispatch
  <2>10. /\ s.current = None /\ s.main.source = None /\ s.main.result = None
         /\ s.nextTask = state.nextTask /\ s.ocr = state.ocr /\ s.toolbar = state.toolbar
    BY <2>3, <2>4, <2>6 DEF Prepares, SameTasks
  <2>11. \/ Gives(state, s, "NoSelection", None, None)
         \/ Gives(state, s, "Error", None, None)
    BY <2>2, <2>8
  <2> QED BY <1>1, <1>2, <2>1, <2>9, <2>10, <2>11
<1>3. CASE state.current # t
  <2>1. Dispatch(state, [workers EXCEPT ![t].stage = "done"]) /\ UNCHANGED pending
    BY <1>3 DEF SelectionNotCaptured
  <2>2. state' = state BY <2>1 DEF Dispatch
  <2> QED BY <1>1, <1>3, <2>1, <2>2
<1> QED BY <1>2, <1>3

LEMMA InputMoves ==
    ASSUME PopupInv, InputTranslation
    PROVE  /\ UNCHANGED <<ocrJobs, uiVars, user>>
           /\ MayTake /\ Free(UI) /\ Begins(state, state', state.nextTask + 1)
           /\ Dispatch(state', Begun(state'.current, "starting", None))
           /\ Execute(UI, <<Translate(state'.current)>>)
<1> DEFINE s == BeginTask(state, "Idle", state.nextTask + 1)
<1>1. /\ UNCHANGED <<ocrJobs, uiVars, user>> /\ MayTake /\ Free(UI)
      /\ Dispatch(s, Begun(s.current, "starting", None))
      /\ Execute(UI, <<Translate(s.current)>>)
  BY DEF InputTranslation, MayBegin, MayTake
<1>2. Begins(state, s, state.nextTask + 1) BY BeginTaskFacts DEF PopupInv
<1> HIDE DEF s
<1>3. state' = s BY <1>1 DEF Dispatch
<1> QED BY <1>1, <1>2, <1>3

\* The main window waits for nothing and shows no result.
Quits(s, r) ==
    /\ SamePopups(s, r) /\ r.ocr = s.ocr /\ r.toolbar = s.toolbar /\ r.nextTask = s.nextTask
    /\ r.current = None /\ r.main.result = None

LEMMA MainQuits ==
    ASSUME PopupInv, EmptyInput \/ CloseMainWindow
    PROVE  /\ Quits(state, state') /\ Dispatch(state', workers)
           /\ UNCHANGED <<pending, ocrJobs, uiVars, user>>
<1> USE DEF PopupInv
<1>1. CASE EmptyInput
  <2> DEFINE main == [EmptyView EXCEPT !.phase = "Error"]
             s    == [state EXCEPT !.current = None, !.main = main]
  <2>1. Dispatch(s, workers) /\ UNCHANGED <<pending, ocrJobs, uiVars, user>> BY <1>1 DEF EmptyInput
  <2>2. main.result = None BY DEF EmptyView
  <2> HIDE DEF main
  <2>3. Quits(state, s) BY <2>2, Fields DEF Quits, StateRecord, SamePopups, Live, Passive
  <2> HIDE DEF s
  <2> QED BY <2>1, <2>3 DEF Dispatch
<1>2. CASE CloseMainWindow
  <2> DEFINE main == [state.main EXCEPT !.phase = "Idle", !.result = None]
             s    == [state EXCEPT !.current = None, !.main = main]
  <2>1. Dispatch(s, workers) /\ UNCHANGED <<pending, ocrJobs, uiVars, user>>
    BY <1>2 DEF CloseMainWindow
  <2>2. main.result = None BY Fields DEF MainView
  <2> HIDE DEF main
  <2>3. Quits(state, s) BY <2>2, Fields DEF Quits, StateRecord, SamePopups, Live, Passive
  <2> HIDE DEF s
  <2> QED BY <2>1, <2>3 DEF Dispatch
<1> QED BY <1>1, <1>2

\* A request in a popup with a text.
LEMMA TranslatePopupMoves ==
    ASSUME PopupInv, NEW id, TranslatePopup(id)
    PROVE  /\ UNCHANGED <<ocrJobs, uiVars, user>> /\ MayTake /\ Free(UI)
           /\ state'.ocr = state.ocr \/ (state'.ocr.phase = "Idle" /\ state.ocr.popup = id)
           /\ \/ /\ id \in Live(state) /\ Asks(state, state', id)
                 /\ Dispatch(state', Begun(state'.nextTask, "starting", id))
                 /\ Execute(UI, <<Translate(state'.nextTask)>>)
              \/ /\ id \notin Live(state) /\ Requests(state, state', id)
                 /\ Dispatch(state', workers) /\ UNCHANGED pending
<1> DEFINE p == PopupRequest(state, id)
           s == TranslateIn(p, id)
<1>1. /\ UNCHANGED <<ocrJobs, uiVars, user>> /\ MayTake /\ Free(UI)
      /\ IF id \in Live(state)
         THEN /\ Dispatch(s, Begun(s.nextTask, "starting", id))
              /\ Execute(UI, <<Translate(s.nextTask)>>)
         ELSE Dispatch(s, workers) /\ UNCHANGED pending
  BY DEF TranslatePopup, MayBegin, MayTake
<1>2. GoodState(p) /\ Requests(state, p, id) BY PopupRequestGood, PopupRequestFacts DEF PopupInv
<1> HIDE DEF p
<1>3. Live(p) = Live(state) BY <1>2 DEF Requests, SamePopups
<1>4. CASE id \in Live(state)
  <2>1. Asks(p, s, id) /\ s.ocr = p.ocr BY <1>2, <1>3, <1>4, TranslateInFacts
  <2> HIDE DEF s
  <2>2. Asks(state, s, id) BY <1>2, <2>1 DEF Asks, Requests, SameTasks, SamePopups
  <2>3. s.ocr = state.ocr \/ (s.ocr.phase = "Idle" /\ state.ocr.popup = id)
    BY <1>2, <2>1 DEF Requests
  <2>4. Dispatch(s, Begun(s.nextTask, "starting", id)) /\ Execute(UI, <<Translate(s.nextTask)>>)
    BY <1>1, <1>4
  <2>5. state' = s BY <2>4 DEF Dispatch
  <2> QED BY <1>1, <1>4, <2>2, <2>3, <2>4, <2>5
<1>5. CASE id \notin Live(state)
  <2>1. s = p BY <1>3, <1>5 DEF TranslateIn
  <2> HIDE DEF s
  <2>2. Dispatch(p, workers) /\ UNCHANGED pending BY <1>1, <1>5, <2>1
  <2>3. state' = p BY <2>2 DEF Dispatch
  <2>4. p.ocr = state.ocr \/ (p.ocr.phase = "Idle" /\ state.ocr.popup = id) BY <1>2 DEF Requests
  <2> QED BY <1>1, <1>2, <1>5, <2>2, <2>3, <2>4
<1> QED BY <1>4, <1>5

\* A popup tells an error, or nothing of it is changed.
Complains(s, r, id) ==
    /\ SameTasks(s, r) /\ r.toolbar = s.toolbar
    /\ r.nextSession = s.nextSession /\ Live(r) = Live(s)
    /\ r.ocr = s.ocr \/ (r.ocr.phase = "Idle" /\ s.ocr.popup = id)
    /\ id \in Live(s) => r.sessions[id] = [s.sessions[id] EXCEPT !.phase = "Error"]
    /\ \A i \in Live(s) \ {id} : r.sessions[i] = s.sessions[i]

LEMMA TranslateEmptyMoves ==
    ASSUME PopupInv, NEW id, TranslateEmptyPopup(id)
    PROVE  /\ UNCHANGED <<pending, ocrJobs, uiVars, user>>
           /\ Complains(state, state', id) /\ Dispatch(state', workers)
<1> DEFINE p == PopupRequest(state, id)
           s == IF id \in Live(p) THEN [p EXCEPT !.sessions[id].phase = "Error"] ELSE p
<1>1. UNCHANGED <<pending, ocrJobs, uiVars, user>> /\ Dispatch(s, workers)
  BY DEF TranslateEmptyPopup
<1>2. GoodState(p) /\ Requests(state, p, id) BY PopupRequestGood, PopupRequestFacts DEF PopupInv
<1> HIDE DEF p
<1>3. Live(p) = Live(state) BY <1>2 DEF Requests, SamePopups
<1>4. ASSUME id \in Live(p) PROVE Rephases(p, s, id, "Error") BY <1>2, <1>4, PopupPhaseFacts
<1>5. id \notin Live(p) => s = p OBVIOUS
<1>6. state' = s BY <1>1 DEF Dispatch
<1> HIDE DEF s
<1>7. Complains(state, s, id)
  <2>1. CASE id \in Live(p)
    BY <1>2, <1>3, <1>4, <2>1 DEF Rephases, Requests, SameTasks, SamePopups, Complains
  <2>2. CASE id \notin Live(p)
    BY <1>2, <1>3, <1>5, <2>2 DEF Requests, SameTasks, SamePopups, Complains
  <2> QED BY <2>1, <2>2
<1> QED BY <1>1, <1>6, <1>7

LEMMA PinMoves ==
    ASSUME PopupInv, NEW id, PinPopup(id)
    PROVE  /\ UNCHANGED <<pending, ocrJobs, uiVars, user>> /\ "pin" \in user.operations
           /\ id \in Passive(state) /\ Pins(state, state', id) /\ Dispatch(state', workers)
<1> DEFINE s == [state EXCEPT !.sessions[id].pinned = TRUE, !.active = IF @ = id THEN None ELSE @]
<1>1. /\ UNCHANGED <<pending, ocrJobs, uiVars, user>> /\ "pin" \in user.operations
      /\ id \in Passive(state) /\ Dispatch(s, workers)
  BY DEF PinPopup
<1>2. Pins(state, s, id) BY <1>1, PinFacts DEF PopupInv
<1> HIDE DEF s
<1>3. state' = s BY <1>1 DEF Dispatch
<1> QED BY <1>1, <1>2, <1>3

LEMMA UnpinMoves ==
    ASSUME PopupInv, NEW id, UnpinPopup(id)
    PROVE  LET replaced == {state.active} \cap Passive(state) IN
           /\ UNCHANGED <<ocrJobs, uiVars, user>> /\ "pin" \in user.operations /\ Free(UI)
           /\ id \in Live(state) \ Passive(state) /\ Unpins(state, state', id)
           /\ Dispatch(state', workers)
           /\ Execute(UI, IF replaced = {} THEN <<>> ELSE <<Hide(state.active)>>)
<1> DEFINE replaced == {state.active} \cap Passive(state)
           u == [state EXCEPT !.sessions[id].pinned = FALSE, !.active = id]
           s == [u EXCEPT !.sessions = [i \in Live(u) \ replaced |-> u.sessions[i]]]
<1>1. /\ UNCHANGED <<ocrJobs, uiVars, user>> /\ "pin" \in user.operations /\ Free(UI)
      /\ id \in Live(state) \ Passive(state) /\ Dispatch(s, workers)
      /\ Execute(UI, IF replaced = {} THEN <<>> ELSE <<Hide(state.active)>>)
  BY DEF UnpinPopup
<1>2. Unpins(state, s, id) BY <1>1, UnpinFacts DEF PopupInv
<1> HIDE DEF s
<1>3. state' = s BY <1>1 DEF Dispatch
<1> QED BY <1>1, <1>2, <1>3

LEMMA CloseMoves ==
    ASSUME PopupInv, NEW id, CloseWindow(id)
    PROVE  /\ UNCHANGED <<ocrJobs, uiQueue, unshown, user>> /\ windows' = windows \ {id}
           /\ Free(UI) /\ Closes(state, state', id) /\ Dispatch(state', workers)
           /\ Execute(UI, HideIfLive(state, id))
<1> DEFINE s == ClosePopup(state, id)
<1>1. /\ UNCHANGED <<ocrJobs, uiQueue, unshown, user>> /\ windows' = windows \ {id}
      /\ Free(UI) /\ Dispatch(s, workers) /\ Execute(UI, HideIfLive(state, id))
  BY DEF CloseWindow
<1>2. Closes(state, s, id) BY ClosePopupFacts DEF PopupInv
<1> HIDE DEF s
<1>3. state' = s BY <1>1 DEF Dispatch
<1> QED BY <1>1, <1>2, <1>3

----------------------------------------
\* The commands of a thread: the first one is taken.
LEMMA StartMoves ==
    ASSUME PopupInv, NEW thread \in Threads, StartTranslation(thread)
    PROVE  \E t \in Tasks :
             /\ ~Free(thread) /\ Head(pending[thread]) = Translate(t)
             /\ UNCHANGED <<ocrJobs, uiVars, user>> /\ Reports(state, state', t, "started")
             /\ Dispatch(state', [workers EXCEPT ![t].stage = "running"])
             /\ Execute(thread, <<Register(t)>> \o Tail(pending[thread]))
<1> DEFINE t == Head(pending[thread]).id
           s == Report(state, t, "started", workers[t].session)
<1>1. /\ ~Free(thread) /\ Head(pending[thread]).op = "translate"
      /\ UNCHANGED <<ocrJobs, uiVars, user>>
      /\ Dispatch(s, [workers EXCEPT ![t].stage = "running"])
      /\ Execute(thread, <<Register(t)>> \o Tail(pending[thread]))
  BY DEF StartTranslation
<1>2. t \in Tasks /\ Head(pending[thread]) = Translate(t)
  BY <1>1, PendingTail DEF PopupInv, Command, Translate
<1>3. Reports(state, s, t, "started") BY <1>2, ReportFacts DEF PopupInv
<1> HIDE DEF s
<1>4. state' = s BY <1>1 DEF Dispatch
<1> QED BY <1>1, <1>2, <1>3, <1>4

LEMMA RegisterMoves ==
    ASSUME PopupInv, NEW thread \in Threads, RegisterTranslation(thread)
    PROVE  \E t \in Tasks :
             /\ ~Free(thread) /\ Head(pending[thread]) = Register(t)
             /\ UNCHANGED <<state, ocrJobs, uiVars, user>>
             /\ \/ t \in Wanted(state) /\ registered' = registered \cup {t} /\ UNCHANGED workers
                \/ /\ t \notin Wanted(state) /\ UNCHANGED registered
                   /\ workers' = [workers EXCEPT ![t].stage =
                                      IF @ = "running" THEN "aborted" ELSE @]
             /\ Execute(thread, Tail(pending[thread]))
<1> DEFINE t == Head(pending[thread]).id
<1>1. /\ ~Free(thread) /\ Head(pending[thread]).op = "register"
      /\ UNCHANGED <<state, ocrJobs, uiVars, user>>
      /\ \/ t \in Wanted(state) /\ registered' = registered \cup {t} /\ UNCHANGED workers
         \/ /\ t \notin Wanted(state) /\ UNCHANGED registered
            /\ workers' = [workers EXCEPT ![t].stage = IF @ = "running" THEN "aborted" ELSE @]
      /\ Execute(thread, Tail(pending[thread]))
  BY DEF RegisterTranslation
<1>2. t \in Tasks /\ Head(pending[thread]) = Register(t)
  BY <1>1, PendingTail DEF PopupInv, Command, Register
<1> HIDE DEF t
<1> QED BY <1>1, <1>2

\* A worker reports.
LEMMA ReportMoves ==
    ASSUME PopupInv, NEW t \in Tasks, ReportProgress(t) \/ EndTranslation(t)
    PROVE  /\ UNCHANGED <<pending, ocrJobs, uiVars, user>>
           /\ workers[t].stage \in {"running", "aborted"}
           /\ \/ Reports(state, state', t, "progress") /\ Dispatch(state', workers)
              \/ /\ \E event \in {"finished", "failed"} : Reports(state, state', t, event)
                 /\ Dispatch(state', [workers EXCEPT ![t].stage = "done"])
<1>1. UNCHANGED <<pending, ocrJobs, uiVars, user>> /\ workers[t].stage \in {"running", "aborted"}
  BY DEF ReportProgress, EndTranslation, Reporting
<1>2. ASSUME NEW event \in {"progress", "finished", "failed"}
      PROVE  Reports(state, Report(state, t, event, workers[t].session), t, event)
  BY ReportFacts DEF PopupInv
<1>3. CASE ReportProgress(t)
  <2> DEFINE s == Report(state, t, "progress", workers[t].session)
  <2>1. Dispatch(s, workers) BY <1>3 DEF ReportProgress
  <2>2. Reports(state, s, t, "progress") BY <1>2
  <2> HIDE DEF s
  <2> QED BY <1>1, <2>1, <2>2 DEF Dispatch
<1>4. CASE EndTranslation(t)
  <2>1. PICK event \in {"finished", "failed"} :
            Dispatch(Report(state, t, event, workers[t].session), [workers EXCEPT ![t].stage = "done"])
    BY <1>4 DEF EndTranslation
  <2> DEFINE s == Report(state, t, event, workers[t].session)
  <2>2. Reports(state, s, t, event) BY <1>2
  <2>3. Dispatch(s, [workers EXCEPT ![t].stage = "done"]) BY <2>1
  <2> HIDE DEF s
  <2>4. state' = s BY <2>3 DEF Dispatch
  <2> QED BY <1>1, <2>2, <2>3, <2>4
<1> QED BY <1>3, <1>4

----------------------------------------
\* Nothing but the phase of OCR changes.
Turns(s, r, phase) ==
    /\ SameTasks(s, r) /\ SamePopups(s, r) /\ r.toolbar = s.toolbar
    /\ r.ocr.phase = phase /\ r.ocr.popup = s.ocr.popup /\ r.ocr.generation = s.ocr.generation

LEMMA OcrPhaseFacts ==
    ASSUME NEW s, GoodState(s), NEW phase
    PROVE  Turns(s, [s EXCEPT !.ocr.phase = phase], phase)
BY Fields DEF StateRecord, Live, Passive, Ocr, Turns, SameTasks, SamePopups

\* A refused request shows a popup that says why.
Refuses(s, r) ==
    /\ SameTasks(s, r) /\ r.toolbar = s.toolbar /\ Gives(s, r, "Error", None, None)
    /\ r.ocr = s.ocr

LEMMA RefuseMoves ==
    ASSUME NEW s, GoodState(s), RefuseOcr(s)
    PROVE  /\ UNCHANGED ocrJobs /\ Refuses(s, state') /\ Dispatch(state', workers)
           /\ Execute(UI, <<Show(state'.active)>>)
<1> DEFINE told == PreparePopup(s, "Error", None, None)
<1>1. UNCHANGED ocrJobs /\ Dispatch(told, workers) /\ Execute(UI, <<Show(told.active)>>)
  BY DEF RefuseOcr
<1>2. Prepares(s, told, "Error", None, None) BY PreparePopupFacts
<1> HIDE DEF told
<1>3. state' = told BY <1>1 DEF Dispatch
<1>4. Refuses(s, told) BY <1>2 DEF Prepares, Refuses
<1> QED BY <1>1, <1>3, <1>4

\* The shortcut retires the request under way, and with it its popup unless that is
\* pinned; a pinned one that waits for a recognition stops waiting.
Retires(s, r) ==
    LET id  == s.ocr.popup
        old == s.ocr.phase \in {"Recognizing", "Translating"} /\ id \in Live(s) IN
    /\ r.nextTask = s.nextTask /\ r.nextSession = s.nextSession
    /\ r.toolbar.selection = None
    /\ r.ocr.phase = "Checking"
    /\ Live(r) = IF old /\ id \in Passive(s) THEN Live(s) \ {id} ELSE Live(s)
    /\ \A i \in Live(r) : r.sessions[i] = IF i = id /\ s.ocr.phase = "Recognizing"
                                          THEN [s.sessions[i] EXCEPT !.phase = "Idle"]
                                          ELSE s.sessions[i]
    /\ \/ r.current = s.current /\ r.main = s.main
       \/ r.current = None /\ r.main = [s.main EXCEPT !.phase = "Idle", !.result = None]

LEMMA BeginOcrMoves ==
    ASSUME PopupInv, BeginOcr
    PROVE  LET id  == state.ocr.popup
               old == state.ocr.phase \in {"Recognizing", "Translating"} /\ id \in Live(state) IN
           /\ Retires(state, state') /\ Dispatch(state', workers)
           /\ Execute(UI, IF old /\ id \in Passive(state) THEN <<Hide(id)>> ELSE <<>>)
           /\ ocrJobs' = ocrJobs \cup {Job("check", state'.ocr.generation)}
<1> DEFINE id  == state.ocr.popup
           old == state.ocr.phase \in {"Recognizing", "Translating"} /\ id \in Live(state)
           s   == IF old /\ id \in Passive(state) THEN ClosePopup(state, id)
                  ELSE IF old /\ state.ocr.phase = "Recognizing"
                  THEN [state EXCEPT !.sessions[id].phase = "Idle"] ELSE state
           shot == NewShot(s, "Checking")
           new  == ToolbarCleared(shot)
<1>1. /\ Dispatch(new, workers)
      /\ Execute(UI, IF old /\ id \in Passive(state) THEN <<Hide(id)>> ELSE <<>>)
      /\ ocrJobs' = ocrJobs \cup {Job("check", new.ocr.generation)}
  BY DEF BeginOcr
<1>2. GoodState(s)
  <2>1. GoodState(ClosePopup(state, id)) BY ClosePopupGood DEF PopupInv
  <2>2. id \in Live(state) => GoodState([state EXCEPT !.sessions[id].phase = "Idle"])
    BY SMTT(30), PhaseNames, PopupPhaseGood DEF PopupInv
  <2> QED BY <2>1, <2>2 DEF PopupInv
<1>3. /\ s.nextTask = state.nextTask /\ s.nextSession = state.nextSession
      /\ Live(s) = IF old /\ id \in Passive(state) THEN Live(state) \ {id} ELSE Live(state)
      /\ \A i \in Live(s) : s.sessions[i] = IF i = id /\ state.ocr.phase = "Recognizing"
                                            THEN [state.sessions[i] EXCEPT !.phase = "Idle"]
                                            ELSE state.sessions[i]
      /\ \/ s.current = state.current /\ s.main = state.main
         \/ s.current = None /\ s.main = [state.main EXCEPT !.phase = "Idle", !.result = None]
  <2>1. CASE old /\ id \in Passive(state)
    <3>1. s = ClosePopup(state, id) BY <2>1
    <3>2. Closes(state, s, id) BY <3>1, ClosePopupFacts DEF PopupInv
    <3> HIDE DEF s
    <3>3. id \notin Live(s) BY <3>2 DEF Closes
    <3> QED BY <2>1, <3>2, <3>3 DEF Closes
  <2>2. CASE ~(old /\ id \in Passive(state)) /\ old /\ state.ocr.phase = "Recognizing"
    <3>1. s = [state EXCEPT !.sessions[id].phase = "Idle"] /\ id \in Live(state) BY <2>2
    <3>2. Rephases(state, s, id, "Idle") BY <3>1, PopupPhaseFacts DEF PopupInv
    <3> HIDE DEF s
    <3> QED BY <2>2, <3>2 DEF Rephases, SameTasks
  <2>3. CASE ~(old /\ id \in Passive(state)) /\ ~(old /\ state.ocr.phase = "Recognizing")
    <3>1. s = state BY <2>3
    <3>2. ~(id \in Live(state) /\ state.ocr.phase = "Recognizing") BY <2>3
    <3> HIDE DEF s
    <3> QED BY <2>3, <3>1, <3>2
  <2> QED BY <2>1, <2>2, <2>3
<1> HIDE DEF s
<1>4. GoodState(shot) /\ Shoots(s, shot, "Checking") BY <1>2, PhaseNames, NewShotGood, NewShotFacts
<1> HIDE DEF shot
<1>5. Clears(shot, new) BY <1>4, ToolbarClearedFacts
<1> HIDE DEF new
<1>6. state' = new BY <1>1 DEF Dispatch
<1>7. Retires(state, new) BY <1>3, <1>4, <1>5 DEF Retires, Shoots, Clears, SameTasks, SamePopups
<1> QED BY <1>1, <1>6, <1>7

LEMMA RequestOcrMoves ==
    ASSUME PopupInv, RequestOcr
    PROVE  /\ UNCHANGED uiVars /\ user'.operations = user.operations /\ Free(UI)
           /\ \/ RefuseOcr(state)
              \/ /\ Shoots(state, state', "Idle") /\ Dispatch(state', workers)
                 /\ state.ocr.phase = "Capturing" /\ UNCHANGED <<pending, ocrJobs>>
              \/ BeginOcr
<1>1. /\ UNCHANGED uiVars /\ user' = [user EXCEPT !.shots = @ + 1] /\ Free(UI)
      /\ \/ RefuseOcr(state)
         \/ /\ state.ocr.phase = "Capturing" /\ Dispatch(NewShot(state, "Idle"), workers)
            /\ UNCHANGED <<pending, ocrJobs>>
         \/ BeginOcr
  BY DEF RequestOcr
<1>2. user'.operations = user.operations BY <1>1
<1>3. ASSUME Dispatch(NewShot(state, "Idle"), workers)
      PROVE  Shoots(state, state', "Idle") /\ Dispatch(state', workers)
  <2> DEFINE s == NewShot(state, "Idle")
  <2>1. Shoots(state, s, "Idle") BY NewShotFacts DEF PopupInv
  <2>2. Dispatch(s, workers) BY <1>3
  <2> HIDE DEF s
  <2> QED BY <2>1, <2>2 DEF Dispatch
<1> QED BY <1>1, <1>2, <1>3

LEMMA AnnotatingMoves ==
    ASSUME PopupInv, RequestOcrWhileAnnotating
    PROVE  /\ UNCHANGED <<ocrJobs, uiVars>> /\ user'.operations = user.operations /\ Free(UI)
           /\ "ocr while annotating" \in user.operations
           /\ SameTasks(state, state') /\ state'.toolbar = state.toolbar
           /\ Gives(state, state', "Error", None, None)
           /\ state'.ocr = state.ocr \/ state'.ocr.phase = "Error"
           /\ Dispatch(state', workers) /\ Execute(UI, <<Show(state'.active)>>)
<1>1. /\ UNCHANGED uiVars /\ user' = [user EXCEPT !.shots = @ + 1] /\ Free(UI)
      /\ "ocr while annotating" \in user.operations
      /\ \/ RefuseOcr(state)
         \/ RefuseOcr(IF state.ocr.phase = "Downloading" THEN state ELSE NewShot(state, "Error"))
  BY DEF RequestOcrWhileAnnotating
<1>2. user'.operations = user.operations
  <2>1. user' = [user EXCEPT !.shots = @ + 1] BY <1>1
  <2> QED BY <2>1
<1>3. CASE RefuseOcr(state) BY <1>1, <1>2, <1>3, RefuseMoves DEF Refuses, PopupInv
<1>4. CASE RefuseOcr(NewShot(state, "Error"))
  <2> DEFINE s == NewShot(state, "Error")
  <2>1. GoodState(s) /\ Shoots(state, s, "Error")
    BY PhaseNames, NewShotGood, NewShotFacts DEF PopupInv
  <2>2. RefuseOcr(s) BY <1>4
  <2> HIDE DEF s
  <2>3. /\ UNCHANGED ocrJobs /\ Refuses(s, state') /\ Dispatch(state', workers)
        /\ Execute(UI, <<Show(state'.active)>>)
    BY <2>1, <2>2, RefuseMoves
  <2>4. Gives(state, state', "Error", None, None)
    BY <2>1, <2>3 DEF Shoots, Refuses, Gives, SamePopups
  <2>5. SameTasks(state, state') /\ state'.toolbar = state.toolbar /\ state'.ocr.phase = "Error"
    BY <2>1, <2>3 DEF Shoots, Refuses, SameTasks
  <2> QED BY <1>1, <1>2, <2>3, <2>4, <2>5
<1> QED BY <1>1, <1>3, <1>4

LEMMA DownloadMoves ==
    ASSUME PopupInv, DownloadOcr
    PROVE  /\ UNCHANGED <<pending, uiVars>> /\ user'.operations = user.operations
           /\ state.ocr.phase \in {"Idle", "Error", "DownloadRequired"}
           /\ Shoots(state, state', "Downloading") /\ Dispatch(state', workers)
           /\ ocrJobs' = ocrJobs \cup {Job("download", state'.ocr.generation)}
<1> DEFINE s == NewShot(state, "Downloading")
<1>1. /\ UNCHANGED <<pending, uiVars>> /\ user' = [user EXCEPT !.shots = @ + 1]
      /\ state.ocr.phase \in {"Idle", "Error", "DownloadRequired"} /\ Dispatch(s, workers)
      /\ ocrJobs' = ocrJobs \cup {Job("download", s.ocr.generation)}
  BY DEF DownloadOcr
<1>2. user'.operations = user.operations BY <1>1
<1>3. Shoots(state, s, "Downloading") BY NewShotFacts DEF PopupInv
<1> HIDE DEF s
<1>4. state' = s BY <1>1 DEF Dispatch
<1> QED BY <1>1, <1>2, <1>3, <1>4

LEMMA SubmitMoves ==
    ASSUME PopupInv, NEW job, SubmitRegion(job)
    PROVE  /\ UNCHANGED <<uiVars, user>> /\ Free(UI) /\ JobIs(job, "overlay", "Capturing")
           /\ SameTasks(state, state') /\ state'.toolbar = state.toolbar
           /\ Gives(state, state', "Capturing", None, None)
           /\ state'.ocr.phase = "Recognizing" /\ state'.ocr.popup = state'.active
           /\ state'.ocr.generation = state.ocr.generation
           /\ Dispatch(state', workers) /\ Execute(UI, <<Show(state'.active)>>)
           /\ ocrJobs' = (ocrJobs \ {job}) \cup {Job("recognize", job.generation)}
<1> DEFINE shown == PreparePopup(state, "Capturing", None, None)
           s == [shown EXCEPT !.ocr.phase = "Recognizing", !.ocr.popup = shown.active]
<1>1. /\ UNCHANGED <<uiVars, user>> /\ Free(UI) /\ JobIs(job, "overlay", "Capturing")
      /\ Dispatch(s, workers) /\ Execute(UI, <<Show(shown.active)>>)
      /\ ocrJobs' = (ocrJobs \ {job}) \cup {Job("recognize", job.generation)}
  BY DEF SubmitRegion
<1>2. GoodState(shown) /\ Prepares(state, shown, "Capturing", None, None)
  BY PhaseNames, PreparePopupGood, PreparePopupFacts DEF PopupInv
<1> HIDE DEF shown
<1>3. /\ s.current = shown.current /\ s.main = shown.main /\ s.nextTask = shown.nextTask
      /\ s.toolbar = shown.toolbar /\ s.sessions = shown.sessions /\ s.active = shown.active
      /\ s.nextSession = shown.nextSession
      /\ s.ocr.phase = "Recognizing" /\ s.ocr.popup = shown.active
      /\ s.ocr.generation = shown.ocr.generation
  <2> DEFINE ocr == [shown.ocr EXCEPT !.phase = "Recognizing", !.popup = shown.active]
             n   == [shown EXCEPT !.ocr = ocr]
  <2>1. s = n BY <1>2, Fields DEF StateRecord
  <2>2. /\ ocr.phase = "Recognizing" /\ ocr.popup = shown.active
        /\ ocr.generation = shown.ocr.generation
    BY <1>2, Fields DEF Ocr
  <2> HIDE DEF s, ocr
  <2>3. /\ n.current = shown.current /\ n.main = shown.main /\ n.nextTask = shown.nextTask
        /\ n.toolbar = shown.toolbar /\ n.sessions = shown.sessions
        /\ n.active = shown.active /\ n.nextSession = shown.nextSession /\ n.ocr = ocr
    BY <1>2, Fields DEF StateRecord
  <2> HIDE DEF n
  <2>4. /\ s.current = shown.current /\ s.main = shown.main /\ s.nextTask = shown.nextTask
        /\ s.toolbar = shown.toolbar /\ s.sessions = shown.sessions
        /\ s.active = shown.active /\ s.nextSession = shown.nextSession /\ s.ocr = ocr
    BY <2>1, <2>3
  <2>5. /\ s.ocr.phase = "Recognizing" /\ s.ocr.popup = shown.active
        /\ s.ocr.generation = shown.ocr.generation
    BY <2>2, <2>4
  <2> QED BY <2>4, <2>5 DEF s
<1>4. state' = s BY <1>1 DEF Dispatch
<1> HIDE DEF s
<1>5. Live(s) = Live(shown) BY <1>3 DEF Live
<1>6. Gives(state, s, "Capturing", None, None) BY <1>2, <1>3, <1>5 DEF Prepares, Gives
<1>7. /\ SameTasks(state, s) /\ s.toolbar = state.toolbar
      /\ s.ocr.generation = state.ocr.generation
  BY <1>2, <1>3 DEF Prepares, SameTasks
<1> QED BY <1>1, <1>3, <1>4, <1>6, <1>7

LEMMA CancelMoves ==
    ASSUME PopupInv, NEW job, CancelRegion(job)
    PROVE  /\ UNCHANGED <<pending, uiVars, user>> /\ JobIs(job, "overlay", "Capturing")
           /\ Shoots(state, state', "Idle") /\ Dispatch(state', workers)
           /\ ocrJobs' = ocrJobs \ {job}
<1> DEFINE s == NewShot(state, "Idle")
<1>1. /\ UNCHANGED <<pending, uiVars, user>> /\ JobIs(job, "overlay", "Capturing")
      /\ Dispatch(s, workers) /\ ocrJobs' = ocrJobs \ {job}
  BY DEF CancelRegion
<1>2. Shoots(state, s, "Idle") BY NewShotFacts DEF PopupInv
<1> HIDE DEF s
<1>3. state' = s BY <1>1 DEF Dispatch
<1> QED BY <1>1, <1>2, <1>3

\* The answers of the check and of the download.
LEMMA AnsweredMoves ==
    ASSUME PopupInv, NEW job, OcrChecked(job) \/ OcrDownloaded(job)
    PROVE  /\ UNCHANGED <<pending, uiVars, user>> /\ Dispatch(state', workers)
           /\ \/ /\ Turns(state, state', "Capturing")
                 /\ ocrJobs' = (ocrJobs \ {job}) \cup {Job("capture", job.generation)}
              \/ /\ Turns(state, state', "DownloadRequired") \/ Turns(state, state', "Idle")
                 /\ ocrJobs' = ocrJobs \ {job}
           /\ \/ JobIs(job, "check", "Checking")
              \/ JobIs(job, "download", "Downloading")
<1>1. ASSUME NEW phase, Dispatch([state EXCEPT !.ocr.phase = phase], workers)
      PROVE  Turns(state, state', phase) /\ Dispatch(state', workers)
  <2> DEFINE s == [state EXCEPT !.ocr.phase = phase]
  <2>1. Turns(state, s, phase) BY OcrPhaseFacts DEF PopupInv
  <2>2. Dispatch(s, workers) BY <1>1
  <2> HIDE DEF s
  <2> QED BY <2>1, <2>2 DEF Dispatch
<1>2. CASE OcrChecked(job)
  <2>1. UNCHANGED <<pending, uiVars, user>> /\ JobIs(job, "check", "Checking")
    BY <1>2 DEF OcrChecked
  <2>2. \/ /\ Dispatch([state EXCEPT !.ocr.phase = "Capturing"], workers)
           /\ ocrJobs' = (ocrJobs \ {job}) \cup {Job("capture", job.generation)}
        \/ /\ Dispatch([state EXCEPT !.ocr.phase = "DownloadRequired"], workers)
           /\ ocrJobs' = ocrJobs \ {job}
    BY <1>2 DEF OcrChecked
  <2> QED BY <1>1, <2>1, <2>2
<1>3. CASE OcrDownloaded(job)
  <2>1. UNCHANGED <<pending, uiVars, user>> /\ JobIs(job, "download", "Downloading")
        /\ Dispatch([state EXCEPT !.ocr.phase = "Idle"], workers) /\ ocrJobs' = ocrJobs \ {job}
    BY <1>3 DEF OcrDownloaded
  <2> QED BY <1>1, <2>1
<1> QED BY <1>2, <1>3

LEMMA RecognizedMoves ==
    ASSUME PopupInv, NEW job, OcrRecognized(job)
    PROVE  LET id == state.ocr.popup IN
           /\ UNCHANGED <<uiVars, user>> /\ MayTake /\ JobIs(job, "recognize", "Recognizing")
           /\ ocrJobs' = ocrJobs \ {job}
           /\ state'.ocr.phase = "Translating" /\ state'.ocr.popup = id
           /\ \/ /\ id \in Live(state) /\ Asks(state, state', id)
                 /\ Dispatch(state', Begun(state'.nextTask, "starting", id))
                 /\ Execute(state'.nextTask, <<Translate(state'.nextTask)>>)
              \/ /\ id \notin Live(state) /\ Turns(state, state', "Translating")
                 /\ Dispatch(state', workers) /\ UNCHANGED pending
<1> DEFINE id == state.ocr.popup
           p  == [state EXCEPT !.ocr.phase = "Translating"]
           s  == TranslateIn(p, id)
<1>1. /\ UNCHANGED <<uiVars, user>> /\ MayTake /\ JobIs(job, "recognize", "Recognizing")
      /\ ocrJobs' = ocrJobs \ {job}
      /\ IF id \in Live(state)
         THEN /\ Dispatch(s, Begun(s.nextTask, "starting", id))
              /\ Execute(s.nextTask, <<Translate(s.nextTask)>>)
         ELSE Dispatch(s, workers) /\ UNCHANGED pending
  BY DEF OcrRecognized, MayTake
<1>2. GoodState(p) /\ Turns(state, p, "Translating")
  BY OcrPhaseGood, OcrPhaseFacts, PhaseNames DEF PopupInv
<1> HIDE DEF p
<1>3. Live(p) = Live(state) /\ p.ocr.phase = "Translating" /\ p.ocr.popup = id
  BY <1>2 DEF Turns, SamePopups
<1>4. CASE id \in Live(state)
  <2>1. Asks(p, s, id) /\ s.ocr = p.ocr BY <1>2, <1>3, <1>4, TranslateInFacts
  <2> HIDE DEF s
  <2>2. Asks(state, s, id) BY <1>2, <2>1 DEF Asks, Turns, SameTasks, SamePopups
  <2>3. s.ocr.phase = "Translating" /\ s.ocr.popup = id BY <1>3, <2>1
  <2>4. /\ Dispatch(s, Begun(s.nextTask, "starting", id))
        /\ Execute(s.nextTask, <<Translate(s.nextTask)>>)
    BY <1>1, <1>4
  <2>5. state' = s BY <2>4 DEF Dispatch
  <2> QED BY <1>1, <1>4, <2>2, <2>3, <2>4, <2>5
<1>5. CASE id \notin Live(state)
  <2>1. s = p BY <1>3, <1>5 DEF TranslateIn
  <2> HIDE DEF s
  <2>2. Dispatch(p, workers) /\ UNCHANGED pending BY <1>1, <1>5, <2>1
  <2>3. state' = p BY <2>2 DEF Dispatch
  <2> QED BY <1>1, <1>2, <1>3, <1>5, <2>2, <2>3
<1> QED BY <1>4, <1>5

LEMMA JobEndsMoves ==
    ASSUME PopupInv, NEW job, OcrJobEnds(job)
    PROVE  /\ UNCHANGED <<pending, uiVars, user>> /\ ocrJobs' = ocrJobs \ {job}
           /\ \/ Fails(state, state') /\ Dispatch(state', workers)
              \/ /\ job.generation # state.ocr.generation
                 /\ UNCHANGED <<state, workers, registered>>
<1> DEFINE s == OcrFails(state)
<1>1. /\ UNCHANGED <<pending, uiVars, user>> /\ ocrJobs' = ocrJobs \ {job}
      /\ \/ Dispatch(s, workers)
         \/ job.generation # state.ocr.generation /\ UNCHANGED <<state, workers, registered>>
  BY DEF OcrJobEnds
<1>2. Fails(state, s) BY OcrFailsFacts DEF PopupInv
<1> HIDE DEF s
<1>3. Dispatch(s, workers) => state' = s BY DEF Dispatch
<1> QED BY <1>1, <1>2, <1>3

----------------------------------------
\* The selection toolbar.
LEMMA ClearMoves ==
    ASSUME PopupInv, DismissToolbar \/ SelectWithMouse \/ ToolbarCopy
    PROVE  /\ UNCHANGED <<pending, ocrJobs, uiVars, user>>
           /\ Clears(state, state') /\ Dispatch(state', workers)
<1> DEFINE s == ToolbarCleared(state)
<1>1. UNCHANGED <<pending, ocrJobs, uiVars, user>> /\ Dispatch(s, workers)
  BY DEF DismissToolbar, SelectWithMouse, ToolbarCopy
<1>2. Clears(state, s) BY ToolbarClearedFacts DEF PopupInv
<1> HIDE DEF s
<1>3. state' = s BY <1>1 DEF Dispatch
<1> QED BY <1>1, <1>2, <1>3

\* The toolbar offers what was captured, if it is of the last selection.
Offers(s, r, g) ==
    /\ SameTasks(s, r) /\ SamePopups(s, r) /\ r.ocr = s.ocr
    /\ r.toolbar.generation = s.toolbar.generation
    /\ r.toolbar.selection \in IF g = s.toolbar.generation THEN {g, None} ELSE {s.toolbar.selection}

LEMMA OfferMoves ==
    ASSUME PopupInv, NEW g \in gestures, ToolbarCaptured(g)
    PROVE  /\ UNCHANGED <<pending, ocrJobs, uiVars, user>>
           /\ Offers(state, state', g) /\ Dispatch(state', workers)
<1>1. PICK selection \in {g, None} :
          Dispatch([state EXCEPT !.toolbar.selection =
                       IF g = state.toolbar.generation THEN selection ELSE @], workers)
  BY DEF ToolbarCaptured
<1>2. UNCHANGED <<pending, ocrJobs, uiVars, user>> BY DEF ToolbarCaptured
<1> DEFINE chosen == IF g = state.toolbar.generation THEN selection ELSE state.toolbar.selection
           s == [state EXCEPT !.toolbar.selection = chosen]
<1>3. Dispatch(s, workers) BY <1>1
<1>4. chosen \in IF g = state.toolbar.generation THEN {g, None} ELSE {state.toolbar.selection}
  OBVIOUS
<1> HIDE DEF chosen
<1>5. /\ s.current = state.current /\ s.main = state.main /\ s.nextTask = state.nextTask
      /\ s.sessions = state.sessions /\ s.nextSession = state.nextSession /\ s.ocr = state.ocr
      /\ s.toolbar.generation = state.toolbar.generation /\ s.toolbar.selection = chosen
  BY Fields DEF PopupInv, StateRecord, Toolbar
<1> HIDE DEF s
<1>6. Offers(state, s, g) BY <1>4, <1>5 DEF Offers, SameTasks, SamePopups, Live, Passive
<1>7. state' = s BY <1>3 DEF Dispatch
<1> QED BY <1>2, <1>3, <1>6, <1>7

LEMMA ToolbarTranslateMoves ==
    ASSUME PopupInv, ToolbarTranslate
    PROVE  /\ UNCHANGED <<ocrJobs, uiVars, user>> /\ MayTake /\ Free(UI)
           /\ state'.current = state.nextTask + 1 /\ state'.nextTask = state.nextTask + 1
           /\ state'.main.source = state'.current /\ state'.main.result = None
           /\ state'.ocr = state.ocr /\ state'.toolbar.selection = None
           /\ Gives(state, state', "Translating", state'.current, state'.current)
           /\ Dispatch(state', Begun(state'.current, "starting", None))
           /\ Execute(UI, <<Show(state'.active), Translate(state'.current)>>)
<1> DEFINE c     == ToolbarCleared(state)
           begun == BeginTask(c, "Translating", state.nextTask + 1)
           s     == PreparePopup(begun, "Translating", begun.current, begun.current)
<1>1. /\ UNCHANGED <<ocrJobs, uiVars, user>> /\ MayTake /\ Free(UI)
      /\ Dispatch(s, Begun(s.current, "starting", None))
      /\ Execute(UI, <<Show(s.active), Translate(s.current)>>)
  BY DEF ToolbarTranslate, MayBegin, MayTake
<1>2. GoodState(c) /\ Clears(state, c) BY ToolbarClearedGood, ToolbarClearedFacts DEF PopupInv
<1> HIDE DEF c
<1>3. state.nextTask + 1 \in Tasks /\ c.nextTask = state.nextTask
  BY <1>1, <1>2, NextTaskFacts DEF PopupInv, Clears, SameTasks
<1>4. GoodState(begun) /\ Begins(c, begun, state.nextTask + 1)
  BY <1>1, <1>2, <1>3, PhaseNames, BeginTaskGood, BeginTaskFacts DEF MayTake
<1> HIDE DEF begun
<1>5. Prepares(begun, s, "Translating", begun.current, begun.current) BY <1>4, PreparePopupFacts
<1> HIDE DEF s
<1>6. state' = s BY <1>1 DEF Dispatch
<1>7. begun.current = state.nextTask + 1 /\ s.current = begun.current
  BY <1>3, <1>4, <1>5 DEF Begins, Prepares, SameTasks
<1>8. Gives(state, s, "Translating", s.current, s.current)
  BY ZenonT(60), <1>2, <1>4, <1>5, <1>7 DEF Prepares, Gives, Begins, Clears, SamePopups
<1>9. /\ s.nextTask = state.nextTask + 1 /\ s.main.source = s.current /\ s.main.result = None
      /\ s.ocr = state.ocr /\ s.toolbar.selection = None
  BY <1>2, <1>3, <1>4, <1>5, <1>7 DEF Prepares, Begins, Clears, SameTasks
<1> QED BY <1>1, <1>6, <1>7, <1>8, <1>9

----------------------------------------
\* The workers: every step gives a worker one of the stages.
WorkersOk == workers \in [Tasks -> Worker]

LEMMA AbortedWorkers ==
    ASSUME NEW s, NEW ws \in [Tasks -> Worker], NEW t \in Tasks
    PROVE  /\ Aborted(s, ws) \in [Tasks -> Worker]
           /\ Aborted(s, ws)[t].session = ws[t].session
           /\ Aborted(s, ws)[t].stage = IF t \in registered \ Wanted(s) /\ ws[t].stage = "running"
                                        THEN "aborted" ELSE ws[t].stage
<1>1. ASSUME NEW u \in Tasks
      PROVE  /\ [ws[u] EXCEPT !.stage = "aborted"] \in Worker
             /\ [ws[u] EXCEPT !.stage = "aborted"].session = ws[u].session
             /\ [ws[u] EXCEPT !.stage = "aborted"].stage = "aborted"
  BY DEF Worker, WorkerStages
<1> QED BY <1>1 DEF Aborted

LEMMA BegunWorkers ==
    ASSUME WorkersOk, NEW t \in Tasks, NEW stage \in WorkerStages,
           NEW session \in {None} \cup Sessions
    PROVE  /\ Begun(t, stage, session) \in [Tasks -> Worker]
           /\ Begun(t, stage, session)[t] = [stage |-> stage, session |-> session]
           /\ \A u \in Tasks \ {t} : Begun(t, stage, session)[u] = workers[u]
<1>1. [stage |-> stage, session |-> session] \in Worker BY DEF Worker
<1> QED BY <1>1 DEF Begun, WorkersOk

LEMMA StageWorkers ==
    ASSUME WorkersOk, NEW t \in Tasks, NEW stage \in WorkerStages
    PROVE  /\ [workers EXCEPT ![t].stage = stage] \in [Tasks -> Worker]
           /\ [workers EXCEPT ![t].stage = stage][t].stage = stage
           /\ \A u \in Tasks \ {t} : [workers EXCEPT ![t].stage = stage][u] = workers[u]
<1>1. [workers[t] EXCEPT !.stage = stage] \in Worker BY DEF Worker, WorkersOk
<1> QED BY <1>1 DEF WorkersOk, Worker

\* A step dispatches an event to workers of the right type, or tells a worker where it is.
LEMMA WorkersNext == PopupInv /\ WorkersOk /\ [Next]_vars => WorkersOk'
<1> SUFFICES ASSUME PopupInv, WorkersOk, [Next]_vars PROVE WorkersOk' OBVIOUS
<1>1. ASSUME NEW s, NEW ws \in [Tasks -> Worker], Dispatch(s, ws) PROVE WorkersOk'
  <2>1. workers' = Aborted(s, ws) BY <1>1 DEF Dispatch
  <2>2. ASSUME NEW u \in Tasks PROVE [ws[u] EXCEPT !.stage = "aborted"] \in Worker
    BY DEF Worker, WorkerStages
  <2> QED BY <2>1, <2>2 DEF Aborted, WorkersOk
<1>2. workers \in [Tasks -> Worker] /\ (workers' = workers => WorkersOk') BY DEF WorkersOk
<1>3. /\ \A t \in Tasks, stage \in WorkerStages : [workers EXCEPT ![t].stage = stage] \in [Tasks -> Worker]
      /\ {"capturing", "captured", "empty", "failed", "starting", "running", "aborted", "done"}
             \subseteq WorkerStages
  BY ZenonT(60), StageWorkers DEF WorkerStages
<1>4. \A t \in Tasks, stage \in WorkerStages, session \in {None} \cup Sessions :
          Begun(t, stage, session) \in [Tasks -> Worker]
  BY BegunWorkers
<1>5. state.nextTask < MaxTasks => state.nextTask + 1 \in Tasks
  BY Fields, MaxTasksAssumption DEF Tasks, PopupInv
<1>6. \A id \in Live(state) : id \in Sessions BY Fields DEF Sessions, None, PopupInv
<1>7. CASE User
  <2>1. CASE PressHotkey
    <3> DEFINE s == BeginTask(state, "Capturing", None)
    <3>1. workers' = workers \/ (Dispatch(s, Begun(s.current, "capturing", None))
                                 /\ state.nextTask < MaxTasks)
      BY <2>1 DEF PressHotkey, MayBegin
    <3>2. s.current = state.nextTask + 1 BY BeginTaskFacts DEF PopupInv, Begins
    <3> HIDE DEF s
    <3> QED BY <1>1, <1>2, <1>3, <1>4, <1>5, <3>1, <3>2
  <2>2. CASE InputTranslation
    <3> DEFINE s == BeginTask(state, "Idle", state.nextTask + 1)
    <3>1. Dispatch(s, Begun(s.current, "starting", None)) /\ state.nextTask < MaxTasks
      BY <2>2 DEF InputTranslation, MayBegin
    <3>2. s.current = state.nextTask + 1 BY BeginTaskFacts DEF PopupInv, Begins
    <3> HIDE DEF s
    <3> QED BY <1>1, <1>3, <1>4, <1>5, <3>1, <3>2
  <2>3. CASE EmptyInput \/ CloseMainWindow BY <1>1, <1>2, <2>3 DEF EmptyInput, CloseMainWindow
  <2>4. ASSUME NEW id \in windows, TranslatePopup(id) PROVE WorkersOk'
    <3> DEFINE p == PopupRequest(state, id)
               s == TranslateIn(p, id)
    <3>1. /\ \/ id \in Live(state) /\ Dispatch(s, Begun(s.nextTask, "starting", id))
             \/ Dispatch(s, workers)
          /\ state.nextTask < MaxTasks
      BY <2>4 DEF TranslatePopup, MayBegin
    <3>2. GoodState(p) /\ p.nextTask = state.nextTask /\ Live(p) = Live(state)
      BY PopupRequestGood DEF PopupInv
    <3> HIDE DEF p
    <3>3. ASSUME id \in Live(state) PROVE s.nextTask = state.nextTask + 1
      <4>1. Asks(p, s, id) BY <3>2, <3>3, TranslateInFacts
      <4> HIDE DEF s
      <4> QED BY <3>2, <4>1 DEF Asks
    <3> HIDE DEF s
    <3> QED BY <1>1, <1>2, <1>3, <1>4, <1>5, <1>6, <3>1, <3>3
  <2>5. ASSUME NEW id \in windows, TranslateEmptyPopup(id) \/ PinPopup(id) \/ UnpinPopup(id)
                                       \/ CloseWindow(id)
        PROVE  WorkersOk'
    BY ZenonT(60), <1>1, <1>2, <2>5 DEF TranslateEmptyPopup, PinPopup, UnpinPopup, CloseWindow
  <2>6. CASE RequestOcr \/ RequestOcrWhileAnnotating \/ DownloadOcr
    BY <1>1, <1>2, <2>6 DEF RequestOcr, RequestOcrWhileAnnotating, DownloadOcr, RefuseOcr, BeginOcr
  <2>7. ASSUME NEW job \in ocrJobs, SubmitRegion(job) \/ CancelRegion(job)
        PROVE  WorkersOk'
    BY <1>1, <1>2, <2>7 DEF SubmitRegion, CancelRegion
  <2>8. CASE DismissToolbar \/ SelectWithMouse \/ ToolbarCopy
    BY <1>1, <1>2, <2>8 DEF DismissToolbar, SelectWithMouse, ToolbarCopy
  <2>9. CASE ToolbarTranslate
    <3> DEFINE c     == ToolbarCleared(state)
               begun == BeginTask(c, "Translating", state.nextTask + 1)
               s     == PreparePopup(begun, "Translating", begun.current, begun.current)
    <3>1. Dispatch(s, Begun(s.current, "starting", None)) /\ state.nextTask < MaxTasks
      BY <2>9 DEF ToolbarTranslate, MayBegin
    <3>2. GoodState(c) /\ c.nextTask = state.nextTask BY ToolbarClearedGood DEF PopupInv
    <3> HIDE DEF c
    <3>3. GoodState(begun) /\ begun.current = state.nextTask + 1
      BY <1>5, <3>1, <3>2, PhaseNames, BeginTaskGood, BeginTaskFacts DEF Begins
    <3> HIDE DEF begun
    <3>4. s.current = state.nextTask + 1
      <4>1. Prepares(begun, s, "Translating", begun.current, begun.current)
        BY <3>3, PreparePopupFacts
      <4> HIDE DEF s
      <4> QED BY <3>3, <4>1 DEF Prepares, SameTasks
    <3> HIDE DEF s
    <3> QED BY <1>1, <1>3, <1>4, <1>5, <3>1, <3>4
  <2> QED BY <1>7, <2>1, <2>2, <2>3, <2>4, <2>5, <2>6, <2>7, <2>8, <2>9 DEF User
<1>8. ASSUME NEW t \in Tasks, CaptureWorker(t) \/ TranslationWorker(t) \/ ReportProgress(t)
      PROVE  WorkersOk'
  <2>1. CASE CaptureSelection(t) \/ StopTranslation(t)
    <3>1. PICK stage \in {"captured", "empty", "failed", "done"} :
              workers' = [workers EXCEPT ![t].stage = stage]
      BY <2>1 DEF CaptureSelection, StopTranslation
    <3> QED BY <1>3, <3>1 DEF WorkersOk
  <2>2. CASE SelectionCaptured(t) \/ SelectionNotCaptured(t)
    <3>1. PICK s : \/ Dispatch(s, [workers EXCEPT ![t].stage = "starting"])
                  \/ Dispatch(s, [workers EXCEPT ![t].stage = "done"])
      <4>1. CASE SelectionCaptured(t) BY <4>1, Zenon DEF SelectionCaptured
      <4>2. CASE SelectionNotCaptured(t) BY <4>2, Zenon DEF SelectionNotCaptured
      <4> QED BY <2>2, <4>1, <4>2
    <3>2. /\ [workers EXCEPT ![t].stage = "starting"] \in [Tasks -> Worker]
          /\ [workers EXCEPT ![t].stage = "done"] \in [Tasks -> Worker]
      BY <1>3
    <3> QED BY <1>1, <3>1, <3>2
  <2>3. CASE EndTranslation(t) \/ ReportProgress(t)
    BY <1>1, <1>2, <1>3, <2>3 DEF EndTranslation, ReportProgress
  <2> QED BY <1>8, <2>1, <2>2, <2>3 DEF CaptureWorker, TranslationWorker
<1>9. ASSUME NEW thread \in Threads, Thread(thread) PROVE WorkersOk'
  <2> DEFINE t == Head(pending[thread]).id
  <2>1. CASE PostToUi(thread) BY <1>2, <2>1 DEF PostToUi
  <2>2. CASE StartTranslation(thread) \/ RegisterTranslation(thread)
    <3>1. ~Free(thread) /\ Head(pending[thread]).op \in {"translate", "register"}
      BY <2>2 DEF StartTranslation, RegisterTranslation
    <3>2. t \in Tasks BY <3>1, PendingTail DEF PopupInv, Command
    <3>3. [workers EXCEPT ![t].stage = IF @ = "running" THEN "aborted" ELSE @] \in [Tasks -> Worker]
      <4>1. workers[t] \in Worker BY <3>2 DEF WorkersOk
      <4>2. [workers[t] EXCEPT !.stage = IF @ = "running" THEN "aborted" ELSE @] \in Worker
        BY SMTT(30), <4>1 DEF Worker, WorkerStages
      <4> QED BY <4>2, <3>2 DEF WorkersOk
    <3>4. \/ Dispatch(Report(state, t, "started", workers[t].session),
                      [workers EXCEPT ![t].stage = "running"])
          \/ workers' = workers
          \/ workers' = [workers EXCEPT ![t].stage = IF @ = "running" THEN "aborted" ELSE @]
      BY <2>2 DEF StartTranslation, RegisterTranslation
    <3> HIDE DEF t
    <3> QED BY <1>1, <1>2, <1>3, <3>2, <3>3, <3>4 DEF WorkersOk
  <2> QED BY <1>9, <2>1, <2>2 DEF Thread
<1>10. CASE EventLoop BY <1>2, <1>10 DEF EventLoop, ShowWindow, HideWindow
<1>11. ASSUME NEW job \in ocrJobs, OcrWorker(job) PROVE WorkersOk'
  <2>1. CASE OcrRecognized(job)
    <3> DEFINE id == state.ocr.popup
               p == [state EXCEPT !.ocr.phase = "Translating"]
               s == TranslateIn(p, id)
    <3>1. /\ \/ id \in Live(state) /\ Dispatch(s, Begun(s.nextTask, "starting", id))
             \/ Dispatch(s, workers)
          /\ state.nextTask < MaxTasks
      BY <2>1 DEF OcrRecognized
    <3>2. GoodState(p) /\ p.nextTask = state.nextTask BY OcrPhaseGood, PhaseNames DEF PopupInv
    <3>3. Live(p) = Live(state) BY Fields DEF Live, StateRecord, PopupInv
    <3> HIDE DEF p
    <3>4. ASSUME id \in Live(state) PROVE s.nextTask = state.nextTask + 1
      <4>1. Asks(p, s, id) BY <3>2, <3>3, <3>4, TranslateInFacts
      <4> HIDE DEF s
      <4> QED BY <3>2, <4>1 DEF Asks
    <3> HIDE DEF s
    <3> QED BY <1>1, <1>2, <1>3, <1>4, <1>5, <1>6, <3>1, <3>4
  <2>2. CASE ~OcrRecognized(job)
    BY <1>1, <1>2, <1>11, <2>2 DEF OcrWorker, OcrChecked, OcrCaptured, OcrDownloaded, OcrJobEnds
  <2> QED BY <2>1, <2>2
<1>12. ASSUME NEW g \in gestures, ToolbarCaptured(g) PROVE WorkersOk'
  BY <1>1, <1>2, <1>12 DEF ToolbarCaptured
<1>13. CASE UNCHANGED vars BY <1>2, <1>13 DEF vars
<1> QED BY <1>7, <1>8, <1>9, <1>10, <1>11, <1>12, <1>13 DEF Next

----------------------------------------
\* A step is one of these.
LEMMA Steps ==
    ASSUME [Next]_vars
    PROVE  \/ PressHotkey \/ InputTranslation \/ EmptyInput \/ CloseMainWindow
           \/ \E id : \/ TranslatePopup(id) \/ TranslateEmptyPopup(id)
                      \/ PinPopup(id) \/ UnpinPopup(id) \/ CloseWindow(id)
           \/ RequestOcr \/ RequestOcrWhileAnnotating \/ DownloadOcr
           \/ \E job \in ocrJobs : \/ SubmitRegion(job) \/ CancelRegion(job) \/ OcrChecked(job)
                                   \/ OcrCaptured(job) \/ OcrRecognized(job)
                                   \/ OcrDownloaded(job) \/ OcrJobEnds(job)
           \/ DismissToolbar \/ SelectWithMouse \/ ToolbarTranslate \/ ToolbarCopy
           \/ \E g \in gestures : ToolbarCaptured(g)
           \/ \E t \in Tasks : \/ CaptureSelection(t) \/ SelectionCaptured(t)
                               \/ SelectionNotCaptured(t) \/ EndTranslation(t)
                               \/ StopTranslation(t) \/ ReportProgress(t)
           \/ \E thread \in Threads : \/ StartTranslation(thread) \/ RegisterTranslation(thread)
                                      \/ PostToUi(thread)
           \/ ShowWindow \/ HideWindow
           \/ UNCHANGED vars
<1>1. CASE User BY <1>1, Zenon DEF User
<1>2. CASE \E t \in Tasks : CaptureWorker(t) \/ TranslationWorker(t) \/ ReportProgress(t)
  BY <1>2, Zenon DEF CaptureWorker, TranslationWorker
<1>3. CASE \E thread \in Threads : Thread(thread) BY <1>3, Zenon DEF Thread
<1>4. CASE EventLoop BY <1>4, Zenon DEF EventLoop
<1>5. CASE \E job \in ocrJobs : OcrWorker(job) BY <1>5, Zenon DEF OcrWorker
<1>6. CASE \E g \in gestures : ToolbarCaptured(g) BY <1>6, Zenon
<1>7. CASE UNCHANGED vars BY <1>7, Zenon
<1> QED BY <1>1, <1>2, <1>3, <1>4, <1>5, <1>6, <1>7 DEF Next

\* The steps that leave the reducer and the workers' sessions alone.
StepsAside ==
    \/ \E t \in Tasks : CaptureSelection(t) \/ StopTranslation(t)
    \/ \E thread \in Threads : RegisterTranslation(thread) \/ PostToUi(thread)
    \/ \E job : OcrCaptured(job)
    \/ ShowWindow \/ HideWindow \/ UNCHANGED vars

LEMMA AsideSteps == StepsAside => state' = state
BY DEF StepsAside, CaptureSelection, StopTranslation, RegisterTranslation, PostToUi, OcrCaptured,
   ShowWindow, HideWindow, vars

\* What a step does to what was selected and to the text of a pinned popup.
PinKept(s, r, ws) ==
    \A i \in Live(s) \cap Live(r) :
        s.sessions[i].pinned /\ r.sessions[i].source # s.sessions[i].source =>
            r.sessions[i].source \in DOMAIN ws /\ ws[r.sessions[i].source].session = i

OfferKept(s, r) ==
    \/ r.toolbar = s.toolbar
    \/ r.toolbar.selection = None
    \/ r.toolbar.selection = r.toolbar.generation

LEMMA GivesKeepsPins ==
    ASSUME GoodState(state), NEW r, NEW phase, NEW task, NEW source, NEW ws,
           Gives(state, r, phase, task, source)
    PROVE  PinKept(state, r, ws)
<1>1. \A i \in Live(state) : i <= state.nextSession /\ i \in Nat BY Fields
<1>2. state.nextSession + 1 \notin Live(state) BY <1>1, Fields
<1>3. \A i \in Live(state) : state.sessions[i].pinned => i # r.active BY <1>2 DEF Gives, Passive
<1> QED BY <1>3 DEF Gives, PinKept

LEMMA AsksKeepsPins ==
    ASSUME PopupInv, WorkersOk, MayTake, NEW id \in Live(state), NEW r, Asks(state, r, id),
           NEW s
    PROVE  PinKept(state, r, Aborted(s, Begun(r.nextTask, "starting", id)))
<1> DEFINE t  == state.nextTask + 1
           ws == Aborted(s, Begun(t, "starting", id))
<1>1. t \in Tasks /\ id \in Sessions /\ "starting" \in WorkerStages
  BY NextTaskFacts, Fields DEF PopupInv, Sessions, None, WorkerStages
<1>2. Begun(t, "starting", id) \in [Tasks -> Worker] /\ Begun(t, "starting", id)[t].session = id
  <2> HIDE DEF t
  <2>1. /\ Begun(t, "starting", id) \in [Tasks -> Worker]
        /\ Begun(t, "starting", id)[t] = [stage |-> "starting", session |-> id]
    BY <1>1, BegunWorkers
  <2> QED BY <2>1
<1>3. t \in DOMAIN ws /\ ws[t].session = id BY <1>1, <1>2, AbortedWorkers
<1> HIDE DEF ws
<1>4. state.sessions[id] \in Session BY Fields DEF PopupInv
<1>5. r.sessions[id].source = t BY <1>4 DEF Asks, Session
<1>6. PinKept(state, r, ws) BY ZenonT(60), <1>3, <1>5 DEF PinKept, Asks
<1>7. r.nextTask = t BY DEF Asks
<1> QED BY <1>6, <1>7 DEF ws

LEMMA KeepSteps ==
    ASSUME PopupInv, WorkersOk, [Next]_vars
    PROVE  PinKept(state, state', workers') /\ OfferKept(state, state')
<1> DEFINE Kept == PinKept(state, state', workers') /\ OfferKept(state, state')
<1>0. GoodState(state) BY DEF PopupInv
<1>1. ASSUME NEW r, SamePopups(state, r) PROVE PinKept(state, r, workers')
  BY <1>1 DEF SamePopups, PinKept
<1>2. CASE StepsAside BY <1>2, AsideSteps DEF PinKept, OfferKept
<1>3. CASE PressHotkey \/ InputTranslation \/ EmptyInput \/ CloseMainWindow
  BY <1>1, <1>3, HotkeyMoves, InputMoves, MainQuits DEF Begins, Quits, PinKept, OfferKept
<1>4. ASSUME NEW id, TranslatePopup(id) PROVE Kept
  <2>1. CASE id \in Live(state) /\ Asks(state, state', id)
    <3>1. Dispatch(state', Begun(state'.nextTask, "starting", id)) /\ MayTake
      BY <1>4, <2>1, TranslatePopupMoves
    <3>2. PinKept(state, state', workers') BY <2>1, <3>1, AsksKeepsPins DEF Dispatch
    <3> QED BY <2>1, <3>2 DEF Asks, OfferKept
  <2>2. CASE Requests(state, state', id) BY <1>1, <2>2 DEF Requests, OfferKept
  <2> QED BY <1>4, <2>1, <2>2, TranslatePopupMoves
<1>5. ASSUME NEW id, TranslateEmptyPopup(id) PROVE Kept
  <2>1. Complains(state, state', id) BY <1>5, TranslateEmptyMoves
  <2>2. \A i \in Live(state) : state.sessions[i] \in Session BY Fields DEF PopupInv
  <2>3. \A i \in Live(state) : state'.sessions[i].source = state.sessions[i].source
    BY <2>1, <2>2 DEF Complains, Session
  <2> QED BY <2>1, <2>3 DEF PinKept, OfferKept, Complains
<1>6. ASSUME NEW id, PinPopup(id) \/ UnpinPopup(id) \/ CloseWindow(id) PROVE Kept
  <2>1. \A i \in Live(state) : state.sessions[i] \in Session BY Fields DEF PopupInv
  <2>2. CASE PinPopup(id)
    <3>1. Pins(state, state', id) BY <2>2, PinMoves
    <3>2. \A i \in Live(state') : state'.sessions[i].source = state.sessions[i].source
      BY <2>1, <3>1 DEF Pins, Session
    <3> QED BY <3>1, <3>2 DEF PinKept, OfferKept, Pins
  <2>3. CASE UnpinPopup(id)
    <3>1. Unpins(state, state', id) BY <2>3, UnpinMoves
    <3>2. \A i \in Live(state') : state'.sessions[i].source = state.sessions[i].source
      BY <2>1, <3>1 DEF Unpins, Session
    <3> QED BY <3>1, <3>2 DEF PinKept, OfferKept, Unpins
  <2>4. CASE CloseWindow(id) BY <2>4, CloseMoves DEF PinKept, OfferKept, Closes
  <2> QED BY <1>6, <2>2, <2>3, <2>4
<1>7. ASSUME NEW thread \in Threads, StartTranslation(thread) PROVE Kept
  BY <1>7, StartMoves DEF Reports, ViewReported, PinKept, OfferKept
<1>8. ASSUME NEW t \in Tasks, ReportProgress(t) \/ EndTranslation(t) PROVE Kept
  BY <1>8, ReportMoves DEF Reports, ViewReported, PinKept, OfferKept
<1>9. ASSUME NEW t \in Tasks, SelectionCaptured(t) \/ SelectionNotCaptured(t) PROVE Kept
  <2>1. CASE state' = state BY <2>1 DEF PinKept, OfferKept
  <2>2. CASE state' # state
    <3>1. /\ state'.toolbar = state.toolbar
          /\ \E phase, task, source : Gives(state, state', phase, task, source)
      BY <1>9, <2>2, CapturedMoves, NotCapturedMoves
    <3> QED BY <1>0, <3>1, GivesKeepsPins DEF OfferKept
  <2> QED BY <2>1, <2>2
<1>10. CASE RequestOcr
  <2>1. CASE RefuseOcr(state) BY <1>0, <2>1, RefuseMoves, GivesKeepsPins DEF Refuses, OfferKept
  <2>2. CASE Shoots(state, state', "Idle") BY <1>1, <2>2 DEF Shoots, OfferKept
  <2>3. CASE BeginOcr
    <3>1. Retires(state, state') BY <2>3, BeginOcrMoves
    <3>2. \A i \in Live(state) : state.sessions[i] \in Session BY Fields DEF PopupInv
    <3>3. \A i \in Live(state') : i \in Live(state) BY <3>1 DEF Retires
    <3>4. \A i \in Live(state') : state'.sessions[i].source = state.sessions[i].source
      BY <3>1, <3>2, <3>3 DEF Retires, Session
    <3> QED BY <3>1, <3>4 DEF PinKept, OfferKept, Retires
  <2> QED BY <1>10, <2>1, <2>2, <2>3, RequestOcrMoves
<1>11. CASE RequestOcrWhileAnnotating BY <1>0, <1>11, AnnotatingMoves, GivesKeepsPins DEF OfferKept
<1>12. CASE DownloadOcr BY <1>1, <1>12, DownloadMoves DEF Shoots, OfferKept
<1>13. ASSUME NEW job, SubmitRegion(job) \/ CancelRegion(job) PROVE Kept
  <2>1. CASE SubmitRegion(job) BY <1>0, <2>1, SubmitMoves, GivesKeepsPins DEF OfferKept
  <2>2. CASE CancelRegion(job) BY <1>1, <2>2, CancelMoves DEF Shoots, OfferKept
  <2> QED BY <1>13, <2>1, <2>2
<1>14. ASSUME NEW job, OcrChecked(job) \/ OcrDownloaded(job) PROVE Kept
  BY <1>1, <1>14, AnsweredMoves DEF Turns, OfferKept
<1>15. ASSUME NEW job, OcrRecognized(job) PROVE Kept
  <2> DEFINE id == state.ocr.popup
  <2>1. CASE id \in Live(state) /\ Asks(state, state', id)
    <3>1. Dispatch(state', Begun(state'.nextTask, "starting", id)) /\ MayTake
      BY <1>15, <2>1, RecognizedMoves
    <3>2. PinKept(state, state', workers') BY <2>1, <3>1, AsksKeepsPins DEF Dispatch
    <3> QED BY <2>1, <3>2 DEF Asks, OfferKept
  <2>2. CASE Turns(state, state', "Translating") BY <1>1, <2>2 DEF Turns, OfferKept
  <2> QED BY <1>15, <2>1, <2>2, RecognizedMoves
<1>16. ASSUME NEW job, OcrJobEnds(job) PROVE Kept
  <2>1. CASE Fails(state, state')
    <3>1. \A i \in Live(state) : state.sessions[i] \in Session BY Fields DEF PopupInv
    <3>2. \A i \in Live(state') : state'.sessions[i].source = state.sessions[i].source
      BY <2>1, <3>1 DEF Fails, Session
    <3> QED BY <2>1, <3>2 DEF PinKept, OfferKept, Fails
  <2>2. CASE state' = state BY <2>2 DEF PinKept, OfferKept
  <2> QED BY <1>16, <2>1, <2>2, JobEndsMoves
<1>17. CASE DismissToolbar \/ SelectWithMouse \/ ToolbarCopy
  <2>1. Clears(state, state') BY <1>17, ClearMoves
  <2> QED BY <1>1, <2>1 DEF Clears, OfferKept
<1>18. CASE ToolbarTranslate BY <1>0, <1>18, ToolbarTranslateMoves, GivesKeepsPins DEF OfferKept
<1>19. ASSUME NEW g \in gestures, ToolbarCaptured(g) PROVE Kept
  <2>1. Offers(state, state', g) /\ state.toolbar \in Toolbar /\ state'.toolbar \in Toolbar
    BY <1>19, OfferMoves, PopupInvNext, Fields DEF PopupInv
  <2>2. g = state.toolbar.generation \/ state'.toolbar = state.toolbar BY <2>1 DEF Offers, Toolbar
  <2> QED BY <1>1, <2>1, <2>2 DEF Offers, OfferKept
<1> QED
  BY <1>2, <1>3, <1>4, <1>5, <1>6, <1>7, <1>8, <1>9, <1>10, <1>11, <1>12, <1>13, <1>14, <1>15,
     <1>16, <1>17, <1>18, <1>19, Steps DEF StepsAside

\* The workers have no session when the program starts.
LEMMA WorkersInit == Init => WorkersOk
BY DEF Init, WorkersOk, Worker, WorkerStages, None

\* The toolbar offers only the text of the last selection, and none that was dismissed,
\* replaced, translated or copied: a capture that ends late is compared with the last one.
THEOREM ToolbarIsLatest == Spec => []ToolbarOffersLatest
<1>1. Init => ToolbarOffersLatest BY DEF Init, ToolbarOffersLatest, None
<1>2. PopupInv /\ WorkersOk /\ ToolbarOffersLatest /\ [Next]_vars => ToolbarOffersLatest'
  BY KeepSteps DEF OfferKept, ToolbarOffersLatest
<1> QED BY <1>1, <1>2, PopupInvInit, PopupInvNext, WorkersInit, WorkersNext, PTL DEF Spec

\* The text of a pinned popup changes only by a request made in it or by the recognition it
\* was opened for: a new popup is never a pinned one, and no report changes a text.
THEOREM PinnedIsKept == Spec => PinnedKeepsSource
<1>1. PopupInv /\ WorkersOk /\ [Next]_vars =>
        [\A i \in Live(state) \cap Live(state') :
           LET old == state.sessions[i]
               new == state'.sessions[i] IN
           (old.pinned /\ new.source # old.source) =>
              (new.source \in DOMAIN workers' /\ workers'[new.source].session = i)]_vars
  BY KeepSteps DEF PinKept
<1> QED
  BY <1>1, PopupInvInit, PopupInvNext, WorkersInit, WorkersNext, PTL DEF Spec, PinnedKeepsSource

----------------------------------------
(* Why a popup shows it is busy, and what OCR waits for.                       *)

\* OCR in the state s waits for one of the jobs.
Recognizes(s, jobs) ==
    LET Under(kind) == Job(kind, s.ocr.generation) \in jobs IN
    /\ s.ocr.phase = "Checking"    => Under("check")
    /\ s.ocr.phase = "Capturing"   => Under("capture") \/ Under("overlay")
    /\ s.ocr.phase = "Recognizing" => Under("recognize")
    /\ s.ocr.phase = "Downloading" => Under("download")

\* A popup that shows it is busy has a reason to.
Spins(s) ==
    \A i \in Live(s) :
        /\ s.sessions[i].phase = "Translating" => s.sessions[i].task # None
        /\ s.sessions[i].phase = "Capturing" => s.ocr.popup = i /\ s.ocr.phase = "Recognizing"

\* What the user does in one instance does not include both.
PinsApart == \A operations \in Scenarios : ~({"pin", "ocr while annotating"} \subseteq operations)

\* Where OCR is refused for an open annotation, no popup is pinned.
Apart ==
    "ocr while annotating" \in user.operations =>
        "pin" \notin user.operations /\ \A i \in Live(state) : ~state.sessions[i].pinned

SpinInv == Spins(state) /\ Apart

LEMMA SpinsSame ==
    ASSUME NEW s, NEW r, Spins(s), SamePopups(s, r), r.ocr = s.ocr
    PROVE  Spins(r)
BY DEF Spins, SamePopups

LEMMA SpinsGiven ==
    ASSUME NEW s, NEW r, Spins(s), r.ocr = s.ocr, NEW phase, NEW task, NEW source,
           Gives(s, r, phase, task, source), phase # "Capturing",
           phase = "Translating" => task # None
    PROVE  Spins(r)
<1>1. r.sessions[r.active].phase = phase /\ r.sessions[r.active].task = task BY DEF Gives
<1>2. \A i \in Live(r) \ {r.active} : i \in Live(s) /\ r.sessions[i] = s.sessions[i] BY DEF Gives
<1> QED BY <1>1, <1>2 DEF Spins

LEMMA SpinsRefused ==
    ASSUME NEW s, NEW r, Gives(s, r, "Error", None, None), \A i \in Live(s) : i = r.active
    PROVE  Spins(r)
<1>1. r.sessions[r.active].phase = "Error" BY DEF Gives
<1>2. \A i \in Live(r) : i = r.active BY DEF Gives
<1> QED BY <1>1, <1>2 DEF Spins

LEMMA SpinsSubmitted ==
    ASSUME NEW s, NEW r, Spins(s), Gives(s, r, "Capturing", None, None),
           s.ocr.phase = "Capturing", r.ocr.phase = "Recognizing", r.ocr.popup = r.active
    PROVE  Spins(r)
<1>1. r.sessions[r.active].phase = "Capturing" BY DEF Gives
<1>2. \A i \in Live(r) \ {r.active} : i \in Live(s) /\ r.sessions[i] = s.sessions[i] BY DEF Gives
<1> QED BY <1>1, <1>2 DEF Spins

LEMMA SpinsAsked ==
    ASSUME NEW s, NEW r, GoodState(s), Spins(s), NEW id \in Live(s), Asks(s, r, id),
           \/ r.ocr = s.ocr
           \/ s.ocr.popup = id
    PROVE  Spins(r)
<1>1. s.sessions[id] \in Session /\ s.nextTask + 1 # None BY Fields DEF None
<1>2. r.sessions[id].phase = "Translating" /\ r.sessions[id].task # None BY <1>1 DEF Asks, Session
<1>3. \A i \in Live(r) \ {id} : i \in Live(s) /\ r.sessions[i] = s.sessions[i] BY DEF Asks
<1> QED BY <1>2, <1>3 DEF Spins

LEMMA SpinsReported ==
    ASSUME NEW s, NEW r, Spins(s), NEW t \in Tasks,
           NEW event \in {"started", "progress", "finished", "failed"}, Reports(s, r, t, event)
    PROVE  Spins(r)
<1>1. Live(r) = Live(s) /\ t # None BY DEF Reports, Tasks, None
<1>2. s.ocr.phase = "Recognizing" => r.ocr.phase = "Recognizing" /\ r.ocr.popup = s.ocr.popup
  BY DEF Reports
<1>3. ASSUME NEW i \in Live(s)
      PROVE  /\ r.sessions[i].phase = "Translating" => r.sessions[i].task # None
             /\ r.sessions[i].phase = "Capturing" => s.sessions[i].phase = "Capturing"
  <2>1. CASE r.sessions[i] = s.sessions[i] BY <2>1 DEF Spins
  <2>2. CASE /\ s.sessions[i].task = t /\ ViewReported(s.sessions[i], r.sessions[i], t, event)
             /\ r.sessions[i].task = IF Ends(event) THEN None ELSE t
    BY <1>1, <2>2 DEF ViewReported, Ends, Spins
  <2> QED BY <2>1, <2>2 DEF Reports
<1> QED BY <1>1, <1>2, <1>3 DEF Spins

LEMMA SpinSteps ==
    ASSUME PopupInv, SpinInv, [Next]_vars
    PROVE  Spins(state')
<1> USE DEF SpinInv
<1>0. GoodState(state) /\ \A i \in Live(state) : state.sessions[i] \in Session
  BY Fields DEF PopupInv
<1>1. CASE StepsAside BY <1>1, AsideSteps
<1>2. CASE PressHotkey \/ InputTranslation \/ EmptyInput \/ CloseMainWindow
  BY <1>2, SpinsSame, HotkeyMoves, InputMoves, MainQuits DEF Begins, Quits
<1>3. ASSUME NEW id, TranslatePopup(id) PROVE Spins(state')
  <2>1. CASE id \in Live(state) /\ Asks(state, state', id)
    BY <1>0, <1>3, <2>1, TranslatePopupMoves, SpinsAsked
  <2>2. CASE id \notin Live(state) /\ Requests(state, state', id)
    BY <2>2 DEF Requests, SamePopups, Spins
  <2> QED BY <1>3, <2>1, <2>2, TranslatePopupMoves
<1>4. ASSUME NEW id, TranslateEmptyPopup(id) PROVE Spins(state')
  <2>1. Complains(state, state', id) BY <1>4, TranslateEmptyMoves
  <2>2. id \in Live(state) => state'.sessions[id].phase = "Error"
    BY <1>0, <2>1 DEF Complains, Session
  <2> QED BY <2>1, <2>2 DEF Complains, Spins
<1>5. ASSUME NEW id, PinPopup(id) \/ UnpinPopup(id) PROVE Spins(state')
  <2>1. /\ Live(state') \subseteq Live(state) /\ state'.ocr = state.ocr
        /\ \A i \in Live(state') : /\ state'.sessions[i].phase = state.sessions[i].phase
                                   /\ state'.sessions[i].task = state.sessions[i].task
    <3>1. CASE PinPopup(id)
      <4>1. Pins(state, state', id) /\ id \in Live(state) BY <3>1, PinMoves DEF Passive
      <4> QED BY <1>0, <4>1 DEF Pins, Session
    <3>2. CASE UnpinPopup(id)
      <4>1. Unpins(state, state', id) /\ id \in Live(state) BY <3>2, UnpinMoves
      <4> QED BY <1>0, <4>1 DEF Unpins, Session
    <3> QED BY <1>5, <3>1, <3>2
  <2> QED BY <2>1 DEF Spins
<1>6. ASSUME NEW id, CloseWindow(id) PROVE Spins(state') BY <1>6, CloseMoves DEF Closes, Spins
<1>7. ASSUME NEW thread \in Threads, StartTranslation(thread) PROVE Spins(state')
  BY <1>7, StartMoves, SpinsReported
<1>8. ASSUME NEW t \in Tasks, ReportProgress(t) \/ EndTranslation(t) PROVE Spins(state')
  BY <1>8, ReportMoves, SpinsReported
<1>9. ASSUME NEW t \in Tasks, SelectionCaptured(t) PROVE Spins(state')
  <2>1. CASE state' = state BY <2>1
  <2>2. CASE Gives(state, state', "Translating", t, t) /\ state'.ocr = state.ocr
    BY <2>2, SpinsGiven DEF Tasks, None
  <2> QED BY <1>9, <2>1, <2>2, CapturedMoves
<1>10. ASSUME NEW t \in Tasks, SelectionNotCaptured(t) PROVE Spins(state')
  <2>1. CASE state' = state BY <2>1
  <2>2. CASE /\ \/ Gives(state, state', "NoSelection", None, None)
                \/ Gives(state, state', "Error", None, None)
             /\ state'.ocr = state.ocr
    BY <2>2, SpinsGiven
  <2> QED BY <1>10, <2>1, <2>2, NotCapturedMoves
<1>11. CASE RequestOcr
  <2>1. CASE RefuseOcr(state) BY <1>0, <2>1, RefuseMoves, SpinsGiven DEF Refuses
  <2>2. CASE Shoots(state, state', "Idle") /\ state.ocr.phase = "Capturing"
    BY <2>2 DEF Shoots, SamePopups, Spins
  <2>3. CASE BeginOcr
    <3>1. Retires(state, state') BY <2>3, BeginOcrMoves
    <3>2. \A i \in Live(state') :
             /\ i \in Live(state)
             /\ state'.sessions[i].phase = "Capturing" =>
                    /\ state.sessions[i].phase = "Capturing"
                    /\ ~(i = state.ocr.popup /\ state.ocr.phase = "Recognizing")
             /\ state'.sessions[i].phase = "Translating" =>
                    /\ state.sessions[i].phase = "Translating"
                    /\ state'.sessions[i].task = state.sessions[i].task
      <4>1. \A i \in Live(state') : i \in Live(state) BY <3>1 DEF Retires
      <4> QED BY <1>0, <3>1, <4>1 DEF Retires, Session
    <3> QED BY <3>2 DEF Spins
  <2> QED BY <1>11, <2>1, <2>2, <2>3, RequestOcrMoves
<1>12. CASE RequestOcrWhileAnnotating
  <2>1. /\ Gives(state, state', "Error", None, None) /\ "ocr while annotating" \in user.operations
        /\ state'.ocr = state.ocr \/ state'.ocr.phase = "Error"
    BY <1>12, AnnotatingMoves
  <2>2. CASE state'.ocr = state.ocr BY <2>1, <2>2, SpinsGiven
  <2>3. \A i \in Live(state) : i = state'.active
    <3>1. Passive(state) = Live(state) BY <2>1 DEF Apart, Passive
    <3>2. OnePassive(state) BY <1>0 DEF GoodState
    <3> QED BY <2>1, <3>1, <3>2 DEF Gives, OnePassive
  <2> QED BY <2>1, <2>3, SpinsRefused
<1>13. CASE DownloadOcr BY <1>13, DownloadMoves DEF Shoots, SamePopups, Spins
<1>14. ASSUME NEW job, SubmitRegion(job) PROVE Spins(state')
  BY <1>14, SubmitMoves, SpinsSubmitted DEF JobIs
<1>15. ASSUME NEW job, CancelRegion(job) PROVE Spins(state')
  BY <1>15, CancelMoves DEF JobIs, Shoots, SamePopups, Spins
<1>16. ASSUME NEW job, OcrChecked(job) \/ OcrDownloaded(job) PROVE Spins(state')
  BY <1>16, AnsweredMoves DEF JobIs, Turns, SamePopups, Spins
<1>17. ASSUME NEW job, OcrRecognized(job) PROVE Spins(state')
  <2> DEFINE id == state.ocr.popup
  <2>1. CASE id \in Live(state) /\ Asks(state, state', id) BY <1>0, <2>1, SpinsAsked
  <2>2. CASE id \notin Live(state) /\ Turns(state, state', "Translating")
    BY <2>2 DEF Turns, SamePopups, Spins
  <2> QED BY <1>17, <2>1, <2>2, RecognizedMoves
<1>18. ASSUME NEW job, OcrJobEnds(job) PROVE Spins(state')
  <2>1. CASE Fails(state, state')
    <3>1. \A i \in Live(state') :
             /\ i \in Live(state)
             /\ state'.sessions[i].phase = "Capturing" =>
                    i # state.ocr.popup /\ state.sessions[i].phase = "Capturing"
             /\ state'.sessions[i].phase = "Translating" =>
                    /\ state.sessions[i].phase = "Translating"
                    /\ state'.sessions[i].task = state.sessions[i].task
      BY <1>0, <2>1 DEF Fails, Session
    <3> QED BY <3>1 DEF Spins
  <2>2. CASE state' = state BY <2>2
  <2> QED BY <1>18, <2>1, <2>2, JobEndsMoves
<1>19. CASE DismissToolbar \/ SelectWithMouse \/ ToolbarCopy
  BY <1>19, ClearMoves, SpinsSame DEF Clears
<1>20. CASE ToolbarTranslate
  <2>1. state'.current # None BY <1>0, <1>20, ToolbarTranslateMoves, Fields DEF None
  <2> QED BY <1>20, <2>1, ToolbarTranslateMoves, SpinsGiven
<1>21. ASSUME NEW g \in gestures, ToolbarCaptured(g) PROVE Spins(state')
  BY <1>21, OfferMoves, SpinsSame DEF Offers
<1> QED
  BY <1>1, <1>2, <1>3, <1>4, <1>5, <1>6, <1>7, <1>8, <1>9, <1>10, <1>11, <1>12, <1>13, <1>14,
     <1>15, <1>16, <1>17, <1>18, <1>19, <1>20, <1>21, Steps DEF StepsAside

----------------------------------------
(* What the user does stays as it is, and only the user pins.                  *)

NothingPinned(s, r) == \A i \in Live(r) : r.sessions[i].pinned => i \in Live(s) /\ s.sessions[i].pinned

LEMMA GivenUnpinned ==
    ASSUME NEW s, NEW r, NEW phase, NEW task, NEW source, Gives(s, r, phase, task, source)
    PROVE  NothingPinned(s, r)
<1>1. ~r.sessions[r.active].pinned BY DEF Gives
<1>2. \A i \in Live(r) \ {r.active} : i \in Live(s) /\ r.sessions[i] = s.sessions[i] BY DEF Gives
<1> QED BY <1>1, <1>2 DEF NothingPinned

LEMMA AskedUnpinned ==
    ASSUME NEW s, NEW r, GoodState(s), NEW id \in Live(s), Asks(s, r, id)
    PROVE  NothingPinned(s, r)
<1>1. r.sessions[id].pinned = s.sessions[id].pinned BY Fields DEF Asks, Session
<1>2. \A i \in Live(r) : i \in Live(s) /\ (i # id => r.sessions[i] = s.sessions[i]) BY DEF Asks
<1> QED BY <1>1, <1>2 DEF NothingPinned

LEMMA PinSteps ==
    ASSUME PopupInv, [Next]_vars
    PROVE  /\ user'.operations = user.operations
           /\ NothingPinned(state, state') \/ "pin" \in user.operations
<1> DEFINE Kept  == user'.operations = user.operations
           Bare  == NothingPinned(state, state')
           Goal == Kept /\ (Bare \/ "pin" \in user.operations)
<1>0. GoodState(state) /\ \A i \in Live(state) : state.sessions[i] \in Session
  BY Fields DEF PopupInv
<1>a. SamePopups(state, state') => Bare
  BY DEF SamePopups, NothingPinned
<1>b. user' = user => Kept
  OBVIOUS
<1>1. CASE StepsAside
  <2>1. user' = user
    BY <1>1 DEF StepsAside, CaptureSelection, StopTranslation, RegisterTranslation, PostToUi,
       OcrCaptured, ShowWindow, HideWindow, vars
  <2>2. Bare BY <1>1, AsideSteps DEF NothingPinned
  <2> QED BY <2>1, <2>2
<1>2. CASE PressHotkey \/ InputTranslation \/ EmptyInput \/ CloseMainWindow
  <2>1. user' = user BY <1>2, HotkeyMoves, InputMoves, MainQuits
  <2>2. state' = state \/ SamePopups(state, state')
    BY <1>2, HotkeyMoves, InputMoves, MainQuits DEF Begins, Quits
  <2>3. state' = state => Bare BY DEF NothingPinned
  <2> QED BY <1>a, <1>b, <2>1, <2>2, <2>3
<1>3. ASSUME NEW id, TranslatePopup(id) PROVE Goal
  <2>1. CASE id \in Live(state) /\ Asks(state, state', id)
    <3>1. Bare BY <1>0, <2>1, AskedUnpinned
    <3> QED BY <1>3, <3>1, TranslatePopupMoves
  <2>2. CASE id \notin Live(state) /\ Requests(state, state', id)
    BY <1>3, <1>a, <2>2, TranslatePopupMoves DEF Requests
  <2> QED BY <1>3, <2>1, <2>2, TranslatePopupMoves
<1>4. ASSUME NEW id, TranslateEmptyPopup(id) PROVE Goal
  <2>1. Complains(state, state', id) /\ user' = user BY <1>4, TranslateEmptyMoves
  <2>2. Live(state') = Live(state) /\ \A i \in Live(state) :
            state'.sessions[i].pinned = state.sessions[i].pinned
    BY <1>0, <2>1 DEF Complains, Session
  <2> QED BY <2>1, <2>2 DEF NothingPinned
<1>5. ASSUME NEW id, PinPopup(id) \/ UnpinPopup(id) PROVE Goal BY <1>5, PinMoves, UnpinMoves
<1>6. ASSUME NEW id, CloseWindow(id) PROVE Goal BY <1>6, CloseMoves DEF Closes, NothingPinned
<1>7. ASSUME NEW thread \in Threads, StartTranslation(thread) PROVE Goal
  BY <1>7, StartMoves DEF Reports, NothingPinned
<1>8. ASSUME NEW t \in Tasks, ReportProgress(t) \/ EndTranslation(t) PROVE Goal
  BY <1>8, ReportMoves DEF Reports, NothingPinned
<1>9. ASSUME NEW t \in Tasks, SelectionCaptured(t) \/ SelectionNotCaptured(t) PROVE Goal
  <2>1. user' = user BY <1>9, CapturedMoves, NotCapturedMoves
  <2>2. \/ state' = state
        \/ Gives(state, state', "Translating", t, t)
        \/ Gives(state, state', "NoSelection", None, None)
        \/ Gives(state, state', "Error", None, None)
    BY <1>9, CapturedMoves, NotCapturedMoves
  <2>3. state' = state => Bare BY DEF NothingPinned
  <2>4. Bare BY <2>2, <2>3, GivenUnpinned
  <2> QED BY <2>1, <2>4
<1>10. CASE RequestOcr
  <2>1. Kept BY <1>10, RequestOcrMoves
  <2>2. CASE RefuseOcr(state)
    <3>1. Bare BY <1>0, <2>2, RefuseMoves, GivenUnpinned DEF Refuses
    <3> QED BY <2>1, <3>1
  <2>3. CASE Shoots(state, state', "Idle") BY <1>a, <2>1, <2>3 DEF Shoots
  <2>4. CASE BeginOcr
    <3>1. Retires(state, state') BY <2>4, BeginOcrMoves
    <3>2. \A i \in Live(state') : i \in Live(state) BY <3>1 DEF Retires
    <3>3. \A i \in Live(state') : state'.sessions[i].pinned = state.sessions[i].pinned
      BY <1>0, <3>1, <3>2 DEF Retires, Session
    <3> QED BY <2>1, <3>2, <3>3 DEF NothingPinned
  <2> QED BY <1>10, <2>2, <2>3, <2>4, RequestOcrMoves
<1>11. CASE RequestOcrWhileAnnotating
  <2>1. Bare BY <1>11, AnnotatingMoves, GivenUnpinned
  <2> QED BY <1>11, <2>1, AnnotatingMoves
<1>12. CASE DownloadOcr BY <1>12, <1>a, DownloadMoves DEF Shoots
<1>13. ASSUME NEW job, SubmitRegion(job) PROVE Goal
  <2>1. Bare BY <1>13, SubmitMoves, GivenUnpinned
  <2> QED BY <1>13, <2>1, SubmitMoves
<1>14. ASSUME NEW job, CancelRegion(job) PROVE Goal BY <1>14, <1>a, CancelMoves DEF Shoots
<1>15. ASSUME NEW job, OcrChecked(job) \/ OcrDownloaded(job) PROVE Goal
  BY <1>15, <1>a, AnsweredMoves DEF Turns
<1>16. ASSUME NEW job, OcrRecognized(job) PROVE Goal
  <2> DEFINE id == state.ocr.popup
  <2>1. CASE id \in Live(state) /\ Asks(state, state', id)
    <3>1. Bare BY <1>0, <2>1, AskedUnpinned
    <3> QED BY <1>16, <3>1, RecognizedMoves
  <2>2. CASE Turns(state, state', "Translating") BY <1>16, <1>a, <2>2, RecognizedMoves DEF Turns
  <2> QED BY <1>16, <2>1, <2>2, RecognizedMoves
<1>17. ASSUME NEW job, OcrJobEnds(job) PROVE Goal
  <2>1. CASE Fails(state, state')
    <3>1. Live(state') = Live(state) /\ \A i \in Live(state) :
              state'.sessions[i].pinned = state.sessions[i].pinned
      BY <1>0, <2>1 DEF Fails, Session
    <3>2. Bare BY <3>1 DEF NothingPinned
    <3> QED BY <1>17, <3>2, JobEndsMoves
  <2>2. CASE state' = state BY <1>17, <2>2, JobEndsMoves DEF NothingPinned
  <2> QED BY <1>17, <2>1, <2>2, JobEndsMoves
<1>18. CASE DismissToolbar \/ SelectWithMouse \/ ToolbarCopy BY <1>18, <1>a, ClearMoves DEF Clears
<1>19. CASE ToolbarTranslate
  <2>1. Bare BY <1>19, ToolbarTranslateMoves, GivenUnpinned
  <2> QED BY <1>19, <2>1, ToolbarTranslateMoves
<1>20. ASSUME NEW g \in gestures, ToolbarCaptured(g) PROVE Goal
  BY <1>20, <1>a, OfferMoves DEF Offers
<1> QED
  BY <1>1, <1>2, <1>3, <1>4, <1>5, <1>6, <1>7, <1>8, <1>9, <1>10, <1>11, <1>12, <1>13, <1>14,
     <1>15, <1>16, <1>17, <1>18, <1>19, <1>20, Steps DEF StepsAside

LEMMA SpinInit == PinsApart /\ Init => SpinInv
<1> SUFFICES ASSUME PinsApart, Init PROVE SpinInv OBVIOUS
<1>1. Live(state) = {} BY DEF Init, Live
<1>2. user.operations \in Scenarios BY DEF Init
<1> QED BY <1>1, <1>2 DEF SpinInv, Spins, Apart, PinsApart

LEMMA SpinNext == PopupInv /\ SpinInv /\ [Next]_vars => SpinInv'
<1> SUFFICES ASSUME PopupInv, SpinInv, [Next]_vars PROVE SpinInv' OBVIOUS
<1>1. Spins(state)' BY SpinSteps
<1>2. Apart' BY PinSteps DEF SpinInv, Apart, NothingPinned
<1> QED BY <1>1, <1>2 DEF SpinInv

----------------------------------------
\* OCR waits only for a job that is under way: every step.
LEMMA RecognizesSame ==
    ASSUME NEW s, NEW r, NEW jobs, Recognizes(s, jobs), r.ocr.generation = s.ocr.generation,
           \/ r.ocr.phase = s.ocr.phase
           \/ r.ocr.phase \in {"Idle", "DownloadRequired", "Translating", "Error"}
    PROVE  Recognizes(r, jobs)
BY DEF Recognizes

\* OCR that waits for nothing.
LEMMA RecognizesNone ==
    ASSUME NEW r, NEW jobs, r.ocr.phase \in {"Idle", "DownloadRequired", "Translating", "Error"}
    PROVE  Recognizes(r, jobs)
BY DEF Recognizes

LEMMA RecognizesNext ==
    ASSUME PopupInv, Recognizes(state, ocrJobs), [Next]_vars
    PROVE  Recognizes(state', ocrJobs')
<1> DEFINE Goal == Recognizes(state', ocrJobs')
<1>0. GoodState(state) /\ state.ocr.generation \in Nat BY Fields DEF PopupInv, Ocr
<1>a. ASSUME ocrJobs' = ocrJobs, state'.ocr = state.ocr \/ state'.ocr.phase \in {"Idle", "Error"}
      PROVE  Goal
  BY <1>a, RecognizesNone DEF Recognizes
<1>1. ASSUME NEW job, OcrCaptured(job) PROVE Goal BY <1>1 DEF OcrCaptured, JobIs, Job, Recognizes
<1>2. CASE StepsAside /\ ocrJobs' = ocrJobs BY <1>a, <1>2, AsideSteps
<1>3. CASE PressHotkey \/ InputTranslation \/ EmptyInput \/ CloseMainWindow
  BY <1>a, <1>3, HotkeyMoves, InputMoves, MainQuits DEF Begins, Quits
<1>4. ASSUME NEW id, TranslatePopup(id) \/ TranslateEmptyPopup(id) \/ PinPopup(id)
                     \/ UnpinPopup(id) \/ CloseWindow(id)
      PROVE  Goal
  BY <1>a, <1>4, TranslatePopupMoves, TranslateEmptyMoves, PinMoves, UnpinMoves, CloseMoves
     DEF Complains, Pins, Unpins, Closes
<1>5. ASSUME NEW thread \in Threads, StartTranslation(thread) PROVE Goal
  <2>1. ocrJobs' = ocrJobs /\ \E t \in Tasks : Reports(state, state', t, "started")
    BY <1>5, StartMoves
  <2> QED BY <2>1, RecognizesSame DEF Reports
<1>6. ASSUME NEW t \in Tasks, ReportProgress(t) \/ EndTranslation(t) PROVE Goal
  <2>1. ocrJobs' = ocrJobs /\ \E event \in {"progress", "finished", "failed"} : Reports(state, state', t, event)
    BY <1>6, ReportMoves
  <2> QED BY <2>1, RecognizesSame DEF Reports
<1>7. ASSUME NEW t \in Tasks, SelectionCaptured(t) \/ SelectionNotCaptured(t) PROVE Goal
  BY <1>a, <1>7, CapturedMoves, NotCapturedMoves
<1>8. CASE RequestOcr
  <2>1. CASE RefuseOcr(state) BY <1>0, <1>a, <2>1, RefuseMoves DEF Refuses
  <2>2. CASE Shoots(state, state', "Idle") BY <2>2, RecognizesNone DEF Shoots
  <2>3. CASE BeginOcr
    <3>1. Retires(state, state') /\ Job("check", state'.ocr.generation) \in ocrJobs'
      BY <2>3, BeginOcrMoves
    <3> QED BY <3>1 DEF Retires, Recognizes
  <2> QED BY <1>8, <2>1, <2>2, <2>3, RequestOcrMoves
<1>9. CASE RequestOcrWhileAnnotating BY <1>a, <1>9, AnnotatingMoves
<1>10. CASE DownloadOcr BY <1>10, DownloadMoves DEF Shoots, Recognizes
<1>11. ASSUME NEW job, SubmitRegion(job) PROVE Goal BY <1>11, SubmitMoves DEF JobIs, Recognizes
<1>12. ASSUME NEW job, CancelRegion(job) PROVE Goal BY <1>12, CancelMoves, RecognizesNone DEF Shoots
<1>13. ASSUME NEW job, OcrChecked(job) \/ OcrDownloaded(job) PROVE Goal
  BY <1>13, AnsweredMoves DEF Turns, JobIs, Recognizes
<1>14. ASSUME NEW job, OcrRecognized(job) PROVE Goal BY <1>14, RecognizedMoves, RecognizesNone
<1>15. ASSUME NEW job, OcrJobEnds(job) PROVE Goal
  <2>1. CASE Fails(state, state') BY <2>1, RecognizesNone DEF Fails
  <2>2. CASE state' = state /\ ocrJobs' = ocrJobs \ {job} /\ job.generation # state.ocr.generation
    BY <2>2 DEF Recognizes, Job
  <2> QED BY <1>15, <2>1, <2>2, JobEndsMoves
<1>16. CASE DismissToolbar \/ SelectWithMouse \/ ToolbarCopy BY <1>a, <1>16, ClearMoves DEF Clears
<1>17. CASE ToolbarTranslate BY <1>a, <1>17, ToolbarTranslateMoves
<1>18. ASSUME NEW g \in gestures, ToolbarCaptured(g) PROVE Goal
  BY <1>a, <1>18, OfferMoves DEF Offers
<1>19. StepsAside => ocrJobs' = ocrJobs \/ \E job : OcrCaptured(job)
  BY DEF StepsAside, CaptureSelection, StopTranslation, RegisterTranslation, PostToUi,
     ShowWindow, HideWindow, vars
<1> QED
  BY <1>1, <1>2, <1>3, <1>4, <1>5, <1>6, <1>7, <1>8, <1>9, <1>10, <1>11, <1>12, <1>13, <1>14,
     <1>15, <1>16, <1>17, <1>18, <1>19, Steps DEF StepsAside

----------------------------------------
(* What the threads have still to execute.                                     *)

Todo(commands) == {commands[i] : i \in DOMAIN commands}

\* The thread has still to start the task, or to register its worker.
Starts(p, thread, t) == Translate(t) \in Todo(p[thread])
Enrols(p, thread, t) == Register(t) \in Todo(p[thread])

\* What a dispatch or the execution of a command leaves a thread to do.
Script(commands) ==
    \/ commands = <<>>
    \/ \E c \in Command : commands = <<c>>
    \/ \E i \in Sessions, t \in Tasks : commands = <<Show(i), Translate(t)>>

Scripts(p) == \A thread \in Threads : Script(p[thread])

LEMMA TodoFacts ==
    /\ Todo(<<>>) = {}
    /\ \A c : Todo(<<c>>) = {c}
    /\ \A c, d : Todo(<<c, d>>) = {c, d}
<1>1. Todo(<<>>) = {} BY DEF Todo
<1>2. ASSUME NEW c PROVE Todo(<<c>>) = {c} BY DEF Todo
<1>3. ASSUME NEW c, NEW d PROVE Todo(<<c, d>>) = {c, d}
  <2>1. DOMAIN <<c, d>> = {1, 2} /\ <<c, d>>[1] = c /\ <<c, d>>[2] = d OBVIOUS
  <2> QED BY <2>1 DEF Todo
<1> QED BY <1>1, <1>2, <1>3

LEMMA CommandFacts ==
    ASSUME NEW i, NEW j
    PROVE  /\ Translate(i) = Translate(j) => i = j
           /\ Register(i) = Register(j) => i = j
           /\ Show(i) = Show(j) => i = j
           /\ Hide(i) = Hide(j) => i = j
           /\ Translate(i) # Register(j)
           /\ Translate(i) # Show(j) /\ Register(i) # Show(j)
           /\ Translate(i) # Hide(j) /\ Register(i) # Hide(j)
           /\ Show(i) # Hide(j)
<1>1. /\ Translate(i).id = i /\ Translate(j).id = j /\ Register(i).id = i /\ Register(j).id = j
      /\ Show(i).id = i /\ Show(j).id = j /\ Hide(i).id = i /\ Hide(j).id = j
  BY DEF Translate, Register, Show, Hide
<1>2. /\ Translate(i).op = "translate" /\ Register(i).op = "register" /\ Register(j).op = "register"
      /\ Show(i).op = "show" /\ Show(j).op = "show" /\ Hide(j).op = "hide"
  BY DEF Translate, Register, Show, Hide
<1> QED BY <1>1, <1>2

\* What is left of a script when its first command is executed.
LEMMA ScriptTail ==
    ASSUME NEW c, Script(c), c # <<>>
    PROVE  /\ Script(Tail(c)) /\ Todo(c) = {Head(c)} \cup Todo(Tail(c))
           /\ \A t : Head(c) \in {Translate(t), Register(t)} => Tail(c) = <<>> /\ Todo(c) = {Head(c)}
<1>1. CASE \E d \in Command : c = <<d>>
  <2>1. PICK d \in Command : c = <<d>> BY <1>1
  <2>2. Head(c) = d /\ Tail(c) = <<>> BY <2>1
  <2> QED BY <2>1, <2>2, TodoFacts DEF Script
<1>2. CASE \E i \in Sessions, t \in Tasks : c = <<Show(i), Translate(t)>>
  <2>1. PICK i \in Sessions, t \in Tasks : c = <<Show(i), Translate(t)>> BY <1>2
  <2>2. Head(c) = Show(i) /\ Tail(c) = <<Translate(t)>> BY <2>1
  <2>3. Translate(t) \in Command BY DEF Translate, Command
  <2>4. \A u : Head(c) # Translate(u) /\ Head(c) # Register(u) BY <2>2, CommandFacts
  <2> QED BY <2>1, <2>2, <2>3, <2>4, TodoFacts DEF Script
<1> QED BY <1>1, <1>2 DEF Script

\* No task is started, and none registered, by what the threads do.
Quietly(p, q) ==
    /\ Scripts(q)
    /\ \A thread \in Threads, t \in Tasks :
         (Starts(q, thread, t) <=> Starts(p, thread, t)) /\ (Enrols(q, thread, t) <=> Enrols(p, thread, t))

\* The thread is to start the task.
Adds(p, q, thread, t) ==
    /\ Scripts(q)
    /\ \A other \in Threads, u \in Tasks :
         /\ Starts(q, other, u) <=> Starts(p, other, u) \/ (other = thread /\ u = t)
         /\ Enrols(q, other, u) <=> Enrols(p, other, u)

\* The thread started the task and is to register its worker.
Spawns(p, q, thread, t) ==
    /\ Scripts(q) /\ Starts(p, thread, t)
    /\ \A other \in Threads, u \in Tasks :
         /\ Starts(q, other, u) <=> Starts(p, other, u) /\ ~(other = thread /\ u = t)
         /\ Enrols(q, other, u) <=> Enrols(p, other, u) \/ (other = thread /\ u = t)

\* The thread registered the worker of the task.
Enters(p, q, thread, t) ==
    /\ Scripts(q) /\ Enrols(p, thread, t)
    /\ \A other \in Threads, u \in Tasks :
         /\ Starts(q, other, u) <=> Starts(p, other, u)
         /\ Enrols(q, other, u) <=> Enrols(p, other, u) /\ ~(other = thread /\ u = t)

\* The other threads are left alone.
Elsewhere(p, q, thread) == \A other \in Threads \ {thread} : q[other] = p[other]

LEMMA ExecuteElsewhere ==
    ASSUME pending \in [Threads -> Seq(Command)], NEW thread \in Threads, NEW commands,
           Execute(thread, commands)
    PROVE  pending'[thread] = commands /\ Elsewhere(pending, pending', thread)
BY DEF Execute, Elsewhere

LEMMA ExecuteNone ==
    ASSUME pending \in [Threads -> Seq(Command)], Scripts(pending), NEW thread \in Threads,
           Free(thread), NEW commands, Execute(thread, commands),
           \/ commands = <<>>
           \/ \E i \in Sessions : commands = <<Show(i)>>
           \/ \E i \in Sessions : commands = <<Hide(i)>>
    PROVE  Quietly(pending, pending') /\ Elsewhere(pending, pending', thread)
<1>1. pending'[thread] = commands /\ Elsewhere(pending, pending', thread) /\ pending[thread] = <<>>
  BY ExecuteElsewhere DEF Free
<1>2. \A i \in Sessions : Show(i) \in Command /\ Hide(i) \in Command BY DEF Show, Hide, Command
<1>3. Script(commands) BY <1>2 DEF Script
<1>4. ASSUME NEW t PROVE Translate(t) \notin Todo(commands) /\ Register(t) \notin Todo(commands)
  <2>1. CASE commands = <<>> BY <2>1, TodoFacts
  <2>2. ASSUME NEW i \in Sessions, commands = <<Show(i)>> \/ commands = <<Hide(i)>>
        PROVE  Translate(t) \notin Todo(commands) /\ Register(t) \notin Todo(commands)
    <3>1. Todo(commands) = {Show(i)} \/ Todo(commands) = {Hide(i)} BY <2>2, TodoFacts
    <3> QED BY <3>1, CommandFacts
  <2> QED BY <2>1, <2>2
<1> QED BY <1>1, <1>3, <1>4, TodoFacts DEF Quietly, Scripts, Elsewhere, Starts, Enrols

LEMMA ExecuteTranslate ==
    ASSUME pending \in [Threads -> Seq(Command)], Scripts(pending), NEW thread \in Threads,
           Free(thread), NEW commands, Execute(thread, commands), NEW t \in Tasks,
           \/ commands = <<Translate(t)>>
           \/ \E i \in Sessions : commands = <<Show(i), Translate(t)>>
    PROVE  Adds(pending, pending', thread, t) /\ Elsewhere(pending, pending', thread)
<1>1. pending'[thread] = commands /\ Elsewhere(pending, pending', thread) /\ pending[thread] = <<>>
  BY ExecuteElsewhere DEF Free
<1>2. Translate(t) \in Command BY DEF Translate, Command
<1>3. Script(commands) BY <1>2 DEF Script
<1>4. ASSUME NEW u
      PROVE  (Translate(u) \in Todo(commands) <=> u = t) /\ Register(u) \notin Todo(commands)
  <2>1. CASE Todo(commands) = {Translate(t)} BY <2>1, CommandFacts
  <2>2. ASSUME NEW i, Todo(commands) = {Show(i), Translate(t)}
        PROVE  (Translate(u) \in Todo(commands) <=> u = t) /\ Register(u) \notin Todo(commands)
    BY <2>2, CommandFacts
  <2> QED BY <2>1, <2>2, TodoFacts
<1> QED BY <1>1, <1>3, <1>4, TodoFacts DEF Adds, Scripts, Elsewhere, Starts, Enrols

LEMMA ExecuteRegister ==
    ASSUME pending \in [Threads -> Seq(Command)], Scripts(pending), NEW thread \in Threads,
           ~Free(thread), NEW t \in Tasks, Head(pending[thread]) = Translate(t),
           Execute(thread, <<Register(t)>> \o Tail(pending[thread]))
    PROVE  Spawns(pending, pending', thread, t) /\ Elsewhere(pending, pending', thread)
<1>1. Tail(pending[thread]) = <<>> /\ Todo(pending[thread]) = {Translate(t)}
  BY ScriptTail DEF Free, Scripts
<1>2a. <<Register(t)>> \o <<>> = <<Register(t)>>
  OBVIOUS
<1>2. pending'[thread] = <<Register(t)>> /\ Elsewhere(pending, pending', thread)
  BY <1>1, <1>2a, ExecuteElsewhere
<1>3. Register(t) \in Command BY DEF Register, Command
<1>4. Script(<<Register(t)>>) /\ Todo(<<Register(t)>>) = {Register(t)} BY <1>3, TodoFacts DEF Script
<1>5. \A u : /\ Translate(u) \in {Translate(t)} <=> u = t
             /\ Register(u) \in {Register(t)} <=> u = t
             /\ Translate(u) # Register(t) /\ Register(u) # Translate(t)
  BY CommandFacts
<1> QED BY <1>1, <1>2, <1>4, <1>5 DEF Spawns, Scripts, Elsewhere, Starts, Enrols

LEMMA ExecuteTail ==
    ASSUME pending \in [Threads -> Seq(Command)], Scripts(pending), NEW thread \in Threads,
           ~Free(thread), Execute(thread, Tail(pending[thread]))
    PROVE  /\ Elsewhere(pending, pending', thread)
           /\ Head(pending[thread]).op \in {"show", "hide"} => Quietly(pending, pending')
           /\ \A t \in Tasks : Head(pending[thread]) = Register(t) =>
                  Enters(pending, pending', thread, t)
<1>1. /\ Script(pending'[thread]) /\ pending'[thread] = Tail(pending[thread])
      /\ Todo(pending[thread]) = {Head(pending[thread])} \cup Todo(pending'[thread])
      /\ Elsewhere(pending, pending', thread)
  BY ScriptTail, ExecuteElsewhere DEF Free, Scripts
<1>2. Scripts(pending') BY <1>1 DEF Scripts, Elsewhere
<1>3. ASSUME Head(pending[thread]).op \in {"show", "hide"} PROVE Quietly(pending, pending')
  <2>1. \A t : Head(pending[thread]) # Translate(t) /\ Head(pending[thread]) # Register(t)
    BY <1>3 DEF Translate, Register
  <2> QED BY <1>1, <1>2, <2>1 DEF Quietly, Elsewhere, Starts, Enrols
<1>4. ASSUME NEW t \in Tasks, Head(pending[thread]) = Register(t)
      PROVE  Enters(pending, pending', thread, t)
  <2>1. pending'[thread] = <<>> /\ Todo(pending[thread]) = {Register(t)}
    BY <1>1, <1>4, ScriptTail DEF Free, Scripts
  <2>2. \A u : (Register(u) \in {Register(t)} <=> u = t) /\ Translate(u) # Register(t)
    BY CommandFacts
  <2> QED BY <1>1, <1>2, <2>1, <2>2, TodoFacts DEF Enters, Elsewhere, Starts, Enrols
<1> QED BY <1>1, <1>3, <1>4

----------------------------------------
(* The stages of the workers agree with what the threads have to execute.      *)

Early == {"capturing", "captured", "empty", "failed"}

\* The tasks begun are 1..n.  A task that is to start has the one command that starts it,
\* and a worker that runs has a handle in reg or is about to be registered.
Staged(ws, p, reg, n) ==
    \A t \in Tasks :
        /\ ws[t].stage = "none" <=> t > n
        /\ ws[t].stage \in {"none"} \cup Early => p[t] = <<>>
        /\ ws[t].stage = "starting" <=> \E thread \in Threads : Starts(p, thread, t)
        /\ \A one, two \in Threads : Starts(p, one, t) /\ Starts(p, two, t) => one = two
        /\ \A thread \in Threads :
               Enrols(p, thread, t) => ws[t].stage \in {"running", "aborted", "done"}
        /\ ws[t].stage = "running" => t \in reg \/ \E thread \in Threads : Enrols(p, thread, t)

\* The worker of the task goes on to a stage.
Restaged(ws, new, t, stage) ==
    new[t].stage = stage /\ \A u \in Tasks \ {t} : new[u].stage = ws[u].stage

LEMMA BegunRestaged ==
    ASSUME WorkersOk, NEW t \in Tasks, NEW stage \in WorkerStages,
           NEW session \in {None} \cup Sessions
    PROVE  /\ Begun(t, stage, session) \in [Tasks -> Worker]
           /\ Restaged(workers, Begun(t, stage, session), t, stage)
<1>1. /\ Begun(t, stage, session)[t] = [stage |-> stage, session |-> session]
      /\ \A u \in Tasks \ {t} : Begun(t, stage, session)[u] = workers[u]
      /\ Begun(t, stage, session) \in [Tasks -> Worker]
  BY BegunWorkers
<1>2. Begun(t, stage, session)[t].stage = stage BY <1>1
<1> QED BY <1>1, <1>2 DEF Restaged

LEMMA StageRestaged ==
    ASSUME WorkersOk, NEW t \in Tasks, NEW stage \in WorkerStages
    PROVE  /\ [workers EXCEPT ![t].stage = stage] \in [Tasks -> Worker]
           /\ Restaged(workers, [workers EXCEPT ![t].stage = stage], t, stage)
BY StageWorkers DEF Restaged

LEMMA StagedAborted ==
    ASSUME NEW s, NEW ws \in [Tasks -> Worker], NEW p, NEW n, Staged(ws, p, registered, n)
    PROVE  Staged(Aborted(s, ws), p, registered \cap Wanted(s), n)
<1> SUFFICES ASSUME NEW new, new = Aborted(s, ws)
             PROVE  Staged(new, p, registered \cap Wanted(s), n)
  OBVIOUS
<1>1. ASSUME NEW t \in Tasks
      PROVE  \/ new[t].stage = ws[t].stage /\ ~(t \in registered \ Wanted(s) /\ ws[t].stage = "running")
             \/ new[t].stage = "aborted" /\ ws[t].stage = "running"
  BY AbortedWorkers
<1> QED BY <1>1 DEF Staged, Early

LEMMA StagedQuietly ==
    ASSUME NEW ws, NEW p, NEW q, NEW reg, NEW n, Staged(ws, p, reg, n), Quietly(p, q),
           \A t \in Tasks : p[t] = <<>> => q[t] = <<>>
    PROVE  Staged(ws, q, reg, n)
BY DEF Staged, Quietly

\* A task begins: its selection is captured, or it is to start.
LEMMA StagedBegins ==
    ASSUME NEW ws, NEW new, NEW p, NEW q, NEW reg, NEW n \in Nat, Staged(ws, p, reg, n),
           n + 1 \in Tasks, NEW thread \in Threads,
           \/ Restaged(ws, new, n + 1, "capturing") /\ q = p
           \/ /\ Restaged(ws, new, n + 1, "starting") /\ Adds(p, q, thread, n + 1)
              /\ Elsewhere(p, q, thread) /\ thread \in {UI, n + 1}
    PROVE  Staged(new, q, reg, n + 1)
<1> DEFINE t == n + 1
<1>1. ws[t].stage = "none" /\ p[t] = <<>> /\ \A other \in Threads : ~Starts(p, other, t) /\ ~Enrols(p, other, t)
  BY DEF Staged, Tasks, Early
<1>2. \A u \in Tasks : u > n + 1 <=> u > n /\ u # t BY DEF Tasks
<1>3. \A u \in Tasks : u # UI /\ u \in Threads BY DEF Tasks, UI, Threads
<1>4. CASE Restaged(ws, new, t, "capturing") /\ q = p
  BY <1>1, <1>2, <1>4 DEF Staged, Restaged, Early
<1>5. CASE /\ Restaged(ws, new, t, "starting") /\ Adds(p, q, thread, t)
           /\ Elsewhere(p, q, thread) /\ thread \in {UI, t}
  <2>1. \A u \in Tasks : u # t => q[u] = p[u] BY <1>3, <1>5 DEF Elsewhere
  <2> HIDE DEF t
  <2>2. ASSUME NEW u \in Tasks, u # t
        PROVE  /\ new[u].stage = "none" <=> u > n + 1
               /\ new[u].stage \in {"none"} \cup Early => q[u] = <<>>
               /\ new[u].stage = "starting" <=> \E other \in Threads : Starts(q, other, u)
               /\ \A one, two \in Threads : Starts(q, one, u) /\ Starts(q, two, u) => one = two
               /\ \A other \in Threads :
                      Enrols(q, other, u) => new[u].stage \in {"running", "aborted", "done"}
               /\ new[u].stage = "running" => u \in reg \/ \E other \in Threads : Enrols(q, other, u)
    <3>1. new[u].stage = ws[u].stage /\ q[u] = p[u] /\ (u > n + 1 <=> u > n)
      BY <1>2, <1>5, <2>1, <2>2 DEF Restaged
    <3>2. \A other \in Threads : /\ Starts(q, other, u) <=> Starts(p, other, u)
                                 /\ Enrols(q, other, u) <=> Enrols(p, other, u)
      BY <1>5, <2>2 DEF Adds
    <3> QED BY <3>1, <3>2 DEF Staged
  <2>3. /\ new[t].stage = "starting" /\ t \in Tasks /\ ~(t > n + 1)
        /\ \A other \in Threads : (Starts(q, other, t) <=> other = thread) /\ ~Enrols(q, other, t)
    BY <1>1, <1>2, <1>5 DEF Restaged, Adds, t
  <2> QED BY <2>2, <2>3 DEF Staged, Early
<1> QED BY <1>4, <1>5

\* The worker that captured the selection goes on to translate it.
LEMMA StagedCaptured ==
    ASSUME NEW ws, NEW new, NEW p, NEW q, NEW reg, NEW n, Staged(ws, p, reg, n),
           NEW t \in Tasks, ws[t].stage \in Early, Restaged(ws, new, t, "starting"),
           Adds(p, q, t, t), Elsewhere(p, q, t)
    PROVE  Staged(new, q, reg, n)
<1>1. /\ \A other \in Threads : ~Starts(p, other, t) /\ ~Enrols(p, other, t)
      /\ ~(t > n) /\ t \in Threads
  BY DEF Staged, Early, Threads
<1>2. ASSUME NEW u \in Tasks, u # t
      PROVE  /\ new[u].stage = ws[u].stage /\ q[u] = p[u]
             /\ \A other \in Threads : /\ Starts(q, other, u) <=> Starts(p, other, u)
                                       /\ Enrols(q, other, u) <=> Enrols(p, other, u)
  BY <1>2 DEF Restaged, Adds, Elsewhere, Threads
<1>3. /\ new[t].stage = "starting"
      /\ \A other \in Threads : (Starts(q, other, t) <=> other = t) /\ ~Enrols(q, other, t)
  BY <1>1 DEF Restaged, Adds
<1> QED BY <1>1, <1>2, <1>3 DEF Staged, Early

\* The worker is spawned, and its thread is to register it.
LEMMA StagedSpawns ==
    ASSUME NEW ws, NEW new, NEW p, NEW q, NEW reg, NEW n, Staged(ws, p, reg, n),
           NEW t \in Tasks, NEW thread \in Threads, Restaged(ws, new, t, "running"),
           Spawns(p, q, thread, t), Elsewhere(p, q, thread), p[thread] # <<>>
    PROVE  Staged(new, q, reg, n)
<1>1. /\ ws[t].stage = "starting" /\ ~(t > n)
      /\ \A other \in Threads : (Starts(p, other, t) <=> other = thread) /\ ~Enrols(p, other, t)
  BY DEF Staged, Spawns
<1>2. ASSUME NEW u \in Tasks, u # t
      PROVE  /\ new[u].stage = ws[u].stage /\ (p[u] = <<>> => q[u] = <<>>)
             /\ \A other \in Threads : /\ Starts(q, other, u) <=> Starts(p, other, u)
                                       /\ Enrols(q, other, u) <=> Enrols(p, other, u)
  BY <1>2 DEF Restaged, Spawns, Elsewhere, Threads
<1>3. /\ new[t].stage = "running"
      /\ \A other \in Threads : ~Starts(q, other, t) /\ (Enrols(q, other, t) <=> other = thread)
  BY <1>1 DEF Restaged, Spawns
<1> QED BY <1>1, <1>2, <1>3 DEF Staged, Early

\* The worker is registered, or aborted because nobody waits for it any more.
LEMMA StagedEnters ==
    ASSUME NEW ws, NEW new, NEW p, NEW q, NEW reg, NEW entered, NEW n, Staged(ws, p, reg, n),
           NEW t \in Tasks, NEW thread \in Threads, Enters(p, q, thread, t),
           Elsewhere(p, q, thread), p[thread] # <<>>,
           \/ new = ws /\ entered = reg \cup {t}
           \/ /\ entered = reg
              /\ Restaged(ws, new, t, IF ws[t].stage = "running" THEN "aborted" ELSE ws[t].stage)
    PROVE  Staged(new, q, entered, n)
<1>1. ws[t].stage \in {"running", "aborted", "done"} /\ ~(t > n)
      /\ \A other \in Threads : ~Starts(q, other, t)
  BY DEF Staged, Enters
<1>2. ASSUME NEW u \in Tasks, u # t
      PROVE  /\ new[u].stage = ws[u].stage /\ (p[u] = <<>> => q[u] = <<>>)
             /\ \A other \in Threads : /\ Starts(q, other, u) <=> Starts(p, other, u)
                                       /\ Enrols(q, other, u) <=> Enrols(p, other, u)
  BY <1>2 DEF Restaged, Enters, Elsewhere, Threads
<1>3. /\ new[t].stage \in {"running", "aborted", "done"}
      /\ new[t].stage = "running" => t \in entered
      /\ entered \in {reg, reg \cup {t}}
  BY <1>1 DEF Restaged
<1> QED BY <1>1, <1>2, <1>3 DEF Staged, Early

\* A worker that captured, failed or ran goes on without translating.
LEMMA StagedGoes ==
    ASSUME NEW ws, NEW new, NEW p, NEW q, NEW reg, NEW n, Staged(ws, p, reg, n), Quietly(p, q),
           NEW t \in Tasks, NEW stage, Restaged(ws, new, t, stage), Elsewhere(p, q, t),
           \/ ws[t].stage = "capturing" /\ stage \in Early /\ q = p
           \/ ws[t].stage \in Early \cup {"running", "aborted"} /\ stage = "done"
    PROVE  Staged(new, q, reg, n)
<1>1. /\ ~(t > n) /\ \A other \in Threads : ~Starts(q, other, t)
      /\ \A other \in Threads : Enrols(q, other, t) => ws[t].stage \in {"running", "aborted", "done"}
      /\ p[t] = <<>> \/ ws[t].stage \notin Early
  BY DEF Staged, Quietly, Early
<1>2. ASSUME NEW u \in Tasks, u # t
      PROVE  /\ new[u].stage = ws[u].stage /\ q[u] = p[u]
             /\ \A other \in Threads : /\ Starts(q, other, u) <=> Starts(p, other, u)
                                       /\ Enrols(q, other, u) <=> Enrols(p, other, u)
  BY <1>2 DEF Restaged, Quietly, Elsewhere, Threads
<1>3. new[t].stage = stage BY DEF Restaged
<1> QED BY <1>1, <1>2, <1>3 DEF Staged, Early

----------------------------------------
\* What a window waits for is at work, on the text it shows, and it shows no other result.
Waits(s, ws) ==
    /\ s.current # None =>
         \/ s.main.source = s.current /\ ws[s.current].stage \in {"starting", "running"}
         \/ s.main.source \in {None, s.current} /\ ws[s.current].stage \in Early
    /\ s.main.result \in {None, s.main.source}
    /\ \A i \in Live(s) :
         /\ s.sessions[i].task # None =>
              /\ s.sessions[i].source = s.sessions[i].task
              /\ ws[s.sessions[i].task].stage \in {"starting", "running"}
         /\ s.sessions[i].result \in {None, s.sessions[i].source}

\* A step that lets windows wait no longer, and shows nothing new.
Lets(s, r) ==
    /\ r.nextTask = s.nextTask
    /\ r.current = None \/ (r.current = s.current /\ r.main.source = s.main.source)
    /\ r.main.result = None \/ (r.main.result = s.main.result /\ r.main.source = s.main.source)
    /\ \A i \in Live(r) :
         \/ r.sessions[i].task = None /\ r.sessions[i].result = None
         \/ /\ i \in Live(s) /\ r.sessions[i].task = s.sessions[i].task
            /\ r.sessions[i].source = s.sessions[i].source
            /\ r.sessions[i].result = s.sessions[i].result

LEMMA WaitsLets ==
    ASSUME NEW s, NEW r, NEW ws, Waits(s, ws), Lets(s, r)
    PROVE  Waits(r, ws)
BY DEF Waits, Lets

LEMMA LetsSame ==
    ASSUME NEW s, NEW r, SamePopups(s, r), r.nextTask = s.nextTask,
           \/ SameTasks(s, r)
           \/ r.current = None /\ r.main.result = None
    PROVE  Lets(s, r)
BY DEF Lets, SameTasks, SamePopups

LEMMA LetsGiven ==
    ASSUME NEW s, NEW r, NEW phase, NEW source, Gives(s, r, phase, None, source),
           r.nextTask = s.nextTask,
           \/ SameTasks(s, r)
           \/ r.current = None /\ r.main.result = None
    PROVE  Lets(s, r)
<1>1. r.sessions[r.active].task = None /\ r.sessions[r.active].result = None BY DEF Gives
<1>2. \A i \in Live(r) \ {r.active} : i \in Live(s) /\ r.sessions[i] = s.sessions[i] BY DEF Gives
<1> QED BY <1>1, <1>2 DEF Lets, SameTasks

\* Popups change their phase or their pin.
LetsViews(s, r) ==
    \A i \in Live(r) : /\ i \in Live(s) /\ r.sessions[i].task = s.sessions[i].task
                       /\ r.sessions[i].source = s.sessions[i].source
                       /\ r.sessions[i].result = s.sessions[i].result

LEMMA LetsPopups ==
    ASSUME NEW s, NEW r, GoodState(s), NEW id, r.nextTask = s.nextTask,
           \/ Pins(s, r, id) /\ id \in Live(s)
           \/ Unpins(s, r, id) /\ id \in Live(s)
           \/ Complains(s, r, id)
           \/ Closes(s, r, id)
           \/ Fails(s, r)
           \/ Retires(s, r)
    PROVE  Lets(s, r)
<1>0. s.main \in MainView /\ \A i \in Live(s) : s.sessions[i] \in Session BY Fields
<1>1. CASE (Pins(s, r, id) \/ Unpins(s, r, id)) /\ id \in Live(s)
  <2>1. SameTasks(s, r) /\ \A i \in Live(r) : i \in Live(s) BY <1>1 DEF Pins, Unpins
  <2>2. \A i \in Live(r) : r.sessions[i] = s.sessions[i] \/ \E pinned \in BOOLEAN :
            r.sessions[i] = [s.sessions[i] EXCEPT !.pinned = pinned]
    BY <1>1, <2>1 DEF Pins, Unpins
  <2>3. LetsViews(s, r) BY ZenonT(60), <1>0, <2>1, <2>2 DEF LetsViews, Session
  <2> QED BY <2>1, <2>3 DEF Lets, SameTasks, LetsViews
<1>2. CASE Complains(s, r, id)
  <2>1. LetsViews(s, r) BY <1>0, <1>2 DEF Complains, LetsViews, Session
  <2> QED BY <1>2, <2>1 DEF Lets, SameTasks, LetsViews, Complains
<1>3. CASE Closes(s, r, id)
  <2>1. r.main = s.main \/ (r.main.result = None /\ r.current = None)
    BY <1>0, <1>3 DEF Closes, MainView
  <2>2. (r.current = s.current /\ r.main = s.main) \/ r.current = None BY <1>3 DEF Closes
  <2>3. \A i \in Live(r) : i \in Live(s) /\ r.sessions[i] = s.sessions[i] BY <1>3 DEF Closes
  <2> QED BY <2>1, <2>2, <2>3 DEF Lets
<1>4. CASE Fails(s, r)
  <2>1. LetsViews(s, r) BY ZenonT(60), <1>0, <1>4 DEF Fails, LetsViews, Session
  <2> QED BY <1>4, <2>1 DEF Lets, SameTasks, LetsViews, Fails
<1>5. CASE Retires(s, r)
  <2>1. \A i \in Live(r) : i \in Live(s) BY <1>5 DEF Retires
  <2>2. LetsViews(s, r) BY <1>0, <1>5, <2>1 DEF Retires, LetsViews, Session
  <2>3. /\ r.current = None \/ (r.current = s.current /\ r.main.source = s.main.source)
        /\ r.main.result = None \/ (r.main.result = s.main.result /\ r.main.source = s.main.source)
    BY <1>0, <1>5 DEF Retires, MainView
  <2> QED BY <2>2, <2>3 DEF Lets, LetsViews
<1> QED BY <1>1, <1>2, <1>3, <1>4, <1>5

\* A dispatch aborts no worker somebody waits for.
LEMMA WaitsAborted ==
    ASSUME NEW s, GoodState(s), NEW ws \in [Tasks -> Worker], Waits(s, ws)
    PROVE  Waits(s, Aborted(s, ws))
<1> SUFFICES ASSUME NEW new, new = Aborted(s, ws) PROVE Waits(s, new) OBVIOUS
<1>1. \A t \in Tasks \cap Wanted(s) : new[t].stage = ws[t].stage BY AbortedWorkers
<1>2. s.current # None => s.current \in Tasks \cap Wanted(s) BY Fields DEF Wanted
<1>3. \A i \in Live(s) : s.sessions[i].task # None => s.sessions[i].task \in Tasks \cap Wanted(s)
  BY Fields DEF Wanted, Session
<1> QED BY <1>1, <1>2, <1>3 DEF Waits

\* A worker nobody waits for goes on to any stage.
LEMMA WaitsRestaged ==
    ASSUME NEW s, GoodState(s), NEW ws, NEW new, Waits(s, ws), NEW t \in Tasks, NEW stage,
           Restaged(ws, new, t, stage),
           \/ t \notin Wanted(s)
           \/ ws[t].stage \in Early /\ stage \in Early
           \/ ws[t].stage = "starting" /\ stage = "running"
    PROVE  Waits(s, new)
<1>1. s.current # None => s.current \in Tasks \cap Wanted(s) BY Fields DEF Wanted
<1>2. \A i \in Live(s) : s.sessions[i].task # None => s.sessions[i].task \in Tasks \cap Wanted(s)
  BY Fields DEF Wanted, Session
<1>3. \A u \in Tasks : u # t => new[u].stage = ws[u].stage BY DEF Restaged
<1>4. new[t].stage = stage BY DEF Restaged
<1> QED BY <1>1, <1>2, <1>3, <1>4 DEF Waits, Early

\* Nobody waits for a worker that ended, was aborted or did not begin; a popup does not
\* wait for a capture.
LEMMA Unwanted ==
    ASSUME NEW s, GoodState(s), NEW ws, Waits(s, ws), NEW t \in Tasks
    PROVE  /\ ws[t].stage \in {"none", "aborted", "done"} => t \notin Wanted(s)
           /\ ws[t].stage \notin {"starting", "running"} =>
                  \A i \in Live(s) : s.sessions[i].task # t
           /\ s.current # t /\ (\A i \in Live(s) : s.sessions[i].task # t) => t \notin Wanted(s)
<1>1. t # None BY DEF Tasks, None
<1> QED BY <1>1 DEF Wanted, Waits, Early

\* A task begins in the main window.
LEMMA WaitsBegins ==
    ASSUME NEW s, GoodState(s), NEW r, NEW ws, NEW new, Waits(s, ws), NEW source,
           Begins(s, r, source), s.nextTask + 1 \in Tasks, ws[s.nextTask + 1].stage = "none",
           \/ source = None /\ Restaged(ws, new, s.nextTask + 1, "capturing")
           \/ source = s.nextTask + 1 /\ Restaged(ws, new, s.nextTask + 1, "starting")
    PROVE  Waits(r, new)
<1>1. /\ r.current = s.nextTask + 1 /\ r.main.source = source /\ r.main.result = None
      /\ Live(r) = Live(s) /\ r.sessions = s.sessions
  BY DEF Begins, SamePopups
<1>2. ASSUME NEW i \in Live(s), s.sessions[i].task # None
      PROVE  new[s.sessions[i].task].stage = ws[s.sessions[i].task].stage
  <2>1. s.sessions[i].task \in Tasks /\ s.sessions[i].task # s.nextTask + 1
    BY <1>2, Fields, Unwanted DEF Session
  <2> QED BY <2>1 DEF Restaged
<1>3. new[s.nextTask + 1].stage \in IF source = None THEN Early ELSE {"starting"}
  BY DEF Restaged, Early, Tasks, None
<1> QED BY <1>1, <1>2, <1>3 DEF Waits

\* A task begins in a popup.
LEMMA WaitsAsks ==
    ASSUME NEW s, GoodState(s), NEW r, NEW ws, NEW new, Waits(s, ws), NEW id \in Live(s),
           Asks(s, r, id), s.nextTask + 1 \in Tasks, ws[s.nextTask + 1].stage = "none",
           Restaged(ws, new, s.nextTask + 1, "starting")
    PROVE  Waits(r, new)
<1> DEFINE t == s.nextTask + 1
<1>0. t \in Tasks /\ ws[t].stage = "none" /\ new[t].stage = "starting" BY DEF Restaged
<1>1. /\ r.sessions[id].task = t /\ r.sessions[id].source = t /\ r.sessions[id].result = None
  BY Fields DEF Asks, Session
<1>2. /\ r.current = s.current /\ r.main = s.main /\ Live(r) = Live(s)
      /\ \A i \in Live(s) \ {id} : r.sessions[i] = s.sessions[i]
  BY DEF Asks
<1> HIDE DEF t
<1>3. ASSUME NEW i \in Live(s), s.sessions[i].task # None
      PROVE  new[s.sessions[i].task].stage = ws[s.sessions[i].task].stage
  <2>1. s.sessions[i].task \in Tasks /\ s.sessions[i].task # t
    BY <1>0, <1>3, Fields, Unwanted DEF Session
  <2> QED BY <2>1 DEF Restaged, t
<1>4. s.current # None => new[s.current].stage = ws[s.current].stage
  <2>1. s.current # None => s.current \in Tasks /\ s.current # t
    BY <1>0, Fields, Unwanted DEF Wanted
  <2> QED BY <2>1 DEF Restaged, t
<1> QED BY <1>0, <1>1, <1>2, <1>3, <1>4 DEF Waits

\* The unpinned popup is given to the task the main window waits for.
LEMMA WaitsGiven ==
    ASSUME NEW s, GoodState(s), NEW r, NEW ws, NEW new, Waits(s, ws), NEW t \in Tasks, NEW phase,
           Gives(s, r, phase, t, t), r.current = t, r.main.source = t, r.main.result \in {None, t},
           Restaged(ws, new, t, "starting"), ws[t].stage \notin {"starting", "running"}
    PROVE  Waits(r, new)
<1>1. /\ r.sessions[r.active].task = t /\ r.sessions[r.active].source = t
      /\ r.sessions[r.active].result = None
  BY DEF Gives
<1>2. \A i \in Live(r) \ {r.active} : i \in Live(s) /\ r.sessions[i] = s.sessions[i] BY DEF Gives
<1>3. ASSUME NEW i \in Live(s), s.sessions[i].task # None
      PROVE  new[s.sessions[i].task].stage = ws[s.sessions[i].task].stage
  <2>1. s.sessions[i].task \in Tasks /\ s.sessions[i].task # t BY <1>3, Fields, Unwanted DEF Session
  <2> QED BY <2>1 DEF Restaged
<1>4. new[t].stage = "starting" BY DEF Restaged
<1> QED BY <1>1, <1>2, <1>3, <1>4 DEF Waits

\* A worker reports.
LEMMA WaitsReports ==
    ASSUME NEW s, GoodState(s), NEW r, NEW ws, Waits(s, ws), NEW t \in Tasks,
           NEW event \in {"started", "progress", "finished", "failed"}, Reports(s, r, t, event),
           ws[t].stage \notin Early
    PROVE  /\ Waits(r, ws)
           /\ Ends(event) => t \notin Wanted(r)
<1>0. t # None BY DEF Tasks, None
<1>1. /\ r.current = s.current => r.main.source = s.main.source /\ r.main.result \in {s.main.result, t}
      /\ s.current # t => r.main = s.main
      /\ s.current = t => r.main.source = s.main.source /\ r.main.result \in {s.main.result, t}
      /\ r.current \in {s.current, None}
  BY <1>0 DEF Reports, ViewReported, Ends
<1>2. s.current = t => s.main.source = t BY <1>0 DEF Waits
<1>3. ASSUME NEW i \in Live(s)
      PROVE  /\ r.sessions[i].task # None =>
                  r.sessions[i].source = r.sessions[i].task
                  /\ ws[r.sessions[i].task].stage \in {"starting", "running"}
             /\ r.sessions[i].result \in {None, r.sessions[i].source}
             /\ Ends(event) => r.sessions[i].task # t
  <2>1. CASE r.sessions[i] = s.sessions[i] /\ (s.sessions[i].task = t => event = "started")
    BY <2>1 DEF Waits, Ends
  <2>2. CASE /\ s.sessions[i].task = t /\ ViewReported(s.sessions[i], r.sessions[i], t, event)
             /\ r.sessions[i].task = IF Ends(event) THEN None ELSE t
    BY <1>0, <2>2 DEF Waits, ViewReported
  <2> QED BY <2>1, <2>2 DEF Reports
<1>4. Live(r) = Live(s) /\ (Ends(event) => r.current # t) BY <1>0 DEF Reports
<1> QED BY <1>0, <1>1, <1>2, <1>3, <1>4 DEF Waits, Wanted

----------------------------------------
(* Whatever a window waits for is at work: every step.                         *)

Work == /\ Scripts(pending)
        /\ Staged(workers, pending, registered, state.nextTask)
        /\ Waits(state, workers)

WorkInv == WorkersOk /\ Work

LEMMA WorkInit == Init => WorkInv
<1> SUFFICES ASSUME Init PROVE WorkInv OBVIOUS
<1>1. /\ \A t \in Tasks : workers[t] = [stage |-> "none", session |-> None]
      /\ workers = [t \in Tasks |-> [stage |-> "none", session |-> None]]
      /\ \A thread \in Threads : pending[thread] = <<>>
      /\ state.nextTask = 0 /\ state.current = None /\ state.main.result = None
      /\ Live(state) = {}
  BY DEF Init, EmptyView, Live
<1>2. WorkersOk BY <1>1 DEF WorkersOk, Worker, WorkerStages
<1>3. /\ \A thread \in Threads : Todo(pending[thread]) = {}
      /\ \A t \in Tasks : t > 0 /\ t \in Threads /\ workers[t].stage = "none"
  BY <1>1, TodoFacts DEF Tasks, Threads
<1>4. Scripts(pending) BY <1>1 DEF Scripts, Script
<1>5. Staged(workers, pending, registered, state.nextTask) BY <1>1, <1>3 DEF Staged, Starts, Enrols
<1>6. Waits(state, workers) BY <1>1 DEF Waits
<1> QED BY <1>2, <1>4, <1>5, <1>6 DEF WorkInv, Work

\* The new state is installed and the workers nobody waits for are aborted.
LEMMA Dispatched ==
    ASSUME GoodState(state'), NEW ws \in [Tasks -> Worker], Dispatch(state', ws),
           Scripts(pending'), Staged(ws, pending', registered, state'.nextTask), Waits(state', ws)
    PROVE  Work'
<1>1. workers' = Aborted(state', ws) /\ registered' = registered \cap Wanted(state') BY DEF Dispatch
<1>2. Staged(workers', pending', registered', state'.nextTask) BY <1>1, StagedAborted
<1>3. Waits(state', workers') BY <1>1, WaitsAborted
<1> QED BY <1>2, <1>3 DEF Work

LEMMA QuietlySame ==
    ASSUME Scripts(pending), pending' = pending
    PROVE  Quietly(pending, pending') /\ \A thread : Elsewhere(pending, pending', thread)
BY DEF Quietly, Elsewhere

\* No worker is concerned.
LEMMA DispatchedQuietly ==
    ASSUME WorkInv, GoodState(state'), Dispatch(state', workers), Lets(state, state'),
           Quietly(pending, pending'), Elsewhere(pending, pending', UI)
    PROVE  Work'
<1>1. \A t \in Tasks : pending'[t] = pending[t] BY DEF Elsewhere, Tasks, Threads, UI
<1>2. Scripts(pending') /\ state'.nextTask = state.nextTask /\ workers \in [Tasks -> Worker]
  BY DEF Quietly, Lets, WorkInv, WorkersOk
<1>3. Staged(workers, pending', registered, state'.nextTask)
  BY <1>1, <1>2, StagedQuietly DEF WorkInv, Work
<1>4. Waits(state', workers) BY WaitsLets DEF WorkInv, Work
<1> QED BY <1>2, <1>3, <1>4, Dispatched

\* The thread of the UI is left to show or hide a popup, or nothing.
LEMMA DispatchedShowing ==
    ASSUME PopupInv, WorkInv, GoodState(state'), Dispatch(state', workers), Lets(state, state'),
           Free(UI), NEW commands, Execute(UI, commands),
           \/ commands = <<>>
           \/ \E i \in Sessions : commands = <<Show(i)>>
           \/ \E i \in Sessions : commands = <<Hide(i)>>
    PROVE  Work'
<1>1. Quietly(pending, pending') /\ Elsewhere(pending, pending', UI)
  BY ExecuteNone DEF PopupInv, WorkInv, Work, Threads
<1> QED BY <1>1, DispatchedQuietly

\* The worker of the task goes on to a stage in which nobody waits for it.
LEMMA DispatchedGoes ==
    ASSUME PopupInv, WorkInv, GoodState(state'), NEW t \in Tasks, NEW stage \in WorkerStages,
           Dispatch(state', [workers EXCEPT ![t].stage = stage]),
           state'.nextTask = state.nextTask, Quietly(pending, pending'),
           Elsewhere(pending, pending', t), Waits(state', workers),
           \/ workers[t].stage = "capturing" /\ stage \in Early /\ pending' = pending
           \/ /\ workers[t].stage \in Early \cup {"running", "aborted"} /\ stage = "done"
              /\ t \notin Wanted(state')
    PROVE  Work'
<1> DEFINE ws == [workers EXCEPT ![t].stage = stage]
<1>1. ws \in [Tasks -> Worker] /\ Restaged(workers, ws, t, stage) BY StageRestaged DEF WorkInv
<1> HIDE DEF ws
<1>2. Staged(ws, pending', registered, state'.nextTask) BY <1>1, StagedGoes DEF WorkInv, Work
<1>3. CASE t \notin Wanted(state')
  <2>1. Waits(state', ws) BY <1>1, <1>3, WaitsRestaged
  <2> QED BY <1>1, <1>2, <2>1, Dispatched DEF Quietly, ws
<1>4. CASE workers[t].stage \in Early /\ stage \in Early
  <2>1. Waits(state', ws) BY <1>1, <1>4, WaitsRestaged
  <2> QED BY <1>1, <1>2, <2>1, Dispatched DEF Quietly, ws
<1> QED BY <1>3, <1>4 DEF Early

\* A task is to start, on a thread that is free or its own.
LEMMA DispatchedBegins ==
    ASSUME PopupInv, WorkInv, GoodState(state'), MayTake, NEW session \in {None} \cup Sessions,
           NEW thread \in {UI, state.nextTask + 1}, NEW commands, Execute(thread, commands),
           thread = UI => Free(UI),
           Dispatch(state', Begun(state.nextTask + 1, "starting", session)),
           state'.nextTask = state.nextTask + 1,
           \/ commands = <<Translate(state.nextTask + 1)>>
           \/ \E i \in Sessions : commands = <<Show(i), Translate(state.nextTask + 1)>>,
           Restaged(workers, Begun(state.nextTask + 1, "starting", session), state.nextTask + 1, "starting") =>
               Waits(state', Begun(state.nextTask + 1, "starting", session))
    PROVE  Work'
<1> DEFINE t  == state.nextTask + 1
           ws == Begun(t, "starting", session)
<1>1. t \in Tasks /\ state.nextTask \in Nat BY NextTaskFacts, Fields DEF PopupInv
<1>2. ws \in [Tasks -> Worker] /\ Restaged(workers, ws, t, "starting")
  BY <1>1, BegunRestaged DEF WorkInv, WorkerStages
<1>3. Free(thread) /\ thread \in Threads
  <2>1. workers[t].stage = "none" => pending[t] = <<>> BY <1>1 DEF WorkInv, Work, Staged
  <2>2. workers[t].stage = "none"
    <3>1. t > state.nextTask BY <1>1
    <3> QED BY <1>1, <3>1 DEF WorkInv, Work, Staged
  <2> QED BY <1>1, <2>1, <2>2 DEF Free, Threads
<1>4. Adds(pending, pending', thread, t) /\ Elsewhere(pending, pending', thread)
  BY <1>1, <1>3, ExecuteTranslate DEF PopupInv, WorkInv, Work
<1> HIDE DEF ws
<1>5. Staged(ws, pending', registered, state'.nextTask)
  BY <1>1, <1>2, <1>3, <1>4, StagedBegins DEF WorkInv, Work
<1> QED BY <1>2, <1>4, <1>5, Dispatched DEF Adds, ws

LEMMA WorkNext ==
    ASSUME PopupInv, WorkInv, GoodState(state'), [Next]_vars
    PROVE  Work'
<1> USE DEF WorkInv
<1>0. /\ GoodState(state) /\ pending \in [Threads -> Seq(Command)] /\ workers \in [Tasks -> Worker]
      /\ \A i \in Live(state) : i \in Sessions
      /\ Scripts(pending) /\ Waits(state, workers) /\ UI \in Threads
      /\ state'.active \in Nat
  BY Fields DEF PopupInv, WorkersOk, Work, Sessions, None, Threads
<1>a. ASSUME Dispatch(state', workers), Lets(state, state'), pending' = pending PROVE Work'
  BY <1>0, <1>a, QuietlySame, DispatchedQuietly
<1>b. ASSUME UNCHANGED <<state, workers, registered>>,
             Quietly(pending, pending'), \A t \in Tasks : pending[t] = <<>> => pending'[t] = <<>>
      PROVE  Work'
  <2>1. Staged(workers, pending', registered, state.nextTask) BY <1>b, StagedQuietly DEF Work
  <2> QED BY <1>0, <1>b, <2>1 DEF Quietly, Work
<1>1. ASSUME UNCHANGED <<state, workers, registered, pending>> PROVE Work'
  BY <1>0, <1>1, <1>b, QuietlySame
<1>2. ASSUME NEW t \in Tasks, CaptureSelection(t) PROVE Work'
  <2>1. PICK outcome \in {"captured", "empty", "failed"} :
            /\ workers[t].stage = "capturing" /\ workers' = [workers EXCEPT ![t].stage = outcome]
            /\ UNCHANGED <<state, registered, pending>>
    BY <1>2 DEF CaptureSelection
  <2>2. Restaged(workers, workers', t, outcome) BY ZenonT(60), <2>1, StageRestaged DEF WorkerStages
  <2>3. Staged(workers', pending, registered, state.nextTask)
    BY <1>0, <2>1, <2>2, StagedGoes, QuietlySame DEF Work, Early
  <2>4. Waits(state, workers') BY <1>0, <2>1, <2>2, WaitsRestaged DEF Early
  <2> QED BY <1>0, <2>1, <2>3, <2>4 DEF Work
<1>3. ASSUME NEW t \in Tasks, StopTranslation(t) PROVE Work'
  <2>1. /\ workers[t].stage = "aborted" /\ workers' = [workers EXCEPT ![t].stage = "done"]
        /\ UNCHANGED <<state, registered, pending>>
    BY <1>3 DEF StopTranslation
  <2>2. Restaged(workers, workers', t, "done") /\ t \notin Wanted(state)
    BY <1>0, <2>1, StageRestaged, Unwanted DEF WorkerStages
  <2>3. Staged(workers', pending, registered, state.nextTask)
    BY <1>0, <2>1, <2>2, StagedGoes, QuietlySame DEF Work
  <2>4. Waits(state, workers') BY <1>0, <2>1, <2>2, WaitsRestaged
  <2> QED BY <1>0, <2>1, <2>3, <2>4 DEF Work
<1>4. ASSUME NEW thread \in Threads, RegisterTranslation(thread) PROVE Work'
  <2>1. PICK t \in Tasks :
             /\ ~Free(thread) /\ Head(pending[thread]) = Register(t) /\ state' = state
             /\ \/ t \in Wanted(state) /\ registered' = registered \cup {t} /\ workers' = workers
                \/ /\ t \notin Wanted(state) /\ registered' = registered
                   /\ workers' = [workers EXCEPT ![t].stage =
                                      IF @ = "running" THEN "aborted" ELSE @]
             /\ Execute(thread, Tail(pending[thread]))
    BY <1>4, RegisterMoves
  <2>2. /\ Enters(pending, pending', thread, t) /\ Elsewhere(pending, pending', thread)
        /\ pending[thread] # <<>>
    BY <1>0, <2>1, ExecuteTail DEF Free
  <2>3. CASE t \in Wanted(state) /\ registered' = registered \cup {t} /\ workers' = workers
    <3>1. Staged(workers', pending', registered', state.nextTask)
      BY <2>2, <2>3, StagedEnters DEF Work
    <3> QED BY <1>0, <2>1, <2>2, <2>3, <3>1 DEF Work, Enters
  <2>4. CASE /\ t \notin Wanted(state) /\ registered' = registered
             /\ workers' = [workers EXCEPT ![t].stage = IF @ = "running" THEN "aborted" ELSE @]
    <3> DEFINE stage == IF workers[t].stage = "running" THEN "aborted" ELSE workers[t].stage
    <3>1. workers' = [workers EXCEPT ![t].stage = stage] /\ stage \in WorkerStages
      BY <1>0, <2>4 DEF Worker, WorkerStages
    <3> HIDE DEF stage
    <3>2. Restaged(workers, workers', t, stage) BY <3>1, StageRestaged
    <3>3. Staged(workers', pending', registered', state.nextTask)
      BY <2>2, <2>4, <3>2, StagedEnters DEF Work, stage
    <3>4. Waits(state, workers') BY <1>0, <2>4, <3>2, WaitsRestaged
    <3> QED BY <1>0, <2>1, <2>2, <3>3, <3>4 DEF Work, Enters
  <2> QED BY <2>1, <2>3, <2>4
<1>5. ASSUME NEW thread \in Threads, PostToUi(thread) PROVE Work'
  <2>1. /\ ~Free(thread) /\ Head(pending[thread]).op \in {"show", "hide"}
        /\ Execute(thread, Tail(pending[thread])) /\ UNCHANGED <<state, workers, registered>>
    BY <1>5 DEF PostToUi
  <2>2. Quietly(pending, pending') /\ Elsewhere(pending, pending', thread) /\ pending[thread] # <<>>
    BY <1>0, <2>1, ExecuteTail DEF Free
  <2>3. \A t \in Tasks : pending[t] = <<>> => pending'[t] = <<>> BY <2>2 DEF Elsewhere, Threads
  <2> QED BY <1>b, <2>1, <2>2, <2>3
<1>6. CASE (\E job : OcrCaptured(job)) \/ ShowWindow \/ HideWindow \/ UNCHANGED vars
  BY <1>1, <1>6 DEF OcrCaptured, ShowWindow, HideWindow, vars
<1>7. CASE PressHotkey
  <2>1. CASE UNCHANGED <<state, workers, registered>> BY <1>1, <1>7, <2>1, HotkeyMoves
  <2>2. CASE /\ MayTake /\ Begins(state, state', None)
             /\ Dispatch(state', Begun(state'.current, "capturing", None))
    <3> DEFINE t  == state.nextTask + 1
               ws == Begun(t, "capturing", None)
    <3>1. /\ t \in Tasks /\ state.nextTask \in Nat /\ state'.current = t /\ state'.nextTask = t
      BY <1>0, <2>2, NextTaskFacts, Fields DEF Begins
    <3>2. ws \in [Tasks -> Worker] /\ Restaged(workers, ws, t, "capturing")
      BY <3>1, BegunRestaged DEF WorkerStages
    <3>3. t > state.nextTask BY <3>1
    <3>4. workers[t].stage = "none" BY <3>1, <3>3 DEF Work, Staged
    <3>5. Dispatch(state', ws) /\ pending' = pending BY <1>7, <2>2, <3>1, HotkeyMoves
    <3> HIDE DEF ws
    <3>6. Staged(ws, pending', registered, state'.nextTask)
      BY <1>0, <3>1, <3>2, <3>5, StagedBegins DEF Work
    <3>7. Waits(state', ws) BY <1>0, <2>2, <3>1, <3>2, <3>4, WaitsBegins
    <3> QED BY <1>0, <3>2, <3>5, <3>6, <3>7, Dispatched
  <2> QED BY <1>7, <2>1, <2>2, HotkeyMoves
<1>8. CASE InputTranslation
  <2> DEFINE t  == state.nextTask + 1
             ws == Begun(t, "starting", None)
  <2>1. /\ MayTake /\ Free(UI) /\ Begins(state, state', t)
        /\ Dispatch(state', Begun(state'.current, "starting", None))
        /\ Execute(UI, <<Translate(state'.current)>>)
    BY <1>8, InputMoves
  <2>2. state'.current = t /\ state'.nextTask = t BY <2>1 DEF Begins
  <2>3. t \in Tasks /\ t > state.nextTask BY <1>0, <2>1, NextTaskFacts, Fields
  <2>4. workers[t].stage = "none" BY <2>3 DEF Work, Staged
  <2>5. Restaged(workers, ws, t, "starting") => Waits(state', ws)
    <3> HIDE DEF ws
    <3> QED BY <1>0, <2>1, <2>3, <2>4, WaitsBegins
  <2> QED BY <2>1, <2>2, <2>5, DispatchedBegins
<1>9. CASE EmptyInput \/ CloseMainWindow
  <2>1. Quits(state, state') /\ Dispatch(state', workers) /\ pending' = pending BY <1>9, MainQuits
  <2>2. Lets(state, state') BY <2>1, LetsSame DEF Quits
  <2> QED BY <1>a, <2>1, <2>2
<1>10. ASSUME NEW id, TranslatePopup(id) PROVE Work'
  <2> DEFINE t  == state.nextTask + 1
             ws == Begun(t, "starting", id)
  <2>0. MayTake /\ Free(UI) BY <1>10, TranslatePopupMoves
  <2>1. CASE /\ id \in Live(state) /\ Asks(state, state', id)
             /\ Dispatch(state', Begun(state'.nextTask, "starting", id))
             /\ Execute(UI, <<Translate(state'.nextTask)>>)
    <3>1. state'.nextTask = t BY <2>1 DEF Asks
    <3>2. t \in Tasks /\ t > state.nextTask BY <1>0, <2>0, NextTaskFacts, Fields
    <3>3. workers[t].stage = "none" BY <3>2 DEF Work, Staged
    <3>4. Restaged(workers, ws, t, "starting") => Waits(state', ws)
      <4> HIDE DEF ws
      <4> QED BY <1>0, <2>1, <3>2, <3>3, WaitsAsks
    <3> QED BY <1>0, <2>0, <2>1, <3>1, <3>4, DispatchedBegins
  <2>2. CASE /\ Requests(state, state', id) /\ Dispatch(state', workers) /\ pending' = pending
    <3>1. Lets(state, state') BY <2>2, LetsSame DEF Requests, SameTasks
    <3> QED BY <1>a, <2>2, <3>1
  <2> QED BY <1>10, <2>1, <2>2, TranslatePopupMoves
<1>11. ASSUME NEW id, TranslateEmptyPopup(id) PROVE Work'
  <2>1. Complains(state, state', id) /\ Dispatch(state', workers) /\ pending' = pending
    BY <1>11, TranslateEmptyMoves
  <2>2. Lets(state, state') BY ZenonT(60), <1>0, <2>1, LetsPopups DEF Complains, SameTasks
  <2> QED BY <1>a, <2>1, <2>2
<1>12. ASSUME NEW id, PinPopup(id) PROVE Work'
  <2>1. /\ Pins(state, state', id) /\ Dispatch(state', workers) /\ pending' = pending
        /\ id \in Live(state)
    BY <1>12, PinMoves DEF Passive
  <2>2. Lets(state, state') BY <1>0, <2>1, LetsPopups DEF Pins, SameTasks
  <2> QED BY <1>a, <2>1, <2>2
<1>13. ASSUME NEW id, UnpinPopup(id) PROVE Work'
  <2> DEFINE replaced == {state.active} \cap Passive(state)
             commands == IF replaced = {} THEN <<>> ELSE <<Hide(state.active)>>
  <2>1. /\ Unpins(state, state', id) /\ Dispatch(state', workers) /\ id \in Live(state)
        /\ Execute(UI, commands) /\ Free(UI)
    BY <1>13, UnpinMoves
  <2>2. Lets(state, state') BY <1>0, <2>1, LetsPopups DEF Unpins, SameTasks
  <2>3. commands = <<>> \/ \E i \in Sessions : commands = <<Hide(i)>> BY <1>0 DEF Passive
  <2> HIDE DEF commands
  <2> QED BY <1>0, <2>1, <2>2, <2>3, DispatchedShowing
<1>14. ASSUME NEW id, CloseWindow(id) PROVE Work'
  <2> DEFINE commands == HideIfLive(state, id)
  <2>1. /\ Closes(state, state', id) /\ Dispatch(state', workers) /\ Execute(UI, commands) /\ Free(UI)
    BY <1>14, CloseMoves
  <2>2. Lets(state, state') BY <1>0, <2>1, LetsPopups DEF Closes
  <2>3. commands = <<>> \/ \E i \in Sessions : commands = <<Hide(i)>> BY <1>0 DEF HideIfLive
  <2> HIDE DEF commands
  <2> QED BY <1>0, <2>1, <2>2, <2>3, DispatchedShowing
<1>15. ASSUME NEW thread \in Threads, StartTranslation(thread) PROVE Work'
  <2>1. PICK t \in Tasks :
             /\ ~Free(thread) /\ Head(pending[thread]) = Translate(t)
             /\ Reports(state, state', t, "started")
             /\ Dispatch(state', [workers EXCEPT ![t].stage = "running"])
             /\ Execute(thread, <<Register(t)>> \o Tail(pending[thread]))
    BY <1>15, StartMoves
  <2> DEFINE ws == [workers EXCEPT ![t].stage = "running"]
  <2>2. ws \in [Tasks -> Worker] /\ Restaged(workers, ws, t, "running")
    BY StageRestaged DEF WorkerStages
  <2>3. /\ Spawns(pending, pending', thread, t) /\ Elsewhere(pending, pending', thread)
        /\ pending[thread] # <<>>
    BY <1>0, <2>1, ExecuteRegister DEF Free
  <2> HIDE DEF ws
  <2>4. workers[t].stage = "starting" BY <2>3 DEF Work, Staged, Spawns
  <2>5. Staged(ws, pending', registered, state'.nextTask)
    <3>1. state'.nextTask = state.nextTask BY <2>1 DEF Reports
    <3> QED BY <2>2, <2>3, <3>1, StagedSpawns DEF Work
  <2>6. Waits(state', workers) BY <1>0, <2>1, <2>4, WaitsReports DEF Early
  <2>7. Waits(state', ws) BY <1>0, <2>2, <2>4, <2>6, WaitsRestaged
  <2> QED BY <1>0, <2>1, <2>2, <2>3, <2>5, <2>7, Dispatched DEF Spawns, ws
<1>16. ASSUME NEW t \in Tasks, ReportProgress(t) \/ EndTranslation(t) PROVE Work'
  <2>0. /\ pending' = pending /\ workers[t].stage \in {"running", "aborted"}
        /\ Quietly(pending, pending') /\ Elsewhere(pending, pending', t)
        /\ Elsewhere(pending, pending', UI)
    BY <1>0, <1>16, ReportMoves, QuietlySame
  <2>1. CASE Reports(state, state', t, "progress") /\ Dispatch(state', workers)
    <3>1. Waits(state', workers) BY <1>0, <2>0, <2>1, WaitsReports DEF Early
    <3>2. Staged(workers, pending', registered, state'.nextTask) BY <2>0, <2>1 DEF Work, Reports
    <3> QED BY <1>0, <2>0, <2>1, <3>1, <3>2, Dispatched
  <2>2. ASSUME NEW event \in {"finished", "failed"}, Reports(state, state', t, event),
               Dispatch(state', [workers EXCEPT ![t].stage = "done"])
        PROVE  Work'
    <3>1. Waits(state', workers) /\ t \notin Wanted(state')
      BY <1>0, <2>0, <2>2, WaitsReports DEF Early, Ends
    <3>2. state'.nextTask = state.nextTask BY <2>2 DEF Reports
    <3> QED BY <1>0, <2>0, <2>2, <3>1, <3>2, DispatchedGoes DEF WorkerStages
  <2> QED BY <1>16, <2>1, <2>2, ReportMoves
<1>17. ASSUME NEW t \in Tasks, SelectionCaptured(t) \/ SelectionNotCaptured(t),
              state.current # t, UNCHANGED <<state, pending>>, workers[t].stage \in Early,
              Dispatch(state', [workers EXCEPT ![t].stage = "done"])
       PROVE  Work'
  <2>1. t \notin Wanted(state') BY <1>0, <1>17, Unwanted DEF Early
  <2>2. Quietly(pending, pending') /\ Elsewhere(pending, pending', t) BY <1>0, <1>17, QuietlySame
  <2> QED BY <1>0, <1>17, <2>1, <2>2, DispatchedGoes DEF WorkerStages
<1>18. ASSUME NEW t \in Tasks, SelectionCaptured(t) PROVE Work'
  <2> DEFINE ws == [workers EXCEPT ![t].stage = "starting"]
  <2>0. workers[t].stage = "captured" BY <1>18, CapturedMoves
  <2>1. CASE /\ state.current = t /\ state'.current = t
             /\ state'.main = [state.main EXCEPT !.source = t]
             /\ state'.nextTask = state.nextTask
             /\ Gives(state, state', "Translating", t, t)
             /\ Dispatch(state', [workers EXCEPT ![t].stage = "starting"])
             /\ Execute(t, <<Show(state'.active), Translate(t)>>)
    <3>1. ws \in [Tasks -> Worker] /\ Restaged(workers, ws, t, "starting")
      BY StageRestaged DEF WorkerStages
    <3>2. t \in Threads /\ Free(t) BY <2>0 DEF Work, Staged, Early, Free, Threads
    <3>3. Adds(pending, pending', t, t) /\ Elsewhere(pending, pending', t)
      <4>1. state'.active \in Sessions BY <2>1 DEF Gives
      <4> QED BY <1>0, <2>1, <3>2, <4>1, ExecuteTranslate
    <3>4. state'.main.source = t /\ state'.main.result \in {None, t}
      <4>1. state.main.source \in {None, t} /\ state.main.result \in {None, state.main.source}
        BY <1>0, <2>0, <2>1 DEF Waits, Tasks, None
      <4> QED BY <1>0, <2>1, <4>1, Fields DEF MainView
    <3> HIDE DEF ws
    <3>5. Staged(ws, pending', registered, state'.nextTask)
      BY <2>0, <2>1, <3>1, <3>3, StagedCaptured DEF Work, Early
    <3>6. Waits(state', ws) BY <1>0, <2>0, <2>1, <3>1, <3>4, WaitsGiven
    <3> QED BY <1>0, <2>1, <3>1, <3>3, <3>5, <3>6, Dispatched DEF Adds, ws
  <2>2. CASE /\ state.current # t /\ UNCHANGED <<state, pending>>
             /\ Dispatch(state', [workers EXCEPT ![t].stage = "done"])
    BY <1>17, <1>18, <2>0, <2>2 DEF Early
  <2> QED BY <1>18, <2>1, <2>2, CapturedMoves
<1>19. ASSUME NEW t \in Tasks, SelectionNotCaptured(t) PROVE Work'
  <2>0. workers[t].stage \in Early /\ Dispatch(state', [workers EXCEPT ![t].stage = "done"])
    BY <1>19, NotCapturedMoves DEF Early
  <2>1. CASE /\ state.current = t /\ state'.current = None /\ state'.main.result = None
             /\ state'.nextTask = state.nextTask
             /\ \/ Gives(state, state', "NoSelection", None, None)
                \/ Gives(state, state', "Error", None, None)
             /\ Execute(t, <<Show(state'.active)>>)
    <3>1. t \in Threads /\ Free(t) /\ t # None
      BY <2>0 DEF Work, Staged, Early, Free, Threads, Tasks, None
    <3>2. state'.active \in Sessions BY <2>1 DEF Gives
    <3>3. Quietly(pending, pending') /\ Elsewhere(pending, pending', t)
      BY <1>0, <2>1, <3>1, <3>2, ExecuteNone
    <3>4. Lets(state, state') BY <2>1, LetsGiven
    <3>5. Waits(state', workers) BY <1>0, <3>4, WaitsLets
    <3>6. t \notin Wanted(state') BY <1>0, <2>0, <2>1, <3>1, <3>5, Unwanted DEF Early
    <3> QED BY <1>0, <2>0, <2>1, <3>3, <3>5, <3>6, DispatchedGoes DEF WorkerStages
  <2>2. CASE state.current # t /\ UNCHANGED <<state, pending>> BY <1>17, <1>19, <2>0, <2>2
  <2> QED BY <1>19, <2>1, <2>2, NotCapturedMoves
<1>20. ASSUME Gives(state, state', "Error", None, None), SameTasks(state, state'),
              Dispatch(state', workers), Free(UI), Execute(UI, <<Show(state'.active)>>)
       PROVE  Work'
  <2>1. state'.active \in Sessions BY <1>20 DEF Gives
  <2>2. Lets(state, state') BY <1>20, LetsGiven DEF SameTasks
  <2> QED BY <1>0, <1>20, <2>1, <2>2, DispatchedShowing
<1>21. CASE RequestOcr
  <2>0. Free(UI) BY <1>21, RequestOcrMoves
  <2>1. CASE RefuseOcr(state) BY <1>0, <1>20, <2>0, <2>1, RefuseMoves DEF Refuses
  <2>2. CASE Shoots(state, state', "Idle") /\ Dispatch(state', workers) /\ pending' = pending
    <3>1. Lets(state, state') BY <2>2, LetsSame DEF Shoots, SameTasks
    <3> QED BY <1>a, <2>2, <3>1
  <2>3. CASE BeginOcr
    <3> DEFINE id  == state.ocr.popup
               old == state.ocr.phase \in {"Recognizing", "Translating"} /\ id \in Live(state)
               commands == IF old /\ id \in Passive(state) THEN <<Hide(id)>> ELSE <<>>
    <3>1. Retires(state, state') /\ Dispatch(state', workers) /\ Execute(UI, commands)
      BY SMTT(30), <2>3, BeginOcrMoves
    <3>2. Lets(state, state') BY <1>0, <3>1, LetsPopups DEF Retires
    <3>3. commands = <<>> \/ \E i \in Sessions : commands = <<Hide(i)>> BY <1>0
    <3> HIDE DEF commands
    <3> QED BY <1>0, <2>0, <3>1, <3>2, <3>3, DispatchedShowing
  <2> QED BY <1>21, <2>1, <2>2, <2>3, RequestOcrMoves
<1>22. CASE RequestOcrWhileAnnotating BY <1>20, <1>22, AnnotatingMoves
<1>23. CASE DownloadOcr
  <2>1. Shoots(state, state', "Downloading") /\ Dispatch(state', workers) /\ pending' = pending
    BY <1>23, DownloadMoves
  <2>2. Lets(state, state') BY <2>1, LetsSame DEF Shoots, SameTasks
  <2> QED BY <1>a, <2>1, <2>2
<1>24. ASSUME NEW job, SubmitRegion(job) PROVE Work'
  <2>1. /\ Free(UI) /\ SameTasks(state, state') /\ Gives(state, state', "Capturing", None, None)
        /\ Dispatch(state', workers) /\ Execute(UI, <<Show(state'.active)>>)
    BY <1>24, SubmitMoves
  <2>2. state'.active \in Sessions BY <2>1 DEF Gives
  <2>3. Lets(state, state') BY <2>1, LetsGiven DEF SameTasks
  <2> QED BY <1>0, <2>1, <2>2, <2>3, DispatchedShowing
<1>25. ASSUME NEW job, CancelRegion(job) PROVE Work'
  <2>1. Shoots(state, state', "Idle") /\ Dispatch(state', workers) /\ pending' = pending
    BY <1>25, CancelMoves
  <2>2. Lets(state, state') BY <2>1, LetsSame DEF Shoots, SameTasks
  <2> QED BY <1>a, <2>1, <2>2
<1>26. ASSUME NEW job, OcrChecked(job) \/ OcrDownloaded(job) PROVE Work'
  <2>1. /\ \E phase \in {"Capturing", "DownloadRequired", "Idle"} : Turns(state, state', phase)
        /\ Dispatch(state', workers) /\ pending' = pending
    BY <1>26, AnsweredMoves
  <2>2. Lets(state, state') BY <2>1, LetsSame DEF Turns, SameTasks
  <2> QED BY <1>a, <2>1, <2>2
<1>27. ASSUME NEW job, OcrRecognized(job) PROVE Work'
  <2> DEFINE id == state.ocr.popup
             t  == state.nextTask + 1
             ws == Begun(t, "starting", id)
  <2>0. MayTake BY <1>27, RecognizedMoves
  <2>1. CASE /\ id \in Live(state) /\ Asks(state, state', id)
             /\ Dispatch(state', Begun(state'.nextTask, "starting", id))
             /\ Execute(state'.nextTask, <<Translate(state'.nextTask)>>)
    <3>1. state'.nextTask = t BY <2>1 DEF Asks
    <3>2. t \in Tasks /\ t > state.nextTask /\ t # UI
      BY <1>0, <2>0, NextTaskFacts, Fields DEF Tasks, UI
    <3>3. workers[t].stage = "none" BY <3>2 DEF Work, Staged
    <3>4. Restaged(workers, ws, t, "starting") => Waits(state', ws)
      <4> HIDE DEF ws, id
      <4> QED BY <1>0, <2>1, <3>2, <3>3, WaitsAsks
    <3> QED BY <1>0, <2>0, <2>1, <3>1, <3>2, <3>4, DispatchedBegins
  <2>2. CASE /\ Turns(state, state', "Translating") /\ Dispatch(state', workers) /\ pending' = pending
    <3>1. Lets(state, state') BY <2>2, LetsSame DEF Turns, SameTasks
    <3> QED BY <1>a, <2>2, <3>1
  <2> QED BY <1>27, <2>1, <2>2, RecognizedMoves
<1>28. ASSUME NEW job, OcrJobEnds(job) PROVE Work'
  <2>1. CASE Fails(state, state') /\ Dispatch(state', workers) /\ pending' = pending
    <3>1. Lets(state, state') BY <1>0, <2>1, LetsPopups DEF Fails, SameTasks
    <3> QED BY <1>a, <2>1, <3>1
  <2>2. CASE UNCHANGED <<state, workers, registered>> BY <1>1, <1>28, <2>2, JobEndsMoves
  <2> QED BY <1>28, <2>1, <2>2, JobEndsMoves
<1>29. CASE DismissToolbar \/ SelectWithMouse \/ ToolbarCopy
  <2>1. Clears(state, state') /\ Dispatch(state', workers) /\ pending' = pending
    BY <1>29, ClearMoves
  <2>2. Lets(state, state') BY <2>1, LetsSame DEF Clears, SameTasks
  <2> QED BY <1>a, <2>1, <2>2
<1>30. CASE ToolbarTranslate
  <2> DEFINE t  == state.nextTask + 1
             ws == Begun(t, "starting", None)
  <2>1. /\ MayTake /\ Free(UI) /\ state'.current = t /\ state'.nextTask = t
        /\ state'.main.source = t /\ state'.main.result = None
        /\ Gives(state, state', "Translating", t, t)
        /\ Dispatch(state', ws) /\ Execute(UI, <<Show(state'.active), Translate(t)>>)
    BY <1>30, ToolbarTranslateMoves
  <2>2. t \in Tasks /\ t > state.nextTask BY <1>0, <2>1, NextTaskFacts, Fields
  <2>3. workers[t].stage = "none" /\ state'.active \in Sessions
    BY <2>1, <2>2 DEF Work, Staged, Gives
  <2>4. Restaged(workers, ws, t, "starting") => Waits(state', ws)
    <3> HIDE DEF ws, t
    <3> QED BY <1>0, <2>1, <2>2, <2>3, WaitsGiven
  <2> QED BY <2>1, <2>3, <2>4, DispatchedBegins
<1>31. ASSUME NEW g \in gestures, ToolbarCaptured(g) PROVE Work'
  <2>1. Offers(state, state', g) /\ Dispatch(state', workers) /\ pending' = pending
    BY <1>31, OfferMoves
  <2>2. Lets(state, state') BY <2>1, LetsSame DEF Offers, SameTasks
  <2> QED BY <1>a, <2>1, <2>2
<1> QED
  BY <1>2, <1>3, <1>4, <1>5, <1>6, <1>7, <1>8, <1>9, <1>10, <1>11, <1>12, <1>13, <1>14, <1>15,
     <1>16, <1>18, <1>19, <1>21, <1>22, <1>23, <1>24, <1>25, <1>26, <1>27, <1>28, <1>29, <1>30,
     <1>31, Steps

----------------------------------------
LEMMA WorkInvariant == Spec => [](PopupInv /\ WorkInv)
<1>1. PopupInv /\ WorkInv /\ [Next]_vars => (PopupInv /\ WorkInv)'
  <2> SUFFICES ASSUME PopupInv, WorkInv, [Next]_vars PROVE PopupInv' /\ WorkInv' OBVIOUS
  <2>1. PopupInv' /\ WorkersOk' BY PopupInvNext, WorkersNext DEF WorkInv
  <2>2. GoodState(state') BY <2>1 DEF PopupInv
  <2> QED BY <2>1, <2>2, WorkNext DEF WorkInv
<1> QED BY <1>1, PopupInvInit, WorkInit, PTL DEF Spec

\* No window ever shows a result of a text other than the one it shows: a report counts
\* only where its task is waited for, and a window waits only for the task of its text.
THEOREM ResultsBelong == Spec => []ResultOfSource
<1>1. PopupInv /\ WorkInv => ResultOfSource
  <2> SUFFICES ASSUME Waits(state, workers) PROVE ResultOfSource BY DEF WorkInv, Work
  <2>1. state.main.result # None => state.main.result = state.main.source BY DEF Waits
  <2>2. \A i \in Live(state) : state.sessions[i].result # None =>
            state.sessions[i].result = state.sessions[i].source
    BY DEF Waits
  <2> QED BY <2>1, <2>2 DEF ResultOfSource
<1> QED BY <1>1, WorkInvariant, PTL

\* A task somebody waits for is at work, and a worker nobody waits for is aborted or will
\* be when it is registered, whatever the user does.
THEOREM WorkersAccounted == Spec => [](WantedAtWork /\ NoOrphanWorker)
<1>1. ASSUME PopupInv, WorkInv, HandlesWanted PROVE WantedAtWork /\ NoOrphanWorker
  <2>0. GoodState(state) /\ Staged(workers, pending, registered, state.nextTask) /\ Waits(state, workers)
    BY <1>1 DEF PopupInv, WorkInv, Work
  <2>1. ASSUME NEW c, NEW thread \in Threads, c \in Todo(pending[thread]) PROVE Waiting(c)
    BY <2>1 DEF Todo, Waiting
  <2>2. ASSUME NEW t \in Wanted(state) PROVE AtWork(t)
    <3>1. t \in Tasks /\ t # None BY <2>0, Fields DEF Wanted, Session
    <3>2. workers[t].stage \in {"starting", "running"} \cup Early BY <2>0, <3>1 DEF Wanted, Waits
    <3>3. workers[t].stage = "starting" => \E thread \in Threads : Translate(t) \in Todo(pending[thread])
      BY <2>0, <3>1 DEF Staged, Starts
    <3> QED BY <2>1, <3>2, <3>3 DEF AtWork, Early
  <2>3. ASSUME NEW t \in Tasks, workers[t].stage = "running", t \notin Wanted(state)
        PROVE  Waiting(Register(t))
    <3>1. t \notin registered BY <1>1, <2>3 DEF HandlesWanted
    <3>2. \E thread \in Threads : Register(t) \in Todo(pending[thread])
      BY <2>0, <2>3, <3>1 DEF Staged, Enrols
    <3> QED BY <2>1, <3>2
  <2> QED BY <2>2, <2>3 DEF WantedAtWork, NoOrphanWorker
<1> QED BY <1>1, WorkInvariant, HandlesWantedHolds, PTL

\* OCR waits only for an answer that can come: a job of its generation is under way in
\* each phase that waits, whatever was cancelled, closed or replaced before.
THEOREM OcrIsAtWork == Spec => []OcrAtWork
<1>1. Init => Recognizes(state, ocrJobs) BY DEF Init, Recognizes
<1>2. PopupInv /\ Recognizes(state, ocrJobs) /\ [Next]_vars => Recognizes(state, ocrJobs)'
  BY RecognizesNext
<1>3. Recognizes(state, ocrJobs) => OcrAtWork
  <2> SUFFICES ASSUME Recognizes(state, ocrJobs) PROVE OcrAtWork OBVIOUS
  <2>1. \A kind : Job(kind, state.ocr.generation) \in ocrJobs => kind \in OcrJobsNow
    BY DEF OcrJobsNow, Job
  <2> QED BY <2>1 DEF Recognizes, OcrAtWork
<1> QED BY <1>1, <1>2, <1>3, PopupInvInit, PopupInvNext, PTL DEF Spec

\* Whatever a window waits for is at work, and what nobody waits for is stopped, where
\* pins and OCR requests during an annotation are not made in the same instance.
THEOREM WorkIsAccounted == PinsApart => (Spec => []WorkAccounted)
<1> SUFFICES ASSUME PinsApart PROVE Spec => []WorkAccounted OBVIOUS
<1>1. Init => SpinInv BY SpinInit
<1>2. SpinInv => SpinnerHasWork BY DEF SpinInv, Spins, SpinnerHasWork
<1>3. WantedAtWork /\ NoOrphanWorker /\ SpinnerHasWork /\ OcrAtWork => WorkAccounted
  BY DEF WorkAccounted
<1>4. Spec => [](PopupInv /\ SpinInv) BY <1>1, SpinNext, PopupInvInit, PopupInvNext, PTL DEF Spec
<1> QED BY <1>2, <1>3, <1>4, WorkersAccounted, OcrIsAtWork, PTL

----------------------------------------
(* The commands for windows on their way to the event loop.                    *)

WindowCommand == [op : {"show", "hide"}, id : Sessions]

\* A command that is on its way to the event loop.
Coming(c, p, q) == (\E thread \in Threads : c \in Todo(p[thread])) \/ c \in Todo(q)

\* Every popup has its window, or the command that shows it is on its way; none that hides
\* it is.
Shows(s, p, q, shown) ==
    /\ \A i \in Live(s) : i \in shown \/ Coming(Show(i), p, q)
    /\ \A i \in Sessions : Coming(Hide(i), p, q) => i \in 1..s.nextSession /\ i \notin Live(s)

QueueInv ==
    /\ uiQueue \in Seq(WindowCommand)
    /\ Shows(state, pending, uiQueue, windows \cup unshown)

\* What is on its way after a step: what was before it, and the commands of the set.
Brings(p, q, newP, newQ, commands) ==
    \A c \in WindowCommand : Coming(c, newP, newQ) <=> Coming(c, p, q) \/ c \in commands

LEMMA BringsSame ==
    ASSUME pending' = pending, uiQueue' = uiQueue
    PROVE  Brings(pending, uiQueue, pending', uiQueue', {})
BY DEF Brings

LEMMA BringsExecute ==
    ASSUME pending \in [Threads -> Seq(Command)], NEW thread \in Threads, Free(thread),
           NEW commands, Execute(thread, commands), uiQueue' = uiQueue
    PROVE  Brings(pending, uiQueue, pending', uiQueue', Todo(commands))
<1>1. pending'[thread] = commands /\ Elsewhere(pending, pending', thread) /\ Todo(pending[thread]) = {}
  BY ExecuteElsewhere, TodoFacts DEF Free
<1> QED BY <1>1 DEF Brings, Coming, Elsewhere

\* A thread that starts or registers a translation.
LEMMA BringsOther ==
    ASSUME pending \in [Threads -> Seq(Command)], Scripts(pending), NEW thread \in Threads,
           ~Free(thread), NEW t, uiQueue' = uiQueue,
           \/ /\ Head(pending[thread]) = Translate(t)
              /\ Execute(thread, <<Register(t)>> \o Tail(pending[thread]))
           \/ /\ Head(pending[thread]) = Register(t)
              /\ Execute(thread, Tail(pending[thread]))
    PROVE  Brings(pending, uiQueue, pending', uiQueue', {})
<1>1. Tail(pending[thread]) = <<>> /\ Todo(pending[thread]) \in {{Translate(t)}, {Register(t)}}
  BY ScriptTail DEF Free, Scripts
<1>2. <<Register(t)>> \o <<>> = <<Register(t)>> OBVIOUS
<1>3. /\ pending'[thread] \in {<<>>, <<Register(t)>>}
      /\ Elsewhere(pending, pending', thread)
  BY <1>1, <1>2, ExecuteElsewhere
<1>4. \A c \in WindowCommand : c # Translate(t) /\ c # Register(t)
  BY DEF WindowCommand, Translate, Register
<1>5. \A c \in WindowCommand : c \notin Todo(pending[thread]) /\ c \notin Todo(pending'[thread])
  BY <1>1, <1>3, <1>4, TodoFacts
<1> QED BY <1>3, <1>5 DEF Brings, Coming, Elsewhere

LEMMA TodoAppend ==
    ASSUME NEW S, NEW q \in Seq(S), NEW c
    PROVE  Todo(Append(q, c)) = Todo(q) \cup {c}
<1>1. /\ Len(q) \in Nat /\ DOMAIN q = 1..Len(q)
      /\ DOMAIN Append(q, c) = 1..(Len(q) + 1) /\ Append(q, c)[Len(q) + 1] = c
      /\ \A i \in 1..Len(q) : Append(q, c)[i] = q[i]
  OBVIOUS
<1> DEFINE l == Len(q)
<1>2. 1..(l + 1) = (1..l) \cup {l + 1} BY <1>1
<1> HIDE DEF l
<1> QED BY <1>1, <1>2 DEF Todo, l

LEMMA TodoHead ==
    ASSUME NEW S, NEW q \in Seq(S), q # <<>>
    PROVE  Head(q) \in S /\ Tail(q) \in Seq(S) /\ Todo(q) = {Head(q)} \cup Todo(Tail(q))
<1>1. /\ Len(q) \in Nat /\ Len(q) > 0 /\ DOMAIN q = 1..Len(q) /\ Head(q) = q[1]
      /\ DOMAIN Tail(q) = 1..(Len(q) - 1)
      /\ \A i \in 1..(Len(q) - 1) : Tail(q)[i] = q[i + 1]
      /\ Head(q) \in S /\ Tail(q) \in Seq(S)
  OBVIOUS
<1> DEFINE l == Len(q)
<1>2. ASSUME NEW c PROVE c \in Todo(q) <=> c = Head(q) \/ c \in Todo(Tail(q))
  <2>1. ASSUME c \in Todo(q), c # Head(q) PROVE c \in Todo(Tail(q))
    <3>1. PICK i \in 1..l : c = q[i] BY <1>1, <2>1 DEF Todo
    <3>2. i # 1 BY <1>1, <2>1, <3>1
    <3>3. i - 1 \in 1..(l - 1) /\ (i - 1) + 1 = i BY <1>1, <3>1, <3>2
    <3>4. Tail(q)[i - 1] = c BY <1>1, <3>1, <3>3
    <3> QED BY <1>1, <3>3, <3>4 DEF Todo
  <2>2. ASSUME c \in Todo(Tail(q)) PROVE c \in Todo(q)
    <3>1. PICK i \in 1..(l - 1) : c = Tail(q)[i] BY <1>1, <2>2 DEF Todo
    <3>2. i + 1 \in 1..l /\ c = q[i + 1] BY <1>1, <3>1
    <3> QED BY <1>1, <3>2 DEF Todo
  <2>3. Head(q) \in Todo(q) BY <1>1 DEF Todo
  <2> QED BY <2>1, <2>2, <2>3
<1> QED BY <1>1, <1>2

\* The thread asks the event loop.
LEMMA BringsPost ==
    ASSUME pending \in [Threads -> Seq(Command)], Scripts(pending), uiQueue \in Seq(WindowCommand),
           NEW thread \in Threads, PostToUi(thread)
    PROVE  /\ Brings(pending, uiQueue, pending', uiQueue', {})
           /\ uiQueue' \in Seq(WindowCommand)
<1>1. /\ ~Free(thread) /\ Head(pending[thread]).op \in {"show", "hide"}
      /\ uiQueue' = Append(uiQueue, Head(pending[thread]))
      /\ Execute(thread, Tail(pending[thread]))
  BY DEF PostToUi
<1>2. /\ pending'[thread] = Tail(pending[thread]) /\ Elsewhere(pending, pending', thread)
      /\ Todo(pending[thread]) = {Head(pending[thread])} \cup Todo(Tail(pending[thread]))
  BY <1>1, ExecuteElsewhere, ScriptTail DEF Free, Scripts
<1>3. Head(pending[thread]) \in WindowCommand
  <2>1. Head(pending[thread]) \in Command BY <1>1, PendingTail
  <2> QED BY <1>1, <2>1 DEF Command, WindowCommand
<1>4. Todo(uiQueue') = Todo(uiQueue) \cup {Head(pending[thread])} /\ uiQueue' \in Seq(WindowCommand)
  BY <1>1, <1>3, TodoAppend
<1> QED BY <1>2, <1>4 DEF Brings, Coming, Elsewhere

\* The popups of a state, when no popup is new.
Stays(s, r) == r.nextSession = s.nextSession /\ \A i \in Live(r) : i \in Live(s)

LEMMA ShowsStays ==
    ASSUME NEW s, NEW r, NEW p, NEW q, NEW newP, NEW newQ, NEW shown, NEW newShown, NEW commands,
           Shows(s, p, q, shown), Stays(s, r), Brings(p, q, newP, newQ, commands),
           \A i \in Live(s) : i \in Sessions,
           \A i \in Live(r) : i \in shown => i \in newShown,
           \A i \in Sessions : Hide(i) \in commands => i \in 1..s.nextSession /\ i \notin Live(r)
    PROVE  Shows(r, newP, newQ, newShown)
<1>1. \A i \in Sessions : Show(i) \in WindowCommand /\ Hide(i) \in WindowCommand
  BY DEF Show, Hide, WindowCommand
<1>2. ASSUME NEW i \in Live(r) PROVE i \in newShown \/ Coming(Show(i), newP, newQ)
  <2>1. i \in Live(s) /\ i \in Sessions BY DEF Stays
  <2> QED BY <1>1, <1>2, <2>1 DEF Shows, Brings
<1>3. ASSUME NEW i \in Sessions, Coming(Hide(i), newP, newQ)
      PROVE  i \in 1..r.nextSession /\ i \notin Live(r)
  BY <1>1, <1>3 DEF Shows, Brings, Stays
<1> QED BY <1>2, <1>3 DEF Shows

LEMMA ShowsGiven ==
    ASSUME NEW s, GoodState(s), NEW r, NEW p, NEW q, NEW newP, NEW newQ, NEW shown, NEW commands,
           Shows(s, p, q, shown), Brings(p, q, newP, newQ, commands),
           NEW phase, NEW task, NEW source, Gives(s, r, phase, task, source),
           Show(r.active) \in commands, \A i \in Sessions : Hide(i) \notin commands
    PROVE  Shows(r, newP, newQ, shown)
<1>1. \A i \in Sessions : Show(i) \in WindowCommand /\ Hide(i) \in WindowCommand
  BY DEF Show, Hide, WindowCommand
<1>2. /\ r.active \in Live(s) \/ r.active = s.nextSession + 1
      /\ r.active \in Sessions /\ s.nextSession <= r.nextSession
      /\ r.nextSession \in Nat /\ s.nextSession \in Nat
      /\ Live(r) = Live(s) \cup {r.active} /\ \A i \in Live(s) : i \in Sessions
  BY Fields DEF Gives, Passive, Sessions, None
<1>3. ASSUME NEW i \in Live(r) PROVE i \in shown \/ Coming(Show(i), newP, newQ)
  <2>1. CASE i = r.active BY <1>1, <1>2, <2>1 DEF Brings
  <2>2. CASE i \in Live(s) BY <1>1, <1>2, <2>2 DEF Shows, Brings
  <2> QED BY <1>2, <2>1, <2>2
<1>4. ASSUME NEW i \in Sessions, Coming(Hide(i), newP, newQ)
      PROVE  i \in 1..r.nextSession /\ i \notin Live(r)
  <2>1. i \in 1..s.nextSession /\ i \notin Live(s) BY SMTT(30), <1>1, <1>4 DEF Shows, Brings
  <2> QED BY <1>2, <2>1
<1> QED BY <1>3, <1>4 DEF Shows

\* No popup is new where one is asked, reported, pinned, closed or told.
LEMMA StaysFacts ==
    ASSUME NEW s, NEW r,
           \/ \E source : Begins(s, r, source)
           \/ SamePopups(s, r)
           \/ \E id : Asks(s, r, id) \/ Complains(s, r, id) \/ Pins(s, r, id) \/ Unpins(s, r, id)
                          \/ Closes(s, r, id)
           \/ \E t, event : Reports(s, r, t, event)
           \/ Fails(s, r)
           \/ Retires(s, r)
    PROVE  Stays(s, r)
<1>1. CASE \E id : Unpins(s, r, id) BY <1>1 DEF Stays, Unpins
<1>2. CASE Retires(s, r) BY <1>2 DEF Stays, Retires
<1> QED BY <1>1, <1>2 DEF Stays, Begins, SamePopups, Asks, Complains, Pins, Closes, Reports, Fails

LEMMA QueueInit == Init => QueueInv
<1> SUFFICES ASSUME Init PROVE QueueInv OBVIOUS
<1>1. Live(state) = {} /\ uiQueue = <<>> /\ \A thread \in Threads : pending[thread] = <<>>
  BY DEF Init, Live
<1>2. uiQueue \in Seq(WindowCommand) BY <1>1
<1>3. \A c : ~Coming(c, pending, uiQueue) BY <1>1, TodoFacts DEF Coming
<1> QED BY <1>1, <1>2, <1>3 DEF QueueInv, Shows

LEMMA QueueNext ==
    ASSUME PopupInv, WorkInv, QueueInv, [Next]_vars
    PROVE  QueueInv'
<1> DEFINE shown == windows \cup unshown
           Queue == Shows(state', pending', uiQueue', windows' \cup unshown')
<1>0. /\ GoodState(state) /\ pending \in [Threads -> Seq(Command)] /\ Scripts(pending)
      /\ \A i \in Live(state) : i \in Sessions /\ i \in 1..state.nextSession
      /\ Shows(state, pending, uiQueue, shown)
      /\ uiQueue \in Seq(WindowCommand) /\ UI \in Threads
      /\ \A i \in Sessions : Hide(i) \notin {}
  BY Fields DEF PopupInv, WorkInv, Work, QueueInv, Sessions, None, Threads
<1>a. ASSUME Stays(state, state'), pending' = pending, UNCHANGED uiVars PROVE QueueInv'
  <2>1. Brings(pending, uiQueue, pending', uiQueue', {}) /\ windows' \cup unshown' = shown
        /\ uiQueue' = uiQueue
    BY <1>a, BringsSame DEF uiVars
  <2>2. Queue BY <1>0, <1>a, <2>1, ShowsStays
  <2> QED BY <1>0, <2>1, <2>2 DEF QueueInv
\* A thread was left to do something that shows and hides no popup.
<1>b. ASSUME Stays(state, state'), NEW thread \in Threads, Free(thread), NEW commands,
             Execute(thread, commands), UNCHANGED uiVars,
             \A i \in Sessions : Hide(i) \in Todo(commands) => i \in Live(state) /\ i \notin Live(state')
      PROVE  QueueInv'
  <2>1. /\ Brings(pending, uiQueue, pending', uiQueue', Todo(commands))
        /\ windows' \cup unshown' = shown /\ uiQueue' = uiQueue
    BY <1>0, <1>b, BringsExecute DEF uiVars
  <2>2. Queue BY <1>0, <1>b, <2>1, ShowsStays
  <2> QED BY <1>0, <2>1, <2>2 DEF QueueInv
\* A popup was given to a request, and is to be shown.
<1>c. ASSUME NEW phase, NEW task, NEW source, Gives(state, state', phase, task, source),
             NEW thread \in Threads, Free(thread), NEW commands, Execute(thread, commands),
             UNCHANGED uiVars,
             \/ commands = <<Show(state'.active)>>
             \/ \E t : commands = <<Show(state'.active), Translate(t)>>
      PROVE  QueueInv'
  <2>1. /\ Brings(pending, uiQueue, pending', uiQueue', Todo(commands))
        /\ windows' \cup unshown' = shown /\ uiQueue' = uiQueue
    BY <1>0, <1>c, BringsExecute DEF uiVars
  <2>2. Show(state'.active) \in Todo(commands) /\ \A i \in Sessions : Hide(i) \notin Todo(commands)
    <3>1. CASE commands = <<Show(state'.active)>> BY <3>1, TodoFacts, CommandFacts
    <3>2. ASSUME NEW t, commands = <<Show(state'.active), Translate(t)>>
          PROVE  /\ Show(state'.active) \in Todo(commands)
                 /\ \A i \in Sessions : Hide(i) \notin Todo(commands)
      <4>1. Todo(commands) = {Show(state'.active), Translate(t)} BY <3>2, TodoFacts
      <4> QED BY <4>1, CommandFacts
    <3> QED BY <1>c, <3>1, <3>2
  <2>3. Shows(state', pending', uiQueue', shown) BY <1>0, <1>c, <2>1, <2>2, ShowsGiven
  <2> QED BY <1>0, <2>1, <2>3 DEF QueueInv
<1>d. ASSUME NEW t PROVE \A i \in Sessions : Hide(i) \notin Todo(<<Translate(t)>>)
  BY TodoFacts, CommandFacts
<1>1. CASE \/ \E t \in Tasks : CaptureSelection(t) \/ StopTranslation(t)
           \/ \E job : OcrCaptured(job)
           \/ UNCHANGED vars
  <2>1. state' = state /\ pending' = pending /\ UNCHANGED uiVars
    BY <1>1 DEF CaptureSelection, StopTranslation, OcrCaptured, vars, uiVars
  <2>2. Stays(state, state') BY <2>1 DEF Stays
  <2> QED BY <1>a, <2>1, <2>2
<1>2. ASSUME NEW thread \in Threads, PostToUi(thread) PROVE QueueInv'
  <2>1. /\ Brings(pending, uiQueue, pending', uiQueue', {}) /\ uiQueue' \in Seq(WindowCommand)
    BY <1>0, <1>2, BringsPost
  <2>2. Stays(state, state') /\ windows' \cup unshown' = shown BY <1>2 DEF PostToUi, Stays
  <2>3. Queue BY <1>0, <2>1, <2>2, ShowsStays
  <2> QED BY <2>1, <2>3 DEF QueueInv
<1>3. ASSUME NEW thread \in Threads, RegisterTranslation(thread) PROVE QueueInv'
  <2>1. PICK t \in Tasks : /\ ~Free(thread) /\ Head(pending[thread]) = Register(t)
                           /\ UNCHANGED <<state, uiVars>> /\ Execute(thread, Tail(pending[thread]))
    BY <1>3, RegisterMoves
  <2>2. /\ Brings(pending, uiQueue, pending', uiQueue', {}) /\ Stays(state, state')
        /\ windows' \cup unshown' = shown /\ uiQueue' = uiQueue
    BY <1>0, <2>1, BringsOther DEF uiVars, Stays
  <2>3. Queue BY SMTT(30), <1>0, <2>2, ShowsStays
  <2> QED BY <1>0, <2>2, <2>3 DEF QueueInv
<1>4. ASSUME NEW thread \in Threads, StartTranslation(thread) PROVE QueueInv'
  <2>1. PICK t \in Tasks : /\ ~Free(thread) /\ Head(pending[thread]) = Translate(t)
                           /\ UNCHANGED uiVars /\ Reports(state, state', t, "started")
                           /\ Execute(thread, <<Register(t)>> \o Tail(pending[thread]))
    BY <1>4, StartMoves
  <2>2. /\ Brings(pending, uiQueue, pending', uiQueue', {}) /\ Stays(state, state')
        /\ windows' \cup unshown' = shown /\ uiQueue' = uiQueue
    BY <1>0, <2>1, BringsOther, StaysFacts DEF uiVars
  <2>3. Queue BY <1>0, <2>2, ShowsStays
  <2> QED BY <1>0, <2>2, <2>3 DEF QueueInv
<1>5. CASE ShowWindow \/ HideWindow
  <2> DEFINE c == Head(uiQueue)
  <2>1. /\ uiQueue # <<>> /\ uiQueue' = Tail(uiQueue) /\ UNCHANGED <<state, pending>>
        /\ \/ /\ c.op = "show"
              /\ \/ windows' = windows \cup {c.id} /\ unshown' = unshown \ {c.id}
                 \/ windows' = windows \ {c.id} /\ unshown' = unshown \cup {c.id}
           \/ c.op = "hide" /\ windows' = windows \ {c.id} /\ unshown' = unshown
    BY <1>5 DEF ShowWindow, HideWindow
  <2>2. c \in WindowCommand /\ uiQueue' \in Seq(WindowCommand) /\ Todo(uiQueue) = {c} \cup Todo(uiQueue')
    BY <1>0, <2>1, TodoHead
  <2> HIDE DEF c
  <2>3. \A d : Coming(d, pending, uiQueue) <=> Coming(d, pending', uiQueue') \/ d = c
    BY <2>1, <2>2 DEF Coming
  <2>4. c.id \in Sessions /\ (c = Show(c.id) \/ c = Hide(c.id))
    BY <2>2 DEF WindowCommand, Show, Hide
  <2>5. ASSUME NEW i \in Live(state)
        PROVE  i \in windows' \cup unshown' \/ Coming(Show(i), pending', uiQueue')
    <3>1. CASE Show(i) = c
      <4>1. i = c.id /\ c.op = "show" BY <3>1 DEF Show
      <4> QED BY <2>1, <4>1
    <3>2. CASE Show(i) # c
      <4>1. i \in shown \/ Coming(Show(i), pending', uiQueue') BY <1>0, <2>3, <3>2 DEF Shows
      <4>2. c.op = "hide" => i # c.id
        <5>1. c.op = "hide" => c = Hide(c.id) BY <2>4 DEF Show
        <5> QED BY <1>0, <2>3, <2>4, <5>1 DEF Shows
      <4> QED BY <2>1, <4>1, <4>2
    <3> QED BY <3>1, <3>2
  <2>6. \A i \in Sessions : Coming(Hide(i), pending', uiQueue') =>
                                i \in 1..state.nextSession /\ i \notin Live(state)
    BY <1>0, <2>3 DEF Shows
  <2>7. Queue BY <2>1, <2>5, <2>6 DEF Shows
  <2> QED BY <2>2, <2>7 DEF QueueInv
<1>6. CASE PressHotkey
  <2>1. pending' = pending /\ UNCHANGED uiVars /\ (state' = state \/ Begins(state, state', None))
    BY <1>6, HotkeyMoves
  <2>2. Stays(state, state') BY <2>1, StaysFacts DEF Stays
  <2> QED BY <1>a, <2>1, <2>2
<1>7. CASE InputTranslation
  <2>1. /\ Begins(state, state', state.nextTask + 1) /\ Free(UI) /\ UNCHANGED uiVars
        /\ Execute(UI, <<Translate(state'.current)>>)
    BY <1>7, InputMoves
  <2>2. Stays(state, state') BY <2>1, StaysFacts
  <2> QED BY <1>0, <1>b, <1>d, <2>1, <2>2
<1>8. CASE EmptyInput \/ CloseMainWindow
  <2>1. SamePopups(state, state') /\ pending' = pending /\ UNCHANGED uiVars
    BY <1>8, MainQuits DEF Quits
  <2> QED BY <1>a, <2>1, StaysFacts
<1>9. ASSUME NEW id, TranslatePopup(id) PROVE QueueInv'
  <2>0. UNCHANGED uiVars /\ Free(UI) BY <1>9, TranslatePopupMoves
  <2>1. CASE Asks(state, state', id) /\ Execute(UI, <<Translate(state'.nextTask)>>)
    <3>1. Stays(state, state') BY <2>1, StaysFacts
    <3> QED BY <1>0, <1>b, <1>d, <2>0, <2>1, <3>1
  <2>2. CASE SamePopups(state, state') /\ pending' = pending BY <1>a, <2>0, <2>2, StaysFacts
  <2> QED BY <1>9, <2>1, <2>2, TranslatePopupMoves DEF Requests
<1>10. ASSUME NEW id, TranslateEmptyPopup(id) \/ PinPopup(id) PROVE QueueInv'
  <2>1. /\ Complains(state, state', id) \/ Pins(state, state', id)
        /\ pending' = pending /\ UNCHANGED uiVars
    BY <1>10, TranslateEmptyMoves, PinMoves
  <2> QED BY <1>a, <2>1, StaysFacts
<1>11. ASSUME NEW id, UnpinPopup(id) PROVE QueueInv'
  <2> DEFINE replaced == {state.active} \cap Passive(state)
             commands == IF replaced = {} THEN <<>> ELSE <<Hide(state.active)>>
  <2>1. /\ Unpins(state, state', id) /\ Execute(UI, commands) /\ Free(UI) /\ UNCHANGED uiVars
    BY <1>11, UnpinMoves
  <2>2. Stays(state, state') BY <2>1, StaysFacts
  <2>3. ASSUME NEW i \in Sessions, Hide(i) \in Todo(commands)
        PROVE  i \in Live(state) /\ i \notin Live(state')
    <3>1. replaced # {} /\ Todo(commands) = {Hide(state.active)} BY <2>3, TodoFacts
    <3>2. i = state.active BY <2>3, <3>1, CommandFacts
    <3> QED BY <2>1, <3>1, <3>2 DEF Unpins, Passive
  <2> HIDE DEF commands
  <2> QED BY <1>0, <1>b, <2>1, <2>2, <2>3
<1>12. ASSUME NEW id, CloseWindow(id) PROVE QueueInv'
  <2> DEFINE commands == HideIfLive(state, id)
  <2>1. /\ Closes(state, state', id) /\ Execute(UI, commands) /\ Free(UI)
        /\ windows' = windows \ {id} /\ UNCHANGED <<uiQueue, unshown>>
    BY <1>12, CloseMoves
  <2>2. Stays(state, state') /\ id \notin Live(state')
    <3>1. Stays(state, state') BY <2>1, StaysFacts
    <3> QED BY <2>1, <3>1 DEF Closes
  <2>3. ASSUME NEW i \in Sessions, Hide(i) \in Todo(commands)
        PROVE  i \in Live(state) /\ i = id
    <3>1. id \in Live(state) /\ Todo(commands) = {Hide(id)} BY <2>3, TodoFacts DEF HideIfLive
    <3> QED BY <2>3, <3>1, CommandFacts
  <2> HIDE DEF commands
  <2>4. Brings(pending, uiQueue, pending', uiQueue', Todo(commands)) BY <1>0, <2>1, BringsExecute
  <2>5. \A i \in Live(state') : i \in shown => i \in windows' \cup unshown' BY <2>1, <2>2
  <2>6. Queue
    <3>1. \A i \in Sessions : Hide(i) \in Todo(commands) =>
              i \in 1..state.nextSession /\ i \notin Live(state')
      BY <1>0, <2>2, <2>3
    <3> HIDE DEF shown
    <3> QED BY <1>0, <2>2, <2>4, <2>5, <3>1, ShowsStays
  <2> QED BY <1>0, <2>1, <2>6 DEF QueueInv
<1>13. ASSUME NEW t \in Tasks, ReportProgress(t) \/ EndTranslation(t) PROVE QueueInv'
  <2>1. /\ pending' = pending /\ UNCHANGED uiVars
        /\ \E event : Reports(state, state', t, event)
    BY <1>13, ReportMoves
  <2>2. Stays(state, state') BY <2>1, StaysFacts
  <2> QED BY <1>a, <2>1, <2>2
<1>14. ASSUME NEW t \in Tasks, workers[t].stage \in Early PROVE t \in Threads /\ Free(t)
  BY <1>14 DEF WorkInv, Work, Staged, Free, Threads
<1>15. ASSUME NEW t \in Tasks, SelectionCaptured(t) PROVE QueueInv'
  <2>0. workers[t].stage \in Early /\ UNCHANGED uiVars BY <1>15, CapturedMoves DEF Early
  <2>1. CASE /\ Gives(state, state', "Translating", t, t)
             /\ Execute(t, <<Show(state'.active), Translate(t)>>)
    BY <1>c, <1>14, <2>0, <2>1
  <2>2. CASE state' = state /\ pending' = pending BY <1>a, <2>0, <2>2 DEF Stays
  <2> QED BY <1>15, <2>1, <2>2, CapturedMoves
<1>16. ASSUME NEW t \in Tasks, SelectionNotCaptured(t) PROVE QueueInv'
  <2>0. workers[t].stage \in Early /\ UNCHANGED uiVars BY <1>16, NotCapturedMoves DEF Early
  <2>1. CASE /\ \/ Gives(state, state', "NoSelection", None, None)
                \/ Gives(state, state', "Error", None, None)
             /\ Execute(t, <<Show(state'.active)>>)
    BY <1>c, <1>14, <2>0, <2>1
  <2>2. CASE state' = state /\ pending' = pending BY <1>a, <2>0, <2>2 DEF Stays
  <2> QED BY <1>16, <2>1, <2>2, NotCapturedMoves
<1>17. ASSUME Gives(state, state', "Error", None, None), Free(UI), UNCHANGED uiVars,
              Execute(UI, <<Show(state'.active)>>)
       PROVE  QueueInv'
  BY <1>0, <1>c, <1>17
<1>18. CASE RequestOcr
  <2>0. Free(UI) /\ UNCHANGED uiVars BY <1>18, RequestOcrMoves
  <2>1. CASE RefuseOcr(state) BY <1>0, <1>17, <2>0, <2>1, RefuseMoves DEF Refuses
  <2>2. CASE Shoots(state, state', "Idle") /\ pending' = pending
    BY <1>a, <2>0, <2>2, StaysFacts DEF Shoots
  <2>3. CASE BeginOcr
    <3> DEFINE id  == state.ocr.popup
               old == state.ocr.phase \in {"Recognizing", "Translating"} /\ id \in Live(state)
               commands == IF old /\ id \in Passive(state) THEN <<Hide(id)>> ELSE <<>>
    <3>1. Retires(state, state') /\ Execute(UI, commands) BY <2>3, BeginOcrMoves
    <3>2. Stays(state, state') BY <3>1, StaysFacts
    <3>3. ASSUME NEW i \in Sessions, Hide(i) \in Todo(commands)
          PROVE  i \in Live(state) /\ i \notin Live(state')
      <4>1. old /\ id \in Passive(state) /\ Todo(commands) = {Hide(id)} BY <3>3, TodoFacts
      <4>2. i = id BY <3>3, <4>1, CommandFacts
      <4> QED BY <3>1, <4>1, <4>2 DEF Retires
    <3> HIDE DEF commands
    <3> QED BY <1>0, <1>b, <2>0, <3>1, <3>2, <3>3
  <2> QED BY <1>18, <2>1, <2>2, <2>3, RequestOcrMoves
<1>19. CASE RequestOcrWhileAnnotating BY <1>17, <1>19, AnnotatingMoves
<1>20. CASE DownloadOcr
  <2>1. SamePopups(state, state') /\ pending' = pending /\ UNCHANGED uiVars
    BY <1>20, DownloadMoves DEF Shoots
  <2> QED BY <1>a, <2>1, StaysFacts
<1>21. ASSUME NEW job, SubmitRegion(job) PROVE QueueInv'
  <2>1. /\ Free(UI) /\ Gives(state, state', "Capturing", None, None) /\ UNCHANGED uiVars
        /\ Execute(UI, <<Show(state'.active)>>)
    BY <1>21, SubmitMoves
  <2> QED BY <1>0, <1>c, <2>1
<1>22. ASSUME NEW job, CancelRegion(job) \/ OcrChecked(job) \/ OcrDownloaded(job) PROVE QueueInv'
  <2>1. SamePopups(state, state') /\ pending' = pending /\ UNCHANGED uiVars
    BY <1>22, CancelMoves, AnsweredMoves DEF Shoots, Turns
  <2> QED BY <1>a, <2>1, StaysFacts
<1>23. ASSUME NEW job, OcrRecognized(job) PROVE QueueInv'
  <2> DEFINE id == state.ocr.popup
             t  == state.nextTask + 1
  <2>0. MayTake /\ UNCHANGED uiVars BY <1>23, RecognizedMoves
  <2>1. CASE Asks(state, state', id) /\ Execute(state'.nextTask, <<Translate(state'.nextTask)>>)
    <3>1. state'.nextTask = t /\ Stays(state, state')
      <4>1. Stays(state, state') BY <2>1, StaysFacts
      <4> QED BY <2>1, <4>1 DEF Asks
    <3>2. t \in Tasks /\ t > state.nextTask BY <1>0, <2>0, NextTaskFacts, Fields
    <3>3. t \in Threads /\ Free(t) BY <3>2 DEF WorkInv, Work, Staged, Free, Threads
    <3> HIDE DEF t
    <3> QED BY <1>b, <1>d, <2>0, <2>1, <3>1, <3>3
  <2>2. CASE SamePopups(state, state') /\ pending' = pending BY <1>a, <2>0, <2>2, StaysFacts
  <2> QED BY <1>23, <2>1, <2>2, RecognizedMoves DEF Turns
<1>24. ASSUME NEW job, OcrJobEnds(job) PROVE QueueInv'
  <2>1. pending' = pending /\ UNCHANGED uiVars /\ (Fails(state, state') \/ state' = state)
    BY <1>24, JobEndsMoves
  <2>2. Stays(state, state') BY <2>1, StaysFacts DEF Stays
  <2> QED BY <1>a, <2>1, <2>2
<1>25. CASE DismissToolbar \/ SelectWithMouse \/ ToolbarCopy
  <2>1. SamePopups(state, state') /\ pending' = pending /\ UNCHANGED uiVars
    BY <1>25, ClearMoves DEF Clears
  <2> QED BY <1>a, <2>1, StaysFacts
<1>26. CASE ToolbarTranslate
  <2>1. /\ Free(UI) /\ Gives(state, state', "Translating", state'.current, state'.current)
        /\ Execute(UI, <<Show(state'.active), Translate(state'.current)>>) /\ UNCHANGED uiVars
    BY <1>26, ToolbarTranslateMoves
  <2> QED BY <1>0, <1>c, <2>1
<1>27. ASSUME NEW g \in gestures, ToolbarCaptured(g) PROVE QueueInv'
  <2>1. SamePopups(state, state') /\ pending' = pending /\ UNCHANGED uiVars
    BY <1>27, OfferMoves DEF Offers
  <2> QED BY <1>a, <2>1, StaysFacts
<1> QED
  BY <1>1, <1>2, <1>3, <1>4, <1>5, <1>6, <1>7, <1>8, <1>9, <1>10, <1>11, <1>12, <1>13, <1>15,
     <1>16, <1>18, <1>19, <1>20, <1>21, <1>22, <1>23, <1>24, <1>25, <1>26, <1>27, Steps

\* Once every thread and the event loop are done, each popup of the core has its window
\* or the platform failed to show it: no command that hides a popup is on its way while
\* the popup lives, because the number of a closed popup is not used again.
THEOREM PopupsAreShown == Spec => []PopupsShown
<1>1. ASSUME QueueInv, Quiet PROVE Live(state) \subseteq windows \cup unshown
  <2>1. \A c : ~Coming(c, pending, uiQueue) BY <1>1, TodoFacts DEF Coming, Quiet, Free
  <2> QED BY <1>1, <2>1 DEF QueueInv, Shows
<1>2. QueueInv => PopupsShown BY <1>1 DEF PopupsShown
<1> QED BY <1>2, QueueInit, QueueNext, WorkInvariant, PTL DEF Spec
========================================
