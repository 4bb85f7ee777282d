-------------------------- MODULE ClipboardHistory --------------------------
(***************************************************************************)
(* The clipboard history of Lexift: the list of recorded texts, its file,  *)
(* the clipboard monitor and the window the user copies and pastes from.   *)
(*                                                                         *)
(* The reducer (lexift-core/src/domain/clipboard_history.rs) owns the list *)
(* and the session of the window.  HistoryRuntime                          *)
(* (lexift-app/src/clipboard_history.rs) follows every transition under    *)
(* the reducer's lock (sync), owns one storage thread with a queue of jobs *)
(* and starts a worker for each copy and each paste.  The commands of a    *)
(* transition are executed by the dispatching thread after the lock is     *)
(* released, so those of two threads may be executed in the other order.   *)
(*                                                                         *)
(* Data abstracted: a text is a model value; the limit in bytes cuts the   *)
(* end of the list as the limit in entries does and is left out, and so    *)
(* are error messages, the feedback of a finished copy and paste_target,   *)
(* the check of the original input, whose outcome nothing reads.           *)
(***************************************************************************)
EXTENDS Integers, Sequences, FiniteSets

CONSTANTS
    ClipTexts,    \* the texts that get copied
    Limits,       \* the values of clipboard_history_limit in this instance
    Unreadable,   \* a file that cannot be decrypted or decoded
    Files,        \* what the file may hold at start-up
    MaxEntries,   \* bound: numbers given to entries
    MaxRevisions, \* bound: changes of the list
    MaxSessions,  \* bound: windows opened
    MaxClicks,    \* bound: copies of an entry and pastes of a session
    MaxJobs,      \* bound: jobs in the queue when the user switches the recording
    UserActions   \* what the user does in this instance

\* decode (store.rs) refuses a file with two entries of one number.
ASSUME LimitsAssumption == Limits \subseteq Nat
ASSUME FilesAssumption ==
    \A file \in Files \ {Unreadable} :
        /\ file \in Seq([id : Nat, text : ClipTexts])
        /\ \A i, j \in DOMAIN file : file[i].id = file[j].id => i = j

AllUserActions == {"record", "limit", "window", "pin", "copy", "paste", "delete",
                  "clear", "early clear", "exit"}

\* The threads that dispatch events with commands; a thread dispatches its next event
\* after it executed the command of the last one.
HistoryThreads == {"ui", "settings", "monitor", "storage"}

VARIABLES
    history,      \* HistoryState but for its session
    session,      \* HistoryState.session
    nextSession,  \* HistoryState.next_session
    enabled,      \* settings.clipboard_history_enabled, as committed
    limit,        \* settings.clipboard_history_limit, as committed
    permitted,    \* HistoryRuntime.recording: what the monitor was last asked for
    shuttingDown, \* HistoryRuntime.shutting_down
    io,           \* the channel of the storage thread
    storage,      \* the storage thread, with saved_revision
    listFile,     \* the history file
    monitor,      \* the clipboard monitor is registered
    samples,      \* texts the monitor read and did not deliver yet
    pending,      \* the command each thread has still to execute
    pastes,       \* workers of Paste
    copies,       \* workers of Copy
    cleared       \* the user cleared the history

reducer     == <<history, session, nextSession, enabled, limit>>
runtime     == <<permitted, shuttingDown, io, storage, listFile, monitor, samples>>
workerVars  == <<pastes, copies>>
historyVars == <<reducer, runtime, pending, workerVars, cleared>>

NoCommand == [kind |-> "none"]
NoSession == [id |-> 0, pinned |-> FALSE, busy |-> FALSE, request |-> 0, copy |-> <<>>]

SaveJob(revision, entries) == [kind |-> "save", revision |-> revision, entries |-> entries]
RecordingJob(on)           == [kind |-> "recording", on |-> on]
LoadJob                    == [kind |-> "load"]
StopJob                    == [kind |-> "stop"]

HistoryInit ==
    /\ history = [entries |-> <<>>, loaded |-> FALSE, recording |-> FALSE,
                  storageFailed |-> FALSE, revision |-> 0, nextEntry |-> 0]
    /\ session = NoSession
    /\ nextSession = 0
    /\ enabled \in BOOLEAN
    /\ limit \in Limits
    /\ permitted = FALSE
    /\ shuttingDown = FALSE
    /\ io = <<LoadJob>>
    /\ storage = [at |-> "idle", revision |-> 0, entries |-> <<>>, success |-> TRUE]
    /\ listFile \in Files
    /\ monitor = FALSE
    /\ samples = {}
    /\ pending = [thread \in HistoryThreads |-> NoCommand]
    /\ pastes = {}
    /\ copies = {}
    /\ cleared = FALSE

----------------------------------------
(* Dispatch: the new state, and what the runtime makes of it under the lock. *)

\* dispatch and HistoryRuntime::sync.  The cancellation token of sync belongs to
\* the session of the new state: see PasteCancelled.
Transition(h, s, on, jobs) ==
    /\ history' = h
    /\ session' = s
    /\ enabled' = on
    /\ LET wanted == h.loaded /\ on IN
       IF shuttingDown \/ permitted = wanted
       THEN io' = jobs /\ UNCHANGED permitted
       ELSE io' = Append(jobs, RecordingJob(wanted)) /\ permitted' = wanted

\* The token a paste got with its command is cancelled once another session, or none,
\* is the current one, and when the runtime shuts down.
PasteCancelled(paste) == shuttingDown \/ session.id # paste.session

Available(thread) == pending[thread] = NoCommand

Issue(thread, command) == pending' = [pending EXCEPT ![thread] = command]

Holds(entries, id) == \E i \in DOMAIN entries : entries[i].id = id

\* The copies of entries that are no longer listed are forgotten.
KeepCopies(s, entries) ==
    [s EXCEPT !.copy = [id \in {i \in DOMAIN s.copy : Holds(entries, i)} |-> s.copy[id]]]

\* HistoryState::trim on the list.
Trim(entries, n) == SubSeq(entries, 1, IF Len(entries) > n THEN n ELSE Len(entries))

\* retain: the entries with these places, in their order.  The set has one member.
Retained(entries, places) ==
    {[i \in DOMAIN s |-> entries[s[i]]] :
        s \in {t \in [1..Cardinality(places) -> places] :
                  \A i, j \in DOMAIN t : i < j => t[i] < t[j]}}

\* HistoryState::save: every change of the list gets a revision; a list that could
\* not be loaded is not saved.
Revised(h) == [h EXCEPT !.revision = @ + 1]

\* Mutant: a list that could not be loaded is saved.
RecklessSaveOf(h) == SaveJob(h.revision, h.entries)

SaveOf(h) == IF h.storageFailed THEN NoCommand ELSE SaveJob(h.revision, h.entries)

MayRevise == history.revision < MaxRevisions

----------------------------------------
(* Recording.                                                               *)

\* The monitor reads the clipboard after a notification, or when it starts; a text
\* read during a translation of the selection is delivered when that ends.
SampleText(text) ==
    /\ monitor
    /\ samples = {}
    /\ samples' = {text}
    /\ UNCHANGED <<reducer, permitted, shuttingDown, io, storage, listFile, monitor, pending,
                   workerVars, cleared>>

\* The text moves to the top and keeps its number, or enters with a new one.  The set has one
\* member.
Recorded(h, text, n) ==
    LET known == {i \in DOMAIN h.entries : h.entries[i].text = text}
        id    == IF known = {} THEN h.nextEntry + 1
                 ELSE h.entries[CHOOSE i \in known : TRUE].id IN
    {Revised([h EXCEPT !.entries = Trim(<<[id |-> id, text |-> text]>> \o rest, n),
                       !.nextEntry = IF known = {} THEN @ + 1 ELSE @]) :
        rest \in Retained(h.entries, DOMAIN h.entries \ known)}

\* HistoryEvent::Captured, recorded only while the committed settings ask for it.
Captured(text) ==
    /\ Available("monitor")
    /\ text \in samples
    /\ samples' = samples \ {text}
    /\ \/ /\ history.loaded /\ enabled
          /\ MayRevise /\ history.nextEntry < MaxEntries
          /\ \E h \in Recorded(history, text, limit) :
             /\ Transition(h, KeepCopies(session, h.entries), enabled, io)
             /\ Issue("monitor", SaveOf(h))
       \/ /\ ~(history.loaded /\ enabled)
          /\ Transition(history, session, enabled, io)
          /\ UNCHANGED pending
    /\ UNCHANGED <<nextSession, limit, shuttingDown, storage, listFile, monitor, workerVars,
                   cleared>>

----------------------------------------
(* Settings, as committed by the settings pipeline.                          *)

SwitchRecording ==
    /\ "record" \in UserActions
    /\ Available("settings")
    /\ Len(io) < MaxJobs
    /\ Transition(history, session, ~enabled, io)
    /\ UNCHANGED <<nextSession, limit, shuttingDown, storage, listFile, monitor, samples, pending,
                   workerVars, cleared>>

\* HistoryState::reconcile_limit, by the storage thread after a load and by the
\* settings worker after a change of settings.
ReconcileLimit(h, n, thread) ==
    LET jobs    == IF thread = "storage" THEN Tail(io) ELSE io
        entries == Trim(h.entries, n)
        trimmed == Revised([h EXCEPT !.entries = entries]) IN
    IF entries = h.entries
    THEN Transition(h, session, enabled, jobs) /\ UNCHANGED pending
    ELSE /\ Transition(trimmed, KeepCopies(session, entries), enabled, jobs)
         /\ Issue(thread, SaveOf(trimmed))

ChangeLimit(n) ==
    /\ "limit" \in UserActions
    /\ Available("settings")
    /\ MayRevise
    /\ n # limit
    /\ limit' = n
    /\ ReconcileLimit(history, n, "settings")
    /\ UNCHANGED <<nextSession, shuttingDown, storage, listFile, monitor, samples, workerVars,
                   cleared>>

----------------------------------------
(* The storage thread takes one job after the other from its queue.          *)

JobIs(kind) == storage.at = "idle" /\ io # <<>> /\ Head(io).kind = kind /\ Available("storage")

\* HistoryEvent::Loaded; nothing is recorded before it.  A file that cannot be read
\* now or ever leaves the list empty, and keeps it from being saved.
LoadList ==
    /\ JobIs("load")
    /\ \/ /\ listFile # Unreadable
          /\ ReconcileLimit([history EXCEPT !.loaded = TRUE, !.entries = listFile,
                !.nextEntry = CHOOSE n \in {@} \cup {listFile[i].id : i \in DOMAIN listFile} :
                                  n >= @ /\ \A i \in DOMAIN listFile : n >= listFile[i].id],
                limit, "storage")
       \/ /\ Transition([history EXCEPT !.loaded = TRUE, !.storageFailed = TRUE], session,
                      enabled, Tail(io))
          /\ UNCHANGED pending
    /\ UNCHANGED <<nextSession, limit, shuttingDown, storage, listFile, monitor, samples,
                   workerVars, cleared>>

\* The monitor is registered or stopped, and MonitoringReady or MonitoringFailed
\* reports it; only registering a monitor can fail.
SetRecording ==
    /\ JobIs("recording")
    /\ LET on == Head(io).on IN
       \E works \in IF on /\ ~monitor THEN BOOLEAN ELSE {TRUE} :
          /\ monitor' = (on /\ works)
          /\ Transition([history EXCEPT !.recording = on /\ works], session, enabled, Tail(io))
    /\ UNCHANGED <<nextSession, limit, shuttingDown, storage, listFile, samples, pending,
                   workerVars, cleared>>

\* The saves that wait at the head of the queue, of which one is written.
SaveCount == CHOOSE n \in 1..Len(io) :
                /\ \A i \in 1..n : io[i].kind = "save"
                /\ n < Len(io) => io[n + 1].kind # "save"

\* Mutant: the save that was queued last is written, whatever its revision.
LatestTakeSave ==
    /\ JobIs("save")
    /\ storage' = [storage EXCEPT !.at = "writing", !.revision = io[SaveCount].revision,
                                  !.entries = io[SaveCount].entries]
    /\ io' = SubSeq(io, SaveCount + 1, Len(io))
    /\ UNCHANGED <<reducer, permitted, shuttingDown, listFile, monitor, samples, pending,
                   workerVars, cleared>>

\* The newest of them is written, unless it is older than what was written.
TakeSave ==
    /\ JobIs("save")
    /\ LET job == io[CHOOSE i \in 1..SaveCount :
                         \A j \in 1..SaveCount : io[i].revision >= io[j].revision] IN
       storage' = IF job.revision <= storage.revision THEN storage
                  ELSE [storage EXCEPT !.at = "writing", !.revision = job.revision,
                                       !.entries = job.entries]
    /\ io' = SubSeq(io, SaveCount + 1, Len(io))
    /\ UNCHANGED <<reducer, permitted, shuttingDown, listFile, monitor, samples, pending,
                   workerVars, cleared>>

\* store.save replaces the file as a whole, or fails and leaves it; Stored then only
\* sets the message the window shows.
WriteList ==
    /\ storage.at = "writing"
    /\ \E success \in BOOLEAN :
          /\ listFile' = IF success THEN storage.entries ELSE listFile
          /\ storage' = [storage EXCEPT !.at = "idle", !.entries = <<>>, !.success = success]
    /\ UNCHANGED <<reducer, permitted, shuttingDown, io, monitor, samples, pending, workerVars,
                   cleared>>

StopStorage ==
    /\ JobIs("stop")
    /\ storage' = [storage EXCEPT !.at = "stopped"]
    /\ monitor' = FALSE
    /\ io' = Tail(io)
    /\ UNCHANGED <<reducer, permitted, shuttingDown, listFile, samples, pending, workerVars,
                   cleared>>

StorageThread == LoadList \/ SetRecording \/ TakeSave \/ WriteList \/ StopStorage

\* AppCommand::Exit, carried out by a worker.
Shutdown ==
    /\ "exit" \in UserActions
    /\ ~shuttingDown
    /\ shuttingDown' = TRUE
    /\ monitor' = FALSE
    /\ io' = Append(io, StopJob)
    /\ UNCHANGED <<reducer, permitted, storage, listFile, samples, pending, workerVars, cleared>>

----------------------------------------
(* The window and what the user does in it.                                  *)

\* HistoryEvent::Open from the toolbar: a new session, unless a pinned one stays.
OpenHistory ==
    /\ "window" \in UserActions
    /\ Available("ui")
    /\ ~session.pinned
    /\ nextSession < MaxSessions
    /\ nextSession' = nextSession + 1
    /\ Transition(history, [NoSession EXCEPT !.id = nextSession'], enabled, io)
    /\ UNCHANGED <<limit, shuttingDown, storage, listFile, monitor, samples, pending, workerVars,
                   cleared>>

UserTurn(s) ==
    /\ Available("ui")
    /\ session # NoSession
    /\ Transition(history, s, enabled, io)
    /\ UNCHANGED <<nextSession, limit, shuttingDown, storage, listFile, monitor, samples,
                   workerVars, cleared>>

SetPinned ==
    /\ "pin" \in UserActions
    /\ UserTurn([session EXCEPT !.pinned = ~@])
    /\ UNCHANGED pending

\* Dismiss, OpenSettings and SelectionInteractionStarted end an unpinned session; the
\* last comes from the thread of the selection monitor, at any time.
LeaveSession ==
    /\ "window" \in UserActions
    /\ session # NoSession /\ ~session.pinned
    /\ Transition(history, NoSession, enabled, io)
    /\ UNCHANGED <<nextSession, limit, shuttingDown, storage, listFile, monitor, samples, pending,
                   workerVars, cleared>>

CloseHistory ==
    /\ "window" \in UserActions
    /\ UserTurn(NoSession)
    /\ UNCHANGED pending

\* A row of the window may name an entry that is gone; the list is saved all the same.
DeleteEntry(id) ==
    /\ "delete" \in UserActions
    /\ Available("ui")
    /\ history.loaded /\ session # NoSession /\ ~session.busy
    /\ MayRevise
    /\ LET others == {i \in DOMAIN history.entries : history.entries[i].id # id} IN
       \E kept \in Retained(history.entries, others) :
       LET h == Revised([history EXCEPT !.entries = kept])
           s == [session EXCEPT !.copy = [i \in DOMAIN @ \ {id} |-> @[i]]] IN
       /\ Transition(h, s, enabled, io)
       /\ Issue("ui", SaveOf(h))
    /\ UNCHANGED <<nextSession, limit, shuttingDown, storage, listFile, monitor, samples,
                   workerVars, cleared>>

\* Clear, confirmed in the settings window, which may be open before the list is loaded.
ClearHistory ==
    /\ "clear" \in UserActions
    /\ history.loaded \/ "early clear" \in UserActions
    /\ Available("ui")
    /\ MayRevise
    /\ LET h == Revised([history EXCEPT !.entries = <<>>, !.storageFailed = FALSE]) IN
       /\ Transition(h, [session EXCEPT !.copy = <<>>], enabled, io)
       /\ Issue("ui", SaveOf(h))
    /\ cleared' = TRUE
    /\ UNCHANGED <<nextSession, limit, shuttingDown, storage, listFile, monitor, samples,
                   workerVars>>

Copying(s) == \E id \in DOMAIN s.copy : s.copy[id].pending

\* HistoryEvent::Copy and CopyStatus::begin.
CopyEntry(i) ==
    /\ "copy" \in UserActions
    /\ ~session.busy
    /\ LET e       == history.entries[i]
           request == IF e.id \in DOMAIN session.copy THEN session.copy[e.id].request + 1 ELSE 1 IN
       /\ e.id \in DOMAIN session.copy => ~session.copy[e.id].pending
       /\ request <= MaxClicks
       /\ UserTurn([session EXCEPT !.copy =
              [id \in DOMAIN @ \cup {e.id} |->
                  IF id = e.id THEN [request |-> request, pending |-> TRUE] ELSE @[id]]])
       /\ Issue("ui", [kind |-> "copy", session |-> session.id, request |-> request, entry |-> e])

PasteEntry(i) ==
    /\ "paste" \in UserActions
    /\ ~session.busy /\ ~Copying(session)
    /\ session.request < MaxClicks
    /\ UserTurn([session EXCEPT !.busy = TRUE, !.request = @ + 1])
    /\ Issue("ui", [kind |-> "paste", session |-> session.id, request |-> session.request + 1,
                    entry |-> history.entries[i]])

HistoryUser ==
    \/ OpenHistory \/ SetPinned \/ LeaveSession \/ CloseHistory \/ ClearHistory
    \/ \E id \in 1..history.nextEntry : DeleteEntry(id)
    \/ \E i \in DOMAIN history.entries : CopyEntry(i) \/ PasteEntry(i)

----------------------------------------
(* Commands and workers.                                                     *)

ClickWorker(command) == [session |-> command.session, request |-> command.request,
                         entry |-> command.entry, stage |-> "started"]

\* HistoryRuntime::execute.  A paste whose session has no token any more is dropped; a
\* job sent to a stopped thread is never taken.
Execute(thread) ==
    LET command == pending[thread] IN
    /\ ~Available(thread)
    /\ pending' = [pending EXCEPT ![thread] = NoCommand]
    /\ io' = IF command.kind = "save" THEN Append(io, command) ELSE io
    /\ pastes' = IF command.kind = "paste" /\ ~PasteCancelled(command)
                 THEN pastes \cup {ClickWorker(command)} ELSE pastes
    /\ copies' = IF command.kind = "copy" THEN copies \cup {ClickWorker(command)} ELSE copies
    /\ UNCHANGED <<reducer, permitted, shuttingDown, storage, listFile, monitor, samples, cleared>>

Step(w, stage) == [w EXCEPT !.stage = stage]

\* paste_current and the port: the target is found, the clipboard written and the keys
\* sent, each after another look at the token.
PasteAdvances(w) ==
    /\ w.stage \in {"started", "captured", "written"}
    /\ ~PasteCancelled(w)
    /\ pastes' = (pastes \ {w}) \cup {Step(w, CASE w.stage = "started"  -> "captured"
                                             [] w.stage = "captured" -> "written"
                                             [] w.stage = "written"  -> "pasted")}
    /\ UNCHANGED <<reducer, runtime, pending, copies, cleared>>

\* No target, another target, a modifier key held down, or cancelled.
PasteFails(w) ==
    /\ w.stage \in {"started", "captured", "written"}
    /\ pastes' = (pastes \ {w}) \cup {Step(w, "failed")}
    /\ UNCHANGED <<reducer, runtime, pending, copies, cleared>>

\* Mutant: only a failure makes a pinned window available again.
BusyPasteResult(w) ==
    IF session.id = w.session /\ session.request = w.request /\ session.busy
    THEN IF w.stage = "pasted" THEN IF session.pinned THEN session ELSE NoSession
         ELSE [session EXCEPT !.busy = FALSE]
    ELSE session

\* What PasteFinished makes of the session: an unpinned one is done after a paste.
PasteResult(w) ==
    IF session.id = w.session /\ session.request = w.request /\ session.busy
    THEN IF w.stage = "pasted" /\ ~session.pinned THEN NoSession
         ELSE [session EXCEPT !.busy = FALSE]
    ELSE session

PasteFinished(w) ==
    /\ w.stage \in {"pasted", "failed"}
    /\ pastes' = pastes \ {w}
    /\ Transition(history, PasteResult(w), enabled, io)
    /\ UNCHANGED <<nextSession, limit, shuttingDown, storage, listFile, monitor, samples, pending,
                   copies, cleared>>

\* copy_history_entry writes the clipboard only while its request is the current one.
CopyCurrent(w) ==
    /\ session.id = w.session
    /\ w.entry.id \in DOMAIN session.copy
    /\ session.copy[w.entry.id] = [request |-> w.request, pending |-> TRUE]
    /\ Holds(history.entries, w.entry.id)

CopyStarts(w) ==
    /\ w.stage = "started"
    /\ copies' = (copies \ {w}) \cup (IF CopyCurrent(w) THEN {Step(w, "writing")} ELSE {})
    /\ UNCHANGED <<reducer, runtime, pending, pastes, cleared>>

\* HistoryEvent::CopyFinished, after a success or a failure.
CopyFinished(w) ==
    /\ w.stage = "writing"
    /\ copies' = copies \ {w}
    /\ LET s == IF CopyCurrent(w) THEN [session EXCEPT !.copy[w.entry.id].pending = FALSE]
                ELSE session IN
       Transition(history, s, enabled, io)
    /\ UNCHANGED <<nextSession, limit, shuttingDown, storage, listFile, monitor, samples, pending,
                   pastes, cleared>>

PasteWorker(w) == PasteAdvances(w) \/ PasteFails(w) \/ PasteFinished(w)
CopyWorker(w)  == CopyStarts(w) \/ CopyFinished(w)

HistoryNext ==
    \/ HistoryUser
    \/ SwitchRecording
    \/ Shutdown
    \/ StorageThread
    \/ \E n \in Limits : ChangeLimit(n)
    \/ \E text \in ClipTexts : SampleText(text) \/ Captured(text)
    \/ \E thread \in HistoryThreads : Execute(thread)
    \/ \E w \in pastes : PasteWorker(w)
    \/ \E w \in copies : CopyWorker(w)

HistorySpec == HistoryInit /\ [][HistoryNext]_historyVars

----------------------------------------
(* Properties.                                                               *)

Queued(kind) ==
    \/ \E i \in DOMAIN io : io[i].kind = kind
    \/ \E thread \in HistoryThreads : pending[thread].kind = kind

StorageQuiet == ~Queued("load") /\ ~Queued("save") /\ storage.at # "writing"

\* Once every save was carried out the file holds the list the window shows, although
\* saves of several threads reach the queue in any order: an older list never
\* overwrites a newer one, and exit writes what was queued.  A failed write and a
\* file that could not be loaded are the exceptions.
DiskLatest ==
    StorageQuiet /\ storage.success /\ ~history.storageFailed => listFile = history.entries

\* A file that could not be loaded is left as it is until the user clears the history.
UnreadableKept ==
    [][listFile' # listFile => cleared \/ (history.loaded /\ ~history.storageFailed)]_historyVars

\* What a click asked for is done to the text that was clicked: while a copy, a paste
\* or its command is under way, no other text gets the number of its entry.
Clicked == {command \in {pending[t] : t \in HistoryThreads} : command.kind \in {"copy", "paste"}}
IdsNameTexts ==
    \A order \in pastes \cup copies \cup Clicked : \A i \in DOMAIN history.entries :
        history.entries[i].id = order.entry.id => history.entries[i] = order.entry

\* When no job about recording waits, the window says whether the clipboard is
\* recorded, and it is recorded only with the consent of the committed settings.
RecordingShown ==
    ~Queued("recording") /\ ~shuttingDown =>
        history.recording = monitor /\ (monitor => enabled)

\* The copies or pastes that are under way, and the command of one.
Orders(workers, kind) == workers \cup {c \in Clicked : c.kind = kind}

\* A window that refuses clicks because of a paste has that paste under way, and a copy that
\* keeps pastes from starting is under way: no order of pinning, closing, reopening, deleting
\* and late results leaves a window refusing for good.
ClicksComeBack ==
    /\ session.busy /\ ~shuttingDown =>
          \E w \in Orders(pastes, "paste") :
              w.session = session.id /\ w.request = session.request
    /\ \A id \in DOMAIN session.copy : session.copy[id].pending =>
          \E w \in Orders(copies, "copy") :
              /\ w.session = session.id /\ w.request = session.copy[id].request
              /\ w.entry.id = id

\* Once the storage thread has carried out what it was asked, in whatever order, the file follows
\* the list and the window tells whether the clipboard is recorded.
StorageFollows == DiskLatest /\ RecordingShown

\* A click acts on the text that was clicked, and a window that refuses clicks waits for work that
\* is under way.
ClicksServed == IdsNameTexts /\ ClicksComeBack
========================================
