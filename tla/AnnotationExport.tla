--------------------------- MODULE AnnotationExport ---------------------------
(***************************************************************************)
(* Saving what is annotated as a PNG: the reducer (domain/                  *)
(* annotation_export.rs), the runtime and its worker threads                *)
(* (app/annotation_export.rs), the save dialog and the file it writes       *)
(* (windows/annotation_save.rs) and the button of the toolbar               *)
(* (annotation/export.rs).                                                  *)
(*                                                                          *)
(* A session is one opening of the annotation and carries the generation of *)
(* the view.  Sessions are opened and closed and exports are asked for on   *)
(* the event loop, where a dispatch and the execution of its command are    *)
(* one step: no other thread changes this part of the state in between      *)
(* except by the answer of a worker, which starts nothing.  A snapshot is   *)
(* posted by every dispatch and reaches the view later, in order.           *)
(***************************************************************************)
EXTENDS Naturals, Sequences, FiniteSets

CONSTANTS
    MaxGenerations, \* bound: openings and closings of the view
    MaxExports      \* bound: exports

VARIABLES
    export,     \* AppState.annotation_export; 0 stands for None
    job,        \* ExportRuntime.job
    cancelled,  \* the jobs whose flag is set
    workers,    \* the threads and the tasks that wait for them
    button,     \* the view: generation, whether open, its pending export
    posted,     \* snapshots on their way to the event loop
    closings,   \* deferred Closed events
    file, temps \* the file the user overwrites and the ones beside it

exportVars == <<export, job, cancelled, workers, button, posted, closings, file, temps>>

NoJob == <<0, 0>>

----------------------------------------
(* The reducer.  A Cancel command does nothing when it is executed.          *)

Opened(session) ==
    IF session <= export.last THEN export
    ELSE [last |-> session, session |-> session, request |-> 0, completed |-> 0]

Requested(session, request) ==
    IF export.session = session /\ export.request = 0 /\ request > export.completed
    THEN [export EXCEPT !.request = request] ELSE export

Closed(session) ==
    IF export.session = session
    THEN [export EXCEPT !.session = 0, !.request = 0, !.completed = 0] ELSE export

\* Mutant: only a file that was saved ends the request for the view.
SavedCompleted(worker) ==
    IF export.session = worker.session /\ export.request = worker.request
    THEN [export EXCEPT !.request = 0,
                        !.completed = IF worker.result = "saved" THEN worker.request ELSE @]
    ELSE export

Completed(worker) ==
    IF export.session = worker.session /\ export.request = worker.request
    THEN [export EXCEPT !.request = 0, !.completed = worker.request] ELSE export

----------------------------------------
(* The runtime.                                                              *)

\* sync: the job nobody waits for any more.
Unwanted(state) == job # NoJob /\ job # <<state.session, state.request>>

\* A dispatch: transition, sync, snapshot.
Dispatch(state) ==
    /\ export' = state
    /\ cancelled' = IF Unwanted(state) THEN cancelled \cup {job} ELSE cancelled
    /\ posted' = Append(posted, state)

KeepJob(state) == IF Unwanted(state) THEN NoJob ELSE job

\* execute: a worker for what the state still asks for.
Run(state, session, request) ==
    IF <<state.session, state.request>> = <<session, request>>
    THEN /\ job' = <<session, request>>
         /\ workers' = workers \cup {[session |-> session, request |-> request, at |-> "capture",
                                      result |-> "none"]}
    ELSE job' = KeepJob(state) /\ UNCHANGED workers

----------------------------------------
(* The view.                                                                 *)

OpenAnnotation ==
    /\ ~button.open /\ button.generation < MaxGenerations
    /\ button' = [button EXCEPT !.open = TRUE, !.generation = @ + 1]
    /\ Dispatch(Opened(button.generation + 1)) /\ job' = KeepJob(export')
    /\ UNCHANGED <<workers, closings, file, temps>>

\* Registry::close alone, when a window fails, and close, which also tells at once.
Retire ==
    /\ button.open
    /\ button' = [button EXCEPT !.open = FALSE, !.generation = @ + 1, !.pending = FALSE]
    /\ closings' = closings \cup {button.generation}
    /\ UNCHANGED <<workers, file, temps>>

ViewFails == Retire /\ UNCHANGED <<export, job, cancelled, posted>>

CloseAnnotation ==
    /\ Retire
    /\ Dispatch(Closed(button.generation)) /\ job' = KeepJob(export')

TellClosed(session) ==
    /\ session \in closings
    /\ closings' = closings \ {session}
    /\ Dispatch(Closed(session)) /\ job' = KeepJob(export')
    /\ UNCHANGED <<workers, button, file, temps>>

StartExport ==
    LET request == button.request + 1 IN
    /\ button.open /\ ~button.pending /\ button.request < MaxExports
    /\ button' = [button EXCEPT !.request = request, !.pending = TRUE]
    /\ Dispatch(Requested(button.generation, request))
    /\ Run(export', button.generation, request)
    /\ UNCHANGED <<closings, file, temps>>

\* sync: the button returns when its own request was completed.
ShowSnapshot ==
    /\ posted # <<>>
    /\ posted' = Tail(posted)
    /\ button' = LET state == Head(posted) IN
                 IF state.session = button.generation /\ state.completed = button.request
                 THEN [button EXCEPT !.pending = FALSE] ELSE button
    /\ UNCHANGED <<export, job, cancelled, workers, closings, file, temps>>

----------------------------------------
(* A worker.                                                                 *)

JobOf(w)         == <<w.session, w.request>>
Cancelled(w)     == JobOf(w) \in cancelled
Moved(w, at)     == workers' = (workers \ {w}) \cup {[w EXCEPT !.at = at]}
Ended(w, result) == workers' = (workers \ {w}) \cup {[w EXCEPT !.at = "done", !.result = result]}

\* A step that looks at the flag first; next is where it goes on.
Guarded(w, at, next) ==
    /\ w.at = at
    /\ IF Cancelled(w) THEN Ended(w, "cancelled") ELSE Moved(w, next) \/ Ended(w, "failed")
    /\ UNCHANGED <<file, temps>>

\* Capture ends with a frame, with the flag, or with the deadline or an error of the port.
Capture(w) == Guarded(w, "capture", "compose")
Compose(w) == Guarded(w, "compose", "dialog")

\* The dialog answers with a path or without, and is closed when the job is cancelled.
Dialog(w) ==
    /\ w.at = "dialog"
    /\ IF Cancelled(w) THEN Ended(w, "cancelled")
       ELSE Moved(w, "encode") \/ Ended(w, "cancelled") \/ Ended(w, "failed")
    /\ UNCHANGED <<file, temps>>

Encode(w) == Guarded(w, "encode", "write")

\* A file of its own beside the destination, removed again when it cannot be written.
WriteTemporary(w) ==
    /\ w.at = "write"
    /\ \/ temps' = temps \cup {JobOf(w)} /\ Moved(w, "check")
       \/ UNCHANGED temps /\ Ended(w, "failed")
    /\ UNCHANGED file

\* The flag is looked at for the last time.
CheckOnce(w) ==
    /\ w.at = "check"
    /\ IF Cancelled(w) THEN Ended(w, "cancelled") /\ temps' = temps \ {JobOf(w)}
       ELSE Moved(w, "rename") /\ UNCHANGED temps
    /\ UNCHANGED file

Rename(w) ==
    /\ w.at = "rename"
    /\ temps' = temps \ {JobOf(w)}
    /\ \/ file' = JobOf(w) /\ Ended(w, "saved")
       \/ UNCHANGED file /\ Ended(w, "failed")

\* The task that waited for the thread reports, also when the thread panicked.
Report(w) ==
    /\ w.at = "done"
    /\ workers' = workers \ {w}
    /\ Dispatch(Completed(w)) /\ job' = KeepJob(export')
    /\ UNCHANGED <<button, closings, file, temps>>

Work(w) ==
    /\ Capture(w) \/ Compose(w) \/ Dialog(w) \/ Encode(w) \/ WriteTemporary(w) \/ CheckOnce(w) \/ Rename(w)
    /\ UNCHANGED <<export, job, cancelled, button, posted, closings>>

----------------------------------------
ExportInit ==
    /\ export = [last |-> 0, session |-> 0, request |-> 0, completed |-> 0]
    /\ job = NoJob /\ cancelled = {} /\ workers = {}
    /\ button = [generation |-> 0, open |-> FALSE, request |-> 0, pending |-> FALSE]
    /\ posted = <<>> /\ closings = {}
    /\ file = NoJob /\ temps = {}

ExportNext ==
    \/ OpenAnnotation \/ CloseAnnotation \/ ViewFails \/ StartExport \/ ShowSnapshot
    \/ \E session \in closings : TellClosed(session)
    \/ \E w \in workers : Work(w) \/ Report(w)

ExportSpec == ExportInit /\ [][ExportNext]_exportVars

----------------------------------------
(* Properties.                                                               *)

\* At most one export is at work that nobody cancelled, and it is the one the core waits
\* for: closing, failing and reopening views leave no dialog of an earlier session open.
OneExportAtWork ==
    \A w \in workers : w.at # "done" /\ ~Cancelled(w) =>
        job = JobOf(w) /\ JobOf(w) = <<export.session, export.request>>

\* The button that waits for its export gets it back: the export is at work, its answer is
\* being dispatched, or the snapshot that says so is on the way.
ButtonReturns ==
    button.pending =>
        \/ \E w \in workers : JobOf(w) = <<button.generation, button.request>>
        \/ \E i \in DOMAIN posted : posted[i].session = button.generation
                                    /\ posted[i].completed = button.request

\* One export at work, and it is the one of the state; the button that waits gets its answer.
ExportAccounted == OneExportAtWork /\ ButtonReturns
========================================
