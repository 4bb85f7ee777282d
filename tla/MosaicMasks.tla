----------------------------- MODULE MosaicMasks -----------------------------
(***************************************************************************)
(* The masks of the annotation editor that show the screen through a mosaic *)
(* (lexift-ui annotation/mosaic_session.rs, mosaic_worker.rs): the user     *)
(* draws, deletes and undoes them, a thread samples the screen below them   *)
(* (windows/screen_capture.rs) and another one filters the samples.  A mask *)
(* is provisional until a sample of the regions asked for last arrives, and *)
(* is discarded, from the undo history as well, when none does.             *)
(*                                                                          *)
(* Data abstracted: a mask is its identity, a region is the mask it belongs *)
(* to, the document is its masks.  The screen below does not change, so a   *)
(* sample has new pixels when it has other regions.  Left out: moving and   *)
(* resizing, the parameters, the other kinds of objects, the windows that   *)
(* are excluded, the native renderer that takes over from the two threads.  *)
(***************************************************************************)
EXTENDS Integers, Sequences, FiniteSets

CONSTANTS
    MaxGestures,    \* bound: masks begun, and deletions of some or all of them
    MaxFailures     \* bound: samples that fail, and deadlines that pass

VARIABLES
    objects,    \* Session::objects
    undo,       \* Session::undo
    drawing,    \* the mask being drawn, or none
    mosaic,     \* State: regions, revision, floor, waiting, polling, pending, frame, effects
    dirty,      \* a render is scheduled
    sampler,    \* screen_capture.rs State: request, generation, frame, error
    sampling,   \* the request the capture thread works on
    serial,     \* of the frames with new pixels
    filter,     \* Mailbox: submitted, job, context, result, and what the thread works on
    covered,    \* ghost: masks a sample was taken below
    unconfirmed, \* ghost: masks deleted while they were provisional
    maskCounts  \* [gestures, failures]

maskVars == <<objects, undo, drawing, mosaic, dirty, sampler, sampling, serial, filter, covered,
              unconfirmed, maskCounts>>
document == <<objects, undo, drawing, dirty, unconfirmed, maskCounts>>

NoMask    == 0
NoRequest == [revision |-> 0, regions |-> {}]
NoFrame   == [revision |-> 0, serial |-> 0, regions |-> {}]
NoContent == [objects |-> {}, draft |-> NoMask]
NoTask    == [content |-> NoContent, serial |-> 0, regions |-> {}]
NoWorker  == [submitted |-> NoTask, job |-> NoTask, running |-> NoTask, context |-> NoContent,
              result |-> NoTask]

MaskContent == [objects |-> objects, draft |-> drawing]
Masks(content) == content.objects \cup ({content.draft} \ {NoMask})

MaskCount(what) == maskCounts' = [maskCounts EXCEPT ![what] = @ + 1]

----------------------------------------
(* The document.                                                             *)

\* Mutant: the history keeps the masks.
UndoUnchanged(ids) == {undo}

\* The numbers of a set in ascending order: the only member.
InOrder(numbers) == {s \in [1..Cardinality(numbers) -> numbers] :
                        \A i, j \in DOMAIN s : i < j => s[i] < s[j]}

\* discard_mosaics: the masks leave every snapshot, and the snapshots that no longer differ from
\* their successor leave the history.  The set has one member.
UndoWithout(ids) ==
    LET cleaned == [i \in DOMAIN undo |-> undo[i] \ ids]
        After(i) == IF i = Len(undo) THEN objects \ ids ELSE cleaned[i + 1]
        kept == {i \in DOMAIN undo : cleaned[i] # After(i)}
    IN  {[i \in DOMAIN s |-> cleaned[s[i]]] : s \in InOrder(kept)}

\* cancel_pending, with the gesture that is cancelled before.
Discard ==
    /\ objects' = objects \ mosaic.pending
    /\ undo' \in UndoWithout(mosaic.pending)
    /\ drawing' = NoMask

Rest == <<sampler, sampling, serial, filter, covered>>

BeginDrawing ==
    /\ drawing = NoMask /\ maskCounts.gestures < MaxGestures
    /\ MaskCount("gestures")
    /\ drawing' = maskCounts'.gestures
    /\ dirty' = TRUE
    /\ UNCHANGED <<objects, undo, mosaic, unconfirmed, Rest>>

\* stage: inserted on release, provisional until its region was sampled.
ReleaseMask ==
    /\ drawing # NoMask
    /\ objects' = objects \cup {drawing}
    /\ undo' = Append(undo, objects)
    /\ mosaic' = [mosaic EXCEPT !.pending = @ \cup {drawing}]
    /\ drawing' = NoMask
    /\ dirty' = TRUE
    /\ UNCHANGED <<unconfirmed, maskCounts, Rest>>

\* Escape, another tool, a pointer that is lost: the gesture and the provisional masks go.
Abandon ==
    /\ drawing # NoMask \/ mosaic.pending # {}
    /\ Discard
    /\ mosaic' = [mosaic EXCEPT !.pending = {}]
    /\ dirty' = TRUE
    /\ UNCHANGED <<unconfirmed, maskCounts, Rest>>

\* An undo during a gesture only cancels the gesture.
UndoMask ==
    /\ drawing # NoMask \/ undo # <<>>
    /\ drawing' = NoMask
    /\ IF drawing # NoMask THEN UNCHANGED <<objects, undo>>
       ELSE objects' = undo[Len(undo)] /\ undo' = SubSeq(undo, 1, Len(undo) - 1)
    /\ dirty' = TRUE
    /\ UNCHANGED <<mosaic, unconfirmed, maskCounts, Rest>>

\* delete_selected, clear_all.
Delete(ids) ==
    /\ ids # {}
    /\ maskCounts.gestures < MaxGestures /\ MaskCount("gestures")
    /\ objects' = objects \ ids
    /\ undo' = Append(undo, objects)
    /\ drawing' = NoMask
    /\ unconfirmed' = unconfirmed \cup (ids \cap mosaic.pending)
    /\ dirty' = TRUE
    /\ UNCHANGED <<mosaic, Rest>>

----------------------------------------
(* State::sync: the regions to sample, the timer that polls for samples.     *)

Differs(content) == Masks(content) # mosaic.regions

Synced(content) ==
    IF Masks(content) = {}
    THEN [mosaic EXCEPT !.regions = {}, !.polling = FALSE, !.waiting = FALSE, !.frame = NoFrame,
                        !.floor = mosaic.revision + 1, !.effects = NoTask]
    ELSE [mosaic EXCEPT !.regions = Masks(content), !.polling = TRUE,
                        !.revision = @ + (IF Differs(content) THEN 1 ELSE 0),
                        !.waiting = @ \/ Differs(content)]

\* request and clear of the port: a request keeps the frame of the one it replaces.
PortSynced(content) ==
    IF Masks(content) = {} /\ mosaic.regions = {} THEN sampler
    ELSE IF Masks(content) = {}
    THEN [request |-> NoRequest, generation |-> sampler.generation + 1, frame |-> NoFrame,
          error |-> FALSE]
    ELSE IF ~Differs(content) THEN sampler
    ELSE [sampler EXCEPT !.request = [revision |-> mosaic.revision + 1, regions |-> Masks(content)],
                         !.generation = @ + (IF sampler.request = NoRequest THEN 1 ELSE 0),
                         !.error = FALSE]

\* needs_submission: another document or another sample.
NeedsSubmission(job) == filter.submitted # job

\* The regions are synchronised, then the document is handed to the filter with the last sample.
Render ==
    /\ dirty /\ dirty' = FALSE
    /\ mosaic' = Synced(MaskContent) /\ sampler' = PortSynced(MaskContent)
    /\ LET job == [content |-> MaskContent, serial |-> mosaic.frame.serial,
                   regions |-> mosaic.frame.regions]
       IN  filter' = IF Masks(MaskContent) = {} THEN NoWorker
                     ELSE IF mosaic.frame = NoFrame \/ ~NeedsSubmission(job) THEN filter
                     ELSE [filter EXCEPT !.submitted = job, !.job = job, !.context = MaskContent]
    /\ UNCHANGED <<objects, undo, drawing, unconfirmed, maskCounts, sampling, serial, covered>>

\* accepts_capture: of this epoch, however old.
Accepted(m) == sampler.frame # NoFrame /\ sampler.frame.revision \in m.floor..m.revision

\* update_capture: only a sample of the regions asked for last confirms.
Updated(m) ==
    IF ~Accepted(m) THEN m
    ELSE IF sampler.frame.revision = m.revision
    THEN [m EXCEPT !.frame = sampler.frame, !.pending = {}, !.waiting = FALSE]
    ELSE [m EXCEPT !.frame = sampler.frame, !.waiting = @ \/ sampler.frame # m.frame]

\* Worker::latest.
Latest(m) == IF filter.result # NoTask /\ filter.result.content = filter.context
             THEN [m EXCEPT !.effects = filter.result] ELSE m

\* fail: what was not validated goes.
Failed(m) == [m EXCEPT !.pending = {}, !.waiting = FALSE]

\* The timer: synchronise, take the last sample and the last effects, give up after 5 s.
Poll ==
    /\ mosaic.polling
    /\ LET m == Synced(MaskContent)
           u == Updated(m)
           broken == m.frame = NoFrame /\ sampler.frame = NoFrame /\ PortSynced(MaskContent).error
           late == u.waiting /\ u.frame.revision # u.revision
       IN  IF Masks(MaskContent) = {}
           THEN /\ mosaic' = m /\ filter' = NoWorker
                /\ UNCHANGED <<document, covered>>
           ELSE /\ covered' = covered \cup (IF Accepted(m) THEN sampler.frame.regions ELSE {})
                /\ UNCHANGED <<unconfirmed, filter>>
                /\ \/ /\ ~broken
                      /\ mosaic' = Latest(u)
                      /\ dirty' = (dirty \/ Latest(u).frame # m.frame
                                         \/ Latest(u).effects # m.effects)
                      /\ UNCHANGED <<objects, undo, drawing, maskCounts>>
                   \/ /\ broken \/ (late /\ maskCounts.failures < MaxFailures)
                      /\ mosaic' = Latest(Failed(u))
                      /\ Discard
                      /\ dirty' = TRUE
                      /\ IF broken THEN UNCHANGED maskCounts ELSE MaskCount("failures")
    /\ sampler' = PortSynced(MaskContent)
    /\ UNCHANGED <<sampling, serial>>

----------------------------------------
(* The threads.                                                              *)

NotSampling == [request |-> NoRequest, generation |-> 0]

TakeSample ==
    /\ sampler.request # NoRequest /\ sampling = NotSampling
    /\ sampling' = [request |-> sampler.request, generation |-> sampler.generation]
    /\ UNCHANGED <<document, mosaic, sampler, serial, filter, covered>>

\* publish: a sample taken before the last clear is dropped, one of an older request is not; the
\* backend may have nothing yet.
SampleEnds ==
    /\ sampling # NotSampling /\ sampling' = NotSampling
    /\ LET request == sampling.request
           new == sampler.frame = NoFrame \/ sampler.frame.regions # request.regions
       IN  \/ UNCHANGED <<sampler, serial>>
           \/ /\ sampling.generation = sampler.generation
              /\ serial' = serial + (IF new THEN 1 ELSE 0)
              /\ sampler' = [sampler EXCEPT !.error = FALSE,
                                            !.frame = [revision |-> request.revision,
                                                       serial |-> serial',
                                                       regions |-> request.regions]]
    /\ UNCHANGED <<document, mosaic, filter, covered>>

SampleFails ==
    /\ sampling # NotSampling /\ sampling' = NotSampling
    /\ maskCounts.failures < MaxFailures /\ MaskCount("failures")
    /\ sampler' = [sampler EXCEPT !.error = @ \/ sampling.generation = sampler.generation]
    /\ UNCHANGED <<objects, undo, drawing, dirty, unconfirmed, mosaic, serial, filter, covered>>

Take ==
    /\ filter.job # NoTask /\ filter.running = NoTask
    /\ filter' = [filter EXCEPT !.running = filter.job, !.job = NoTask]
    /\ UNCHANGED <<document, mosaic, sampler, sampling, serial, covered>>

\* process: nothing comes of a job of another document, or of one whose masks were not sampled.
Filter ==
    /\ filter.running # NoTask
    /\ filter' = [filter EXCEPT !.running = NoTask,
                                !.result = IF /\ filter.running.content = filter.context
                                              /\ Masks(filter.running.content)
                                                    \subseteq filter.running.regions
                                           THEN filter.running ELSE @]
    /\ UNCHANGED <<document, mosaic, sampler, sampling, serial, covered>>

MaskInit ==
    /\ objects = {} /\ undo = <<>> /\ drawing = NoMask /\ dirty = FALSE
    /\ mosaic = [regions |-> {}, revision |-> 0, floor |-> 0, waiting |-> FALSE, polling |-> FALSE,
                 pending |-> {}, frame |-> NoFrame, effects |-> NoTask]
    /\ sampler = [request |-> NoRequest, generation |-> 0, frame |-> NoFrame, error |-> FALSE]
    /\ sampling = NotSampling /\ serial = 0
    /\ filter = NoWorker
    /\ covered = {} /\ unconfirmed = {}
    /\ maskCounts = [gestures |-> 0, failures |-> 0]

MaskUser == \/ BeginDrawing \/ ReleaseMask \/ Abandon \/ UndoMask
            \/ \E ids \in {objects} \cup {{m} : m \in objects} : Delete(ids)

MaskNext == MaskUser \/ Render \/ Poll \/ TakeSample \/ SampleEnds \/ SampleFails \/ Take \/ Filter

MaskSpec == MaskInit /\ [][MaskNext]_maskVars

----------------------------------------
(* Properties.                                                               *)

\* A mask that no sample was ever taken below is provisional as long as it is in the document or
\* the undo history, and goes with the others when the capture fails, whatever was drawn, undone
\* and sampled late in between; but for masks that are deleted while they are provisional: a
\* sample of the others confirms them in the history.
MasksAccounted ==
    objects \cup UNION {undo[i] : i \in DOMAIN undo}
        \subseteq covered \cup mosaic.pending \cup unconfirmed

\* The effects shown are of the document and the sample at hand, or something is under way that
\* brings them; without masks nothing is sampled.
EffectsFollow ==
    \/ dirty
    \/ objects = {} /\ drawing = NoMask /\ sampler.request = NoRequest /\ ~mosaic.polling
    \/ /\ mosaic.polling
       /\ sampler.request = [revision |-> mosaic.revision, regions |-> Masks(MaskContent)]
       /\ \/ mosaic.frame.revision # mosaic.revision
          \/ filter.job # NoTask \/ filter.running # NoTask
          \/ filter.result.content = MaskContent /\ filter.result.serial = mosaic.frame.serial
          \/ mosaic.effects.content = MaskContent /\ mosaic.effects.serial = mosaic.frame.serial

\* What is drawn, and kept in the undo history, was sampled or goes again, and its effects follow.
MasksTruthful == MasksAccounted /\ EffectsFollow
========================================
