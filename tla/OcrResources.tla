----------------------------- MODULE OcrResources -----------------------------
(***************************************************************************)
(* The files OCR needs: download, verification, installation, removal       *)
(* (platform/ocr/resources.rs), the port that serialises them and caches    *)
(* what it verified (platform/ocr/mod.rs), the workers that call it         *)
(* (app/ocr.rs) and the resource state of the reducer (domain/ocr.rs).      *)
(*                                                                          *)
(* There are two sets, the base and the Korean extension.  A set is absent, *)
(* complete, or present but failing its check: damaged, which is also what  *)
(* a directory is while it is being removed, or altered, that is, damaged   *)
(* from outside with the lengths and times of its files kept.  The program  *)
(* may die between any two file operations; a call may fail.                *)
(*                                                                          *)
(* Of a recognition only what touches the resources is here.  Sizes,        *)
(* progress and error texts are left out, and so are links in place of the  *)
(* directories, which the code refuses to follow.                           *)
(***************************************************************************)
EXTENDS Integers, FiniteSets

CONSTANTS
    MaxRequests,    \* bound: resource operations and cancellations
    MaxShots,       \* bound: recognitions
    MaxCrashes,     \* bound: times the program dies
    MaxDamages      \* bound: times the files are damaged from outside

Kinds   == {"base", "korean"}
Absent  == [none |-> TRUE]
NoOp    == "none"

DownloadOps == {"Download", "DownloadKorean"}
RemoveOps   == {"Remove", "RemoveKorean"}
Operations  == {"Check"} \cup DownloadOps \cup RemoveOps

\* ResourceOperation::kind.
Kind(op) == IF op \in {"DownloadKorean", "RemoveKorean"} THEN "korean" ELSE "base"

VARIABLES
    folders,    \* the directory of each set
    marker,     \* the file pending-removal
    stage,      \* the directory staging: absent, or the set it is for and its content
    request,    \* ResourceState.request_id
    busy,       \* ResourceState.busy
    info,       \* ResourceState.info
    jobs,       \* workers of resource operations
    owner,      \* the job that holds download_lock, 0 when it is free
    verified,   \* the verification cache
    engine,     \* an inference engine is kept
    loaded,     \* RUNTIME_LOADED: a library of the base set is loaded
    shot,       \* OcrState.generation and phase
    shotJobs,   \* workers of Check and Recognize
    starting,   \* the removal left to this start is under way
    crashes, damages

disk     == <<folders, marker, stage>>
manager  == <<request, busy, info>>
port     == <<verified, engine, loaded>>
shots    == <<shot, shotJobs>>
faults   == <<crashes, damages>>
ocrVars  == <<disk, manager, jobs, owner, port, shots, starting, faults>>

----------------------------------------
\* status_for: what the port says of the two sets.
StatusOf(kind) ==
    IF marker THEN "PendingRemoval"
    ELSE CASE folders[kind] = "complete" -> "Ready"
           [] folders[kind] = "none"     -> "NotInstalled"
           [] OTHER                      -> "Damaged"

Status == [kind \in Kinds |-> StatusOf(kind)]

\* The metadata the cache is keyed by: paths, lengths and times, not the content.
Stamp == <<[kind \in Kinds |-> IF folders[kind] = "altered" THEN "complete" ELSE folders[kind]],
           marker>>

Fresh == verified # Absent /\ verified.stamp = Stamp

\* inspected: the cached answer while the metadata of no file changed.
Inspected == IF Fresh THEN verified.info ELSE Status

\* A verification that no longer holds also drops the engine.
Inspect ==
    /\ verified' = [stamp |-> Stamp, info |-> Inspected]
    /\ engine' = (engine /\ (verified = Absent \/ Fresh))

\* A recognition holds the lock from its inspection to the engine it opens.
Inferring == \E job \in shotJobs : job.op = "Recognize" /\ job.answer # Absent

\* Mutant: a recognition gives the lock back once it has inspected.
BriefLock == owner = 0

\* A port call runs when no other one holds the lock.
LockFree == owner = 0 /\ ~Inferring

----------------------------------------
(* The reducer and the workers of resource operations.                       *)

NewJob(id, op) == [id |-> id, op |-> op, step |-> "queued", answer |-> Absent]
Stale(job) == job.id # request

\* The window was last told this of the set.
Told(kind, status) == info # Absent /\ info[kind] = status

\* ManageResources: refused while another operation or a recognition is under way.
MayManage(op) ==
    /\ busy = NoOp
    /\ op # "Check" => shot.phase \notin {"Checking", "Capturing", "Recognizing"}
    /\ op \in DownloadOps => ~Told("base", "PendingRemoval")
    /\ op = "DownloadKorean" => Told("base", "Ready")

BeginOperation(op) ==
    /\ request' = request + 1
    /\ busy' = op
    /\ jobs' = jobs \cup {NewJob(request + 1, op)}

ManageResources(op) ==
    /\ request < MaxRequests
    /\ MayManage(op)
    /\ BeginOperation(op)
    /\ UNCHANGED <<disk, info, owner, port, shots, starting, faults>>

\* Mutant: the state of the operation is dropped and nothing is checked.
SilentCancelDownload ==
    /\ busy \in DownloadOps
    /\ request < MaxRequests
    /\ request' = request + 1
    /\ busy' = "Check"
    /\ UNCHANGED <<disk, info, jobs, owner, port, shots, starting, faults>>

\* CancelResourceDownload: the answer will be that of a check, which waits for the lock.
CancelDownload ==
    /\ busy \in DownloadOps
    /\ request < MaxRequests
    /\ BeginOperation("Check")
    /\ UNCHANGED <<disk, info, owner, port, shots, starting, faults>>

At(job, step) == job \in jobs /\ job.step = step
Go(job, step) == jobs' = (jobs \ {job}) \cup {[job EXCEPT !.step = step]}
Answered(job, answer) ==
    jobs' = (jobs \ {job}) \cup {[job EXCEPT !.step = "report", !.answer = answer]}

\* A worker that was cancelled before it began calls nothing.
SkipJob(job) ==
    /\ At(job, "queued")
    /\ Stale(job)
    /\ jobs' = jobs \ {job}
    /\ UNCHANGED <<disk, manager, owner, port, shots, starting, faults>>

\* It passed the test of its flag, and now waits for the lock.
AdmitJob(job) ==
    /\ At(job, "queued")
    /\ ~Stale(job)
    /\ Go(job, "admitted")
    /\ UNCHANGED <<disk, manager, owner, port, shots, starting, faults>>

\* The call takes the lock and drops what was verified: of the base set also the engine.
TakeLock(job) ==
    /\ At(job, "admitted")
    /\ job.op # "Check"
    /\ LockFree
    /\ owner' = job.id
    /\ verified' = Absent
    /\ engine' = (engine /\ Kind(job.op) = "korean")
    /\ Go(job, IF job.op \in DownloadOps THEN "start" ELSE IF job.op = "Remove" THEN "mark"
               ELSE "remove korean")
    /\ UNCHANGED <<disk, manager, loaded, shots, starting, faults>>

\* resources(), alone or at the end of an operation; a removal calls it before it gives
\* the lock back, which only another inspection could tell.
InspectFor(job) ==
    /\ \/ At(job, "admitted") /\ job.op = "Check" /\ LockFree
       \/ At(job, "inspect") /\ LockFree
    /\ Inspect
    /\ Answered(job, Inspected)
    /\ UNCHANGED <<disk, manager, owner, loaded, shots, starting, faults>>

Owns(job, step) == At(job, step) /\ owner = job.id

\* A file operation fails: what was staged goes, and the worker asks for the state.
Fail(job) ==
    /\ Owns(job, job.step)
    /\ owner' = 0
    /\ stage' = IF job.op \in DownloadOps /\ job.step # "start" THEN Absent ELSE stage
    /\ Go(job, IF Stale(job) THEN "report" ELSE "inspect")
    /\ UNCHANGED <<folders, marker, manager, port, shots, starting, faults>>

\* ResourceCompleted or ResourceFailed; only the current request is listened to, and a
\* cancelled worker reports nothing.  The state itself may be unreadable.
ReportJob(job) ==
    /\ At(job, "report")
    /\ jobs' = jobs \ {job}
    /\ IF Stale(job) THEN UNCHANGED <<busy, info>>
       ELSE busy' = NoOp /\ info' \in {job.answer, Absent}
    /\ UNCHANGED <<disk, request, owner, port, shots, starting, faults>>

----------------------------------------
(* download_from.                                                            *)

\* Refused (Fail) when a removal is pending or the Korean extension has no verified base.
StartDownload(job) ==
    /\ Owns(job, "start")
    /\ ~marker
    /\ job.op = "DownloadKorean" => folders["base"] = "complete"
    /\ Go(job, "fetch")
    /\ UNCHANGED <<disk, manager, owner, port, shots, starting, faults>>

\* fetch: the archive arrives and has its digest.  A cancelled transfer is dropped.
Fetch(job) ==
    /\ Owns(job, "fetch")
    /\ ~Stale(job)
    /\ Go(job, "unstage")
    /\ UNCHANGED <<disk, manager, owner, port, shots, starting, faults>>

\* What an interrupted download left in staging goes first.
Unstage(job) ==
    /\ Owns(job, "unstage")
    /\ stage' = [kind |-> Kind(job.op), content |-> "damaged"]
    /\ Go(job, "unpack")
    /\ UNCHANGED <<folders, marker, manager, owner, port, shots, starting, faults>>

\* Every file is written and synced; the whole is checked and may turn out damaged.
Unpack(job) ==
    /\ Owns(job, "unpack")
    /\ ~Stale(job)
    /\ \E content \in {"damaged", "complete"} : stage' = [stage EXCEPT !.content = content]
    /\ Go(job, "check")
    /\ UNCHANGED <<folders, marker, manager, owner, port, shots, starting, faults>>

\* The staged set is verified; one that is installed and complete is kept.
CheckStage(job) ==
    /\ Owns(job, "check")
    /\ stage.content = "complete"
    /\ ~Stale(job)
    /\ Go(job, IF folders[Kind(job.op)] = "none" THEN "install"
               ELSE IF folders[Kind(job.op)] = "complete" THEN "clean" ELSE "quarantine")
    /\ UNCHANGED <<disk, manager, owner, port, shots, starting, faults>>

\* The damaged set is moved away.
QuarantineFolder(job) ==
    /\ Owns(job, "quarantine")
    /\ folders' = [folders EXCEPT ![Kind(job.op)] = "none"]
    /\ Go(job, "install")
    /\ UNCHANGED <<marker, stage, manager, owner, port, shots, starting, faults>>

Install(job) ==
    /\ Owns(job, "install")
    /\ folders' = [folders EXCEPT ![Kind(job.op)] = stage.content]
    /\ stage' = Absent
    /\ Go(job, "clean")
    /\ UNCHANGED <<marker, manager, owner, port, shots, starting, faults>>

EndDownload(job) ==
    /\ Owns(job, "clean")
    /\ stage' = Absent
    /\ owner' = 0
    /\ Go(job, "inspect")
    /\ UNCHANGED <<folders, marker, manager, port, shots, starting, faults>>

----------------------------------------
(* remove and cleanup_pending.                                               *)

\* The mark is written to a temporary file, synced and renamed.  A set whose library is
\* loaded stays until the next start.
MarkRemoval(job) ==
    /\ Owns(job, "mark")
    /\ marker' = TRUE
    /\ owner' = IF loaded THEN 0 ELSE owner
    /\ Go(job, IF loaded THEN "inspect" ELSE "remove base")
    /\ UNCHANGED <<folders, stage, manager, port, shots, starting, faults>>

\* remove_dir_all: a directory is damaged before it is gone.
Deleted(kind) == [folders EXCEPT ![kind] = IF @ \in {"complete", "altered"} THEN "damaged" ELSE "none"]
Gone(kind)    == folders[kind] = "none"

RemoveBase(job) ==
    /\ Owns(job, "remove base")
    /\ folders' = Deleted("base")
    /\ Go(job, IF Gone("base") THEN "remove korean" ELSE "remove base")
    /\ UNCHANGED <<marker, stage, manager, owner, port, shots, starting, faults>>

\* remove_korean: after the base set of a removal, or alone.
RemoveKorean(job) ==
    /\ Owns(job, "remove korean")
    /\ folders' = Deleted("korean")
    /\ owner' = IF Gone("korean") /\ job.op = "RemoveKorean" THEN 0 ELSE owner
    /\ Go(job, IF ~Gone("korean") THEN "remove korean"
               ELSE IF job.op = "Remove" THEN "unmark" ELSE "inspect")
    /\ UNCHANGED <<marker, stage, manager, port, shots, starting, faults>>

Unmark(job) ==
    /\ Owns(job, "unmark")
    /\ marker' = FALSE
    /\ owner' = 0
    /\ Go(job, "inspect")
    /\ UNCHANGED <<folders, stage, manager, port, shots, starting, faults>>

\* Mutant: the mark goes first.
HastyStartupRemoval ==
    /\ starting
    /\ \/ marker' = FALSE /\ UNCHANGED <<folders, starting>>
       \/ ~marker /\ folders' = [kind \in Kinds |-> "none"] /\ starting' = FALSE /\ UNCHANGED marker
    /\ UNCHANGED <<stage, manager, jobs, owner, port, shots, faults>>

\* cleanup_pending before anything is loaded; it may fail and leave the mark.
StartupRemoval ==
    /\ starting
    /\ IF marker /\ ~Gone("base") THEN folders' = Deleted("base") /\ UNCHANGED <<marker, starting>>
       ELSE IF marker /\ ~Gone("korean")
       THEN folders' = Deleted("korean") /\ UNCHANGED <<marker, starting>>
       ELSE marker' = FALSE /\ starting' = FALSE /\ UNCHANGED folders
    /\ UNCHANGED <<stage, manager, jobs, owner, port, shots, faults>>

StartupRemovalFails ==
    /\ starting
    /\ starting' = FALSE
    /\ UNCHANGED <<disk, manager, jobs, owner, port, shots, faults>>

----------------------------------------
(* Recognitions.                                                             *)

ShotJob(op, generation, korean) ==
    [op |-> op, generation |-> generation, korean |-> korean, answer |-> Absent]

\* Requested: refused while a resource operation is under way.
RequestShot ==
    /\ shot.generation < MaxShots
    /\ busy = NoOp
    /\ shot.phase # "Capturing"
    /\ \E korean \in BOOLEAN :
        /\ shot' = [generation |-> shot.generation + 1, phase |-> "Checking", korean |-> korean]
        /\ shotJobs' = shotJobs \cup {ShotJob("Check", shot.generation + 1, korean)}
    /\ UNCHANGED <<disk, manager, jobs, owner, port, starting, faults>>

\* The worker of OcrCommand::Check.
InspectForShot(job) ==
    /\ job \in shotJobs
    /\ job.op = "Check" /\ job.answer = Absent
    /\ LockFree
    /\ Inspect
    /\ shotJobs' = (shotJobs \ {job}) \cup {[job EXCEPT !.answer = Inspected]}
    /\ UNCHANGED <<disk, manager, jobs, owner, loaded, shot, starting, faults>>

Enough(answer, korean) ==
    answer["base"] = "Ready" /\ (korean => answer["korean"] = "Ready")

\* Checked: on to the capture, or to the settings when something is missing.
Checked(job) ==
    /\ job \in shotJobs
    /\ job.op = "Check" /\ job.answer # Absent
    /\ shotJobs' = shotJobs \ {job}
    /\ IF job.generation = shot.generation /\ shot.phase = "Checking"
       THEN /\ shot' = [shot EXCEPT !.phase = IF Enough(job.answer, shot.korean)
                                              THEN "Capturing" ELSE "Idle"]
            /\ info' = IF busy = NoOp THEN job.answer ELSE info
       ELSE UNCHANGED <<shot, info>>
    /\ UNCHANGED <<disk, request, busy, jobs, owner, port, starting, faults>>

\* Selected or Cancelled.
EndCapture ==
    /\ shot.phase = "Capturing"
    /\ \/ /\ shot' = [shot EXCEPT !.phase = "Recognizing"]
          /\ shotJobs' = shotJobs \cup {ShotJob("Recognize", shot.generation, shot.korean)}
       \/ /\ shot.generation < MaxShots
          /\ shot' = [shot EXCEPT !.generation = @ + 1, !.phase = "Idle"]
          /\ UNCHANGED shotJobs
    /\ UNCHANGED <<disk, manager, jobs, owner, port, starting, faults>>

RecognitionEnds(job) ==
    /\ shotJobs' = shotJobs \ {job}
    /\ shot' = IF job.generation = shot.generation THEN [shot EXCEPT !.phase = "Idle"] ELSE shot

\* recognize takes the lock and inspects again, unless it was cancelled.
InspectForRecognition(job) ==
    /\ job \in shotJobs
    /\ job.op = "Recognize" /\ job.answer = Absent
    /\ LockFree
    /\ IF job.generation = shot.generation
       THEN /\ Inspect
            /\ shotJobs' = (shotJobs \ {job}) \cup {[job EXCEPT !.answer = Inspected]}
            /\ UNCHANGED <<loaded, shot>>
       ELSE RecognitionEnds(job) /\ UNCHANGED port
    /\ UNCHANGED <<disk, manager, jobs, owner, starting, faults>>

\* It goes on without another look at the files.  It ends here when it was cancelled, when
\* something is missing or when the library is not found; else it opens the engine if none
\* is kept, and the library counts as loaded even if that fails.
LoadEngine(job) ==
    /\ job \in shotJobs
    /\ job.op = "Recognize" /\ job.answer # Absent
    /\ \/ UNCHANGED port
       \/ /\ Enough(job.answer, job.korean)
          /\ loaded' = TRUE
          /\ engine' \in {engine, TRUE}
          /\ UNCHANGED verified
    /\ RecognitionEnds(job)
    /\ UNCHANGED <<disk, manager, jobs, owner, starting, faults>>

\* release, two minutes after the last recognition.
Release ==
    /\ LockFree
    /\ engine
    /\ verified' = Absent
    /\ engine' = FALSE
    /\ UNCHANGED <<disk, manager, jobs, owner, loaded, shots, starting, faults>>

----------------------------------------
(* The world.                                                                *)

\* The program dies; at the next start the file system is all there is.
Crash ==
    /\ crashes < MaxCrashes
    /\ crashes' = crashes + 1
    /\ starting' = marker
    /\ busy' = NoOp /\ info' = Absent
    /\ jobs' = {} /\ owner' = 0
    /\ verified' = Absent /\ engine' = FALSE /\ loaded' = FALSE
    /\ shot' = [shot EXCEPT !.phase = "Idle"] /\ shotJobs' = {}
    /\ UNCHANGED <<disk, request, damages>>

\* Something else writes into the directory of a set, at any moment: it takes no lock.
DamageFolder ==
    /\ damages < MaxDamages
    /\ damages' = damages + 1
    /\ \E kind \in Kinds, content \in {"damaged", "altered"} :
        /\ folders[kind] \in {"complete", "altered"}
        /\ folders' = [folders EXCEPT ![kind] = content]
    /\ UNCHANGED <<marker, stage, manager, jobs, owner, port, shots, starting, crashes>>

OcrInit ==
    /\ folders = [kind \in Kinds |-> "none"]
    /\ marker = FALSE
    /\ stage = Absent
    /\ request = 0 /\ busy = NoOp /\ info = Absent
    /\ jobs = {} /\ owner = 0
    /\ verified = Absent /\ engine = FALSE /\ loaded = FALSE
    /\ shot = [generation |-> 0, phase |-> "Idle", korean |-> FALSE]
    /\ shotJobs = {}
    /\ starting = FALSE
    /\ crashes = 0 /\ damages = 0

User ==
    \/ \E op \in Operations : ManageResources(op)
    \/ CancelDownload
    \/ RequestShot \/ EndCapture

Downloads(job) ==
    \/ StartDownload(job) \/ Fetch(job) \/ Unstage(job) \/ Unpack(job)
    \/ CheckStage(job) \/ QuarantineFolder(job) \/ Install(job) \/ EndDownload(job)

Removes(job) == MarkRemoval(job) \/ RemoveBase(job) \/ RemoveKorean(job) \/ Unmark(job)

Worker(job) ==
    \/ SkipJob(job) \/ AdmitJob(job) \/ TakeLock(job) \/ InspectFor(job) \/ ReportJob(job) \/ Fail(job)
    \/ Downloads(job) \/ Removes(job)

\* While the pending removal runs nothing else exists.
OcrNext ==
    \/ ~starting /\ (\/ User
                     \/ \E job \in jobs : Worker(job)
                     \/ \E job \in shotJobs :
                            \/ InspectForShot(job) \/ Checked(job)
                            \/ InspectForRecognition(job) \/ LoadEngine(job)
                     \/ Release)
    \/ StartupRemoval \/ StartupRemovalFails
    \/ Crash \/ DamageFolder

OcrSpec == OcrInit /\ [][OcrNext]_ocrVars

----------------------------------------
(* Properties.                                                               *)

\* The base set keeps its promise through failures, cancellations and crashes: it
\* implements OcrStore.  (The Korean extension is deleted without a mark.)
Store == INSTANCE OcrStore WITH store <- StatusOf("base")
StoreKept == Store!Spec

\* What a verification that called the set ready may still stand for: the complete set, or
\* damage from outside it cannot show, because the metadata stayed or because it came after
\* the inspection.
Vouched(kind) ==
    /\ verified.info[kind] = "Ready"
    /\ ~marker
    /\ \/ folders[kind] \in {"complete", "altered"}
       \/ folders[kind] = "damaged" /\ verified.stamp # Stamp

\* An engine starts only from sets a verification found complete, that the program itself has
\* not begun to remove or replace since, and that no damage had visibly changed when the
\* recognition inspected them: however late it runs, and even if it was cancelled.
EngineVerified ==
    [][engine' /\ ~engine =>
        /\ verified # Absent
        /\ \E j \in shotJobs \ shotJobs' :
            j.op = "Recognize" /\ Vouched("base") /\ (j.korean => Vouched("korean"))]_ocrVars

\* An operation the window shows as under way has the worker that will end it: neither a
\* cancellation nor a late worker leaves the window waiting.
BusyHasWorker == busy # NoOp => \E job \in jobs : job.id = request

\* At rest the window tells what is on disk, unless it was damaged from outside or could
\* not be read: a cancelled download that went through is not missed.
InfoTruthful ==
    (busy = NoOp /\ shotJobs = {} /\ jobs = {} /\ damages = 0 /\ info # Absent) => info = Status

\* What the window shows of the resources is true: what is under way ends, what ended is told.
ManagerTruthful == BusyHasWorker /\ InfoTruthful
========================================
