-------------------------------- MODULE MCEditing --------------------------------
(***************************************************************************)
(* Small instances for TLC of what a user edits: the settings, the          *)
(* annotations of a picture, and the picture the native renderer makes of   *)
(* them.  The models share no state, so they are checked side by side: a    *)
(* behaviour is one of a single part.                                       *)
(***************************************************************************)
EXTENDS MCSettingsPipeline, AnnotationDocument, AnnotationRenderer

VARIABLE part       \* the part that runs

\* Beside the settings of the configuration: those of a file whose shortcuts are equal.
Equal == INSTANCE SettingsPipeline WITH
    Fields <- {"theme", "hotkey", "ocrHotkey"}, CredentialKinds <- {"deepl"},
    LoadedSettings <- EqualFile

\* Beside the texts of the configuration: badges on a picture, and the eraser.
Badges == INSTANCE AnnotationDocument WITH
    Tools <- {"sequence"}, Crops <- {FALSE}, MaxIds <- 1, MaxUndo <- 2
Erasing == INSTANCE AnnotationDocument WITH
    Tools <- {"shape", "eraser"}, Crops <- {TRUE}, MaxIds <- 1, MaxUndo <- 2

\* Beside the edits of the configuration: a second session, two failures, and a desktop that
\* comes back to its first shade while windows and comparisons are not ready.
Reopened == INSTANCE AnnotationRenderer WITH
    RendererSessions <- 2, RendererEdits <- 1, RendererChanges <- 0, RendererFaults <- 1,
    RendererStalls <- 0
Faulty == INSTANCE AnnotationRenderer WITH
    RendererSessions <- 1, RendererEdits <- 1, RendererChanges <- 1, RendererFaults <- 2,
    RendererStalls <- 0
Restless == INSTANCE AnnotationRenderer WITH
    RendererSessions <- 1, RendererEdits <- 1, RendererChanges <- 2, RendererFaults <- 1,
    RendererStalls <- 1

----------------------------------------
MCInit ==
    /\ part \in {"settings", "equal", "texts", "badges", "erasing",
                 "redrawn", "reopened", "faulty", "restless"}
    /\ RendererInit
    /\ IF part = "equal" THEN Equal!Init ELSE Init
    /\ part \in {"settings", "equal"} \/ koreanReady     \* one state of the settings for the others
    /\ CASE part = "badges"  -> Badges!DocumentInit
         [] part = "erasing" -> Erasing!DocumentInit
         [] OTHER            -> DocumentInit

SettingsRun == part = "settings" /\ Next /\ UNCHANGED <<part, registry, rendererVars>>
EqualRun    == part = "equal" /\ Equal!Next /\ UNCHANGED <<part, registry, rendererVars>>
TextsRun    == part = "texts" /\ DocumentNext /\ UNCHANGED <<part, vars, rendererVars>>
BadgesRun   == part = "badges" /\ Badges!DocumentNext /\ UNCHANGED <<part, vars, rendererVars>>
ErasingRuns == part = "erasing" /\ Erasing!DocumentNext /\ UNCHANGED <<part, vars, rendererVars>>
PictureRuns ==
    /\ \/ part = "redrawn" /\ RendererNext
       \/ part = "reopened" /\ Reopened!RendererNext
       \/ part = "faulty" /\ Faulty!RendererNext
       \/ part = "restless" /\ Restless!RendererNext
    /\ UNCHANGED <<part, vars, registry>>

MCNext == SettingsRun \/ EqualRun \/ TextsRun \/ BadgesRun \/ ErasingRuns \/ PictureRuns

MCSpec == MCInit /\ [][MCNext]_<<part, vars, registry, rendererVars>>
========================================
