----------------------------- MODULE MCProgress -----------------------------
(***************************************************************************)
(* Small instances for TLC of what has to come to an end: changes of the    *)
(* settings, and the hand-over of the annotation picture between the UI and *)
(* the native renderer.  The two models share no state: a behaviour is one  *)
(* of a single part, and the fair steps of the other are not enabled in its *)
(* initial state.                                                           *)
(***************************************************************************)
EXTENDS MCSettingsPipeline, AnnotationRenderer

VARIABLE part       \* the part that runs

MCInit ==
    /\ part \in {"settings", "picture"}
    /\ Init /\ RendererInit
    /\ part = "settings" \/ koreanReady      \* one state of the settings for the picture

SettingsRun == part = "settings" /\ Next /\ UNCHANGED <<part, rendererVars>>
PictureRuns == part = "picture" /\ RendererNext /\ UNCHANGED <<part, vars>>

MCNext == SettingsRun \/ PictureRuns

MCSpec == MCInit /\ [][MCNext]_<<part, vars, rendererVars>> /\ Fairness /\ RendererFairness
========================================
