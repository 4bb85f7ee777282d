---------------------------- MODULE MCScreenshots ----------------------------
(* A small instance of Screenshots for TLC.                                  *)
EXTENDS Screenshots

Inputs == {"toggle", "close toolbar", "draw", "shot", "select", "drag", "copy", "pin", "cancel",
           "annotate", "hide", "output pin", "close pin"}

\* What concerns one screenshot or pin only is done with the first, the rest with both.
TwoShots ==
    [input \in Inputs |->
        CASE input \in {"drag", "copy", "output pin", "cancel", "close toolbar", "hide"} -> {1}
          [] input \in {"toggle", "draw"} -> {0, 1}
          [] OTHER -> 0..2]
========================================
