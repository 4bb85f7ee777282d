------------------------------- MODULE OcrStore -------------------------------
(***************************************************************************)
(* What the resource directory of OCR promises, whatever fails and          *)
(* whenever the program dies: a set of files is usable only while it is     *)
(* complete and was not removed; a removal that was accepted is carried     *)
(* out, if need be by the next start; an installed set is lost only by a    *)
(* removal or by damage from outside.                                       *)
(***************************************************************************)
VARIABLE store  \* as status_for reports it

Init == store = "NotInstalled"

\* A verified set takes the place of none: a damaged one was moved away before.
Install == store = "NotInstalled" /\ store' = "Ready"

\* A set that fails its check is moved away.
Quarantine == store = "Damaged" /\ store' = "NotInstalled"

\* Something else changes the files.
Damage == store = "Ready" /\ store' = "Damaged"

\* From now on the set is not used, even by a process that has not loaded it.
Remove == store # "PendingRemoval" /\ store' = "PendingRemoval"

\* The files are gone before the mark that says so.
Removed == store = "PendingRemoval" /\ store' = "NotInstalled"

Next == Install \/ Quarantine \/ Damage \/ Remove \/ Removed

Spec == Init /\ [][Next]_store
========================================
