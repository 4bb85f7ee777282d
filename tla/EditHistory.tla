------------------------------- MODULE EditHistory -------------------------------
(***************************************************************************)
(* What undo promises, whatever edits a document: it goes back over the     *)
(* documents the user left, newest first, and loses none of them.           *)
(***************************************************************************)
EXTENDS Sequences, Naturals

VARIABLES
    current,    \* the document the user has, without an operation under way
    past        \* the documents left for it, the oldest first

\* One or more operations end: each leaves the document it began with behind.
Edit ==
    /\ Len(past') > Len(past)
    /\ SubSeq(past', 1, Len(past) + 1) = Append(past, current)

\* The last document left is taken back.
Undo ==
    /\ Len(past') < Len(past)
    /\ past' = SubSeq(past, 1, Len(past'))
    /\ current' = past[Len(past') + 1]

Init == past = <<>>
Next == Edit \/ Undo
Spec == Init /\ [][Next]_<<current, past>>
========================================
