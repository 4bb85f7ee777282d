--------------------------- MODULE ClipboardCapture ---------------------------
(***************************************************************************)
(* The capture of a selection through the clipboard                         *)
(* (windows/clipboard_selection.rs): a thread preserves what the clipboard  *)
(* holds, sends Ctrl+C to the application in front, waits for the sequence  *)
(* number to change, reads the text and puts the old content back, beside   *)
(* the application that answers when it likes, the user who goes on         *)
(* copying, and the monitor of the clipboard history, which holds its       *)
(* reports back meanwhile (clipboard_history/transient.rs).                 *)
(*                                                                          *)
(* The clipboard belongs to all of them: between two calls of the thread    *)
(* anybody may write it, and only the sequence number tells.  Contents are  *)
(* numbers: 0 what the user had at first, n the n-th text the user copies.  *)
(* The 128 sequence numbers the history remembers are not exhausted here,   *)
(* and the cap on the size of the buffer is left out.                       *)
(***************************************************************************)
EXTENDS Integers, FiniteSets

CONSTANTS
    MaxCaptures,    \* bound: captures that fall back to the clipboard
    MaxCopies,      \* bound: texts the user copies
    MaxRefusals     \* bound: calls of the platform that fail

Selection == -1     \* the selected text, as Ctrl+C copies it
Unknown   == -2     \* no sequence number

VARIABLES
    clipboard,  \* [seq, holds]
    capture,    \* the thread: ClipboardSnapshot and ClipboardTransaction
    writes,     \* times the application in front may still write for a Ctrl+C it was sent
    updated,    \* a WM_CLIPBOARDUPDATE waits for the monitor; several count as one
    sample,     \* sequence number of what the monitor read and did not deliver
    buffer,     \* Transient: sequence numbers held back during the capture
    handing,    \* taken out of the buffer, not yet reported
    excluded,   \* Transient: sequence numbers the transaction claims
    recorded,   \* sequence numbers reported to the history
    users,      \* ghost: what the user last put on the clipboard
    restores,   \* ghost: sequence numbers of the restoring writes
    spoiled,    \* ghost: the user's content cannot be told from the selection, or is refused
    captureCounts   \* [captures, copies, refusals]

captureVars == <<clipboard, capture, writes, updated, sample, buffer, handing, excluded, recorded,
                 users, restores, spoiled, captureCounts>>
ghosts      == <<users, restores, spoiled>>
historySide == <<sample, buffer, handing, recorded>>

NoCapture == [step |-> "idle", tries |-> 0, before |-> 0, snapshot |-> 0, copied |-> Unknown,
              leaving |-> FALSE]

Working == capture.step # "idle"
Refusable == captureCounts.refusals < MaxRefusals
Refused   == captureCounts' = [captureCounts EXCEPT !.refusals = @ + 1]

Overwrite(content) ==
    /\ clipboard' = [seq |-> clipboard.seq + 1, holds |-> content]
    /\ updated' = TRUE

AtStep(step) == capture.step = step
ToStep(step) == capture' = [capture EXCEPT !.step = step]
\* An error returns early: the transaction is dropped and restores, unless it already is.
CaptureFails ==
    capture' = [capture EXCEPT
        !.step = IF @ = "verify" \/ capture.leaving THEN "leave" ELSE "check", !.leaving = TRUE]

----------------------------------------
(* The thread of a capture.                                                  *)

\* capture_on_sta_thread, once the keys are released: Transient::begin, then the first
\* reading of the sequence number and the content.
Preserve ==
    /\ AtStep("idle") /\ captureCounts.captures < MaxCaptures
    /\ capture' = [NoCapture EXCEPT !.step = "verify", !.tries = 1, !.before = clipboard.seq,
                               !.snapshot = clipboard.holds]
    /\ captureCounts' = [captureCounts EXCEPT !.captures = @ + 1]
    /\ UNCHANGED <<clipboard, writes, updated, historySide, excluded, ghosts>>

\* The snapshot captureCounts when the sequence number is still the same; three attempts.
Verify ==
    /\ AtStep("verify")
    /\ IF clipboard.seq = capture.before THEN ToStep("send")
       ELSE IF capture.tries < 3
            THEN capture' = [capture EXCEPT !.tries = @ + 1, !.before = clipboard.seq,
                                            !.snapshot = clipboard.holds]
            ELSE CaptureFails
    /\ UNCHANGED <<clipboard, writes, updated, historySide, excluded, ghosts, captureCounts>>

\* A format that cannot be copied cancels the capture before anything is sent.
VerifyFails ==
    /\ AtStep("verify") /\ Refusable /\ Refused /\ CaptureFails
    /\ UNCHANGED <<clipboard, writes, updated, historySide, excluded, ghosts>>

\* SendInput may insert a part of the keys only; the application may still copy then.
Send ==
    /\ AtStep("send")
    /\ \/ ToStep("wait") /\ UNCHANGED captureCounts
       \/ /\ Refusable /\ Refused
          /\ capture' = [capture EXCEPT !.step = "wait", !.leaving = TRUE]
    /\ writes' = writes + 2
    /\ UNCHANGED <<clipboard, updated, historySide, excluded, ghosts>>

\* Mutant: the copy that a failed SendInput still caused is not claimed.
ForgetfulWait ==
    /\ AtStep("wait")
    /\ IF clipboard.seq # capture.before /\ ~capture.leaving
       THEN /\ capture' = [capture EXCEPT !.step = "read", !.copied = clipboard.seq]
            /\ excluded' = excluded \cup {clipboard.seq}
       ELSE ToStep("leave") /\ UNCHANGED excluded
    /\ UNCHANGED <<clipboard, writes, updated, historySide, ghosts, captureCounts>>

\* wait_for_sequence_change returns the number of its last poll if it changed, or nothing at
\* the deadline; mark_copy claims it.
Wait ==
    /\ AtStep("wait")
    /\ IF clipboard.seq # capture.before
       THEN /\ capture' = [capture EXCEPT !.step = IF capture.leaving THEN "check" ELSE "read",
                                          !.copied = clipboard.seq]
            /\ excluded' = excluded \cup {clipboard.seq}
       ELSE ToStep("leave") /\ UNCHANGED excluded
    /\ UNCHANGED <<clipboard, writes, updated, historySide, ghosts, captureCounts>>

\* read_unicode_text: a text, none, or an error.
Read ==
    /\ AtStep("read")
    /\ \/ ToStep("check") /\ UNCHANGED captureCounts
       \/ Refusable /\ Refused /\ CaptureFails
    /\ UNCHANGED <<clipboard, writes, updated, historySide, excluded, ghosts>>

\* restore_action: somebody else wrote, or the content is still the copy.
Check ==
    /\ AtStep("check")
    /\ IF capture.copied = clipboard.seq THEN ToStep("set") ELSE ToStep("leave")
    /\ UNCHANGED <<clipboard, writes, updated, historySide, excluded, ghosts, captureCounts>>

\* OleSetClipboard.
Set ==
    /\ AtStep("set")
    /\ Overwrite(capture.snapshot)
    /\ ToStep("retarget")
    /\ restores' = restores \cup {clipboard'.seq}
    /\ UNCHANGED <<writes, historySide, excluded, users, spoiled, captureCounts>>

\* The clipboard cannot be opened: checked and tried again until the deadline.
SetRefused ==
    /\ AtStep("set") /\ Refusable /\ Refused
    /\ \/ ToStep("check") /\ UNCHANGED spoiled
       \/ CaptureFails /\ spoiled' = (spoiled \/ capture.leaving)
    /\ UNCHANGED <<clipboard, writes, updated, historySide, excluded, users, restores>>

\* The guard is retargeted to the sequence number after the write, which is claimed as well.
Retarget ==
    /\ AtStep("retarget")
    /\ capture' = [capture EXCEPT !.step = "flush", !.copied = clipboard.seq]
    /\ excluded' = excluded \cup {clipboard.seq}
    /\ UNCHANGED <<clipboard, writes, updated, historySide, ghosts, captureCounts>>

\* OleFlushClipboard; when it fails, the transaction restores again as it is dropped.
Flush ==
    /\ AtStep("flush")
    /\ \/ ToStep("leave") /\ UNCHANGED <<captureCounts, spoiled>>
       \/ Refusable /\ Refused /\ CaptureFails /\ spoiled' = (spoiled \/ capture.leaving)
    /\ UNCHANGED <<clipboard, writes, updated, historySide, excluded, users, restores>>

\* Transient is dropped after the transaction: what is not claimed is handed to the history.
Leave ==
    /\ AtStep("leave")
    /\ capture' = NoCapture
    /\ handing' = handing \cup (buffer \ excluded)
    /\ buffer' = {}
    /\ UNCHANGED <<clipboard, writes, updated, sample, excluded, recorded, ghosts, captureCounts>>

Thread == \/ Preserve \/ Verify \/ VerifyFails \/ Send \/ Wait \/ Read
          \/ Check \/ Set \/ SetRefused \/ Retarget \/ Flush \/ Leave

\* The handlers are called after the lock is released.
HandOver ==
    /\ handing # {}
    /\ recorded' = recorded \cup handing
    /\ handing' = {}
    /\ UNCHANGED <<clipboard, capture, writes, updated, sample, buffer, excluded, ghosts,
                   captureCounts>>

----------------------------------------
(* The others.                                                               *)

\* The application copies the selection, in one write or in two; a write that comes when the
\* thread no longer waits cannot be told from a copy of the user.
CopyLands ==
    /\ writes > 0
    /\ writes' = writes - 1
    /\ Overwrite(Selection)
    /\ spoiled' = (spoiled \/ ~AtStep("wait"))
    /\ UNCHANGED <<capture, historySide, excluded, users, restores, captureCounts>>

\* It has nothing selected, or nothing more to write.
CopyEnds ==
    /\ writes > 0 /\ writes' = 0
    /\ UNCHANGED <<clipboard, capture, updated, historySide, excluded, ghosts, captureCounts>>

\* The user copies.  Between the snapshot and the answer of the application the copy is taken
\* for the answer; between a check of the restoring and its write it goes unseen.
UserCopies ==
    /\ captureCounts.copies < MaxCopies
    /\ captureCounts' = [captureCounts EXCEPT !.copies = @ + 1]
    /\ Overwrite(captureCounts'.copies)
    /\ users' = captureCounts'.copies
    /\ spoiled' = (spoiled \/ capture.step \in {"send", "wait", "set", "retarget"})
    /\ UNCHANGED <<capture, writes, historySide, excluded, restores>>

\* The monitor reads the clipboard, which stays open meanwhile.
Sample ==
    /\ updated /\ sample = Unknown
    /\ updated' = FALSE
    /\ sample' = clipboard.seq
    /\ UNCHANGED <<clipboard, capture, writes, buffer, handing, excluded, recorded, ghosts,
                   captureCounts>>

\* deliver: claimed numbers are dropped, others wait for the end of a capture.
Deliver ==
    /\ sample # Unknown
    /\ sample' = Unknown
    /\ buffer' = IF Working /\ sample \notin excluded THEN buffer \cup {sample} ELSE buffer
    /\ recorded' = IF ~Working /\ sample \notin excluded THEN recorded \cup {sample} ELSE recorded
    /\ UNCHANGED <<clipboard, capture, writes, updated, handing, excluded, ghosts, captureCounts>>

CaptureInit ==
    /\ clipboard = [seq |-> 1, holds |-> 0]
    /\ capture = NoCapture
    /\ writes = 0
    /\ updated = TRUE   \* the monitor starts by reading what is there
    /\ sample = Unknown
    /\ buffer = {} /\ handing = {} /\ excluded = {} /\ recorded = {}
    /\ users = 0 /\ restores = {} /\ spoiled = FALSE
    /\ captureCounts = [captures |-> 0, copies |-> 0, refusals |-> 0]

CaptureNext == Thread \/ HandOver \/ CopyLands \/ CopyEnds \/ UserCopies \/ Sample \/ Deliver

CaptureSpec == CaptureInit /\ [][CaptureNext]_captureVars

----------------------------------------
(* Properties.                                                               *)

\* When no capture is at work, the clipboard holds what the user last put there, whichever
\* call failed on the way; but for what no guard can tell apart: a write of the application
\* after the wait, a copy of the user taken for it or made while the restoring writes.
ClipboardReturned == ~Working /\ ~spoiled => clipboard.holds = users

\* The history lists no number the transaction claimed and nothing it put back, and misses
\* nothing else: at rest, what the clipboard holds was reported or claimed.
HistoryExact ==
    /\ recorded \cap excluded = {}
    /\ ~spoiled => recorded \cap restores = {}
    /\ ~Working /\ ~updated /\ sample = Unknown /\ handing = {} =>
          clipboard.seq \in recorded \cup excluded

\* A capture gives the clipboard back as the user left it, and the history lists what the user
\* copied and nothing of the capture.
CaptureLeavesNoTrace == ClipboardReturned /\ HistoryExact

\* What the user copies after the copy was claimed is detected by its number and stays: the
\* restoring does not write over it (implementation-plan.md:583).
NewerContentWins ==
    [][restores' # restores /\ clipboard.seq # capture.copied
          => clipboard.holds = Selection]_captureVars
========================================
