---------------------------- MODULE PopupFeedback ----------------------------
(***************************************************************************)
(* What the buttons of a translation popup tell: that its source text or    *)
(* its translation was copied (domain/copy_feedback.rs), and which of them  *)
(* is read aloud (state.rs, windows/speech.rs).  Writers of the clipboard,  *)
(* the timers of the ticks and the speech thread report back while popups   *)
(* are reused, pinned, closed and translated again.                         *)
(*                                                                          *)
(* A thread that dispatches an event carries out its commands after the     *)
(* lock is released (outbox): the event loop and the listener of the OCR    *)
(* shortcut, which closes a popup under recognition, both write to the      *)
(* speech thread.  Left out: messages, languages, a missing clipboard or    *)
(* voice (requests then fail at once).                                      *)
(***************************************************************************)
EXTENDS Integers, Sequences, FiniteSets

CONSTANTS
    Texts,          \* not empty ones
    MaxPopups,      \* bound: popups
    MaxContents,    \* bound: new contents and translations
    MaxPopupCopies, \* bound: requests to copy
    MaxSpeeches     \* bound: requests to read aloud

VARIABLES
    popups,     \* AppState.popup_sessions, by number
    active,     \* active_popup_session
    outbox,     \* the commands a thread has still to carry out
    writers,    \* workers that write the clipboard and report
    timers,     \* ticks that expire
    mailbox,    \* WindowsSpeechPort: the channel of the speech thread
    voice,      \* what it reads aloud, and the events it is reporting
    written,    \* ghost: requests whose text reached the clipboard
    orphaned,   \* ghost: popups reused while they were read aloud, or closed by the shortcut
    popupCounts

speech    == <<mailbox, voice>>
copying   == <<writers, timers, written>>
popupVars == <<popups, active, outbox, writers, timers, mailbox, voice, written, orphaned,
               popupCounts>>

Buttons   == {"source", "translation"}
Listeners == {"event loop", "shortcut"}
Silence   == <<0, "none">>
NoText    == ""

Tally(what) == popupCounts' = [popupCounts EXCEPT ![what] = @ + 1]
Done(thread) == outbox[thread] = <<>>

Speak(id, b) == [popup |-> id, button |-> b, on |-> TRUE]
Hush(id)     == [popup |-> id, button |-> "source", on |-> FALSE]

----------------------------------------
(* CopyStatus.                                                               *)

NoCopy == [request |-> 0, pending |-> FALSE, completed |-> 0]

Voided(c) == [c EXCEPT !.pending = FALSE, !.completed = 0]
Reset(copy) == [b \in Buttons |-> Voided(copy[b])]
Begun(c) == [request |-> c.request + 1, pending |-> TRUE, completed |-> 0]

\* Mutant: whichever request is pending ends.
AnyFinished(c, request, success) ==
    IF ~c.pending THEN c
    ELSE [c EXCEPT !.pending = FALSE, !.completed = IF success THEN c.request ELSE 0]

Finished(c, request, success) ==
    IF ~c.pending \/ c.request # request THEN c
    ELSE [c EXCEPT !.pending = FALSE, !.completed = IF success THEN request ELSE 0]

Cleared(c, request) == IF c.completed = request THEN [c EXCEPT !.completed = 0] ELSE c

----------------------------------------
(* The contents of the popups.                                               *)

NewPopup == [pinned |-> FALSE, success |-> FALSE, task |-> FALSE,
             text |-> [b \in Buttons |-> NoText], copy |-> [b \in Buttons |-> NoCopy],
             context |-> [b \in Buttons |-> NoText], copied |-> [b \in Buttons |-> NoText],
             speaking |-> {}]

Content(popup, text, task) ==
    [popup EXCEPT !.success = FALSE, !.task = task, !.copy = Reset(@),
                  !.text = [source |-> text, translation |-> NoText]]

ReadAloud(id) == \/ voice.active[1] = id
                 \/ \E i \in DOMAIN mailbox : mailbox[i].popup = id
                 \/ \E t \in Listeners : \E i \in DOMAIN outbox[t] : outbox[t][i].popup = id

\* prepare_active_popup_session: by a capture, the toolbar, a recognition or a refused request.
\* The popup that is reused forgets that it is read aloud; the voice goes on.
Prepare(text, task) ==
    /\ popupCounts.contents < MaxContents
    /\ LET reused == active \in DOMAIN popups /\ ~popups[active].pinned
           id == IF reused THEN active ELSE popupCounts.popups + 1
           popup == IF reused THEN popups[id] ELSE NewPopup
       IN  /\ id <= MaxPopups
           /\ popups' = [i \in DOMAIN popups \cup {id} |->
                            IF i = id THEN [Content(popup, text, task) EXCEPT !.speaking = {}]
                            ELSE popups[i]]
           /\ active' = id
           /\ orphaned' = orphaned \cup (IF reused /\ ReadAloud(id) THEN {id} ELSE {})
           /\ popupCounts' = [popupCounts EXCEPT !.contents = @ + 1,
                                       !.popups = IF reused THEN @ ELSE @ + 1]
    /\ UNCHANGED <<outbox, copying, speech>>

\* request_popup_translation: of an edited text or with another language; an empty text is an
\* error that leaves the rest as it is.
Retranslate(id, text) ==
    /\ popupCounts.contents < MaxContents /\ Tally("contents")
    /\ popups' = [popups EXCEPT ![id] = IF text = NoText THEN [@ EXCEPT !.success = FALSE]
                                        ELSE Content(@, text, TRUE)]
    /\ UNCHANGED <<active, outbox, copying, speech, orphaned>>

TranslationShown(popup, text) ==
    [popup EXCEPT !.task = FALSE, !.success = TRUE, !.text["translation"] = text,
                  !.copy["translation"] = Voided(@)]

Translated(id, text) ==
    /\ popups[id].task
    /\ popups' = [popups EXCEPT ![id] = TranslationShown(@, text)]
    /\ UNCHANGED <<active, outbox, copying, speech, orphaned, popupCounts>>

TranslationFails(id) ==
    /\ popups[id].task
    /\ popups' = [popups EXCEPT ![id] = [@ EXCEPT !.task = FALSE, !.success = FALSE]]
    /\ UNCHANGED <<active, outbox, copying, speech, orphaned, popupCounts>>

WithoutPopup(id) == [i \in DOMAIN popups \ {id} |-> popups[i]]

Pin(id) ==
    /\ ~popups[id].pinned
    /\ popups' = [popups EXCEPT ![id].pinned = TRUE]
    /\ active' = IF active = id THEN 0 ELSE active
    /\ UNCHANGED <<outbox, copying, speech, orphaned, popupCounts>>

\* The popup that is unpinned replaces the active one.
Unpin(id) ==
    /\ popups[id].pinned
    /\ LET unpinned == [popups EXCEPT ![id].pinned = FALSE]
       IN  IF active \notin DOMAIN popups \ {id} \/ unpinned[active].pinned
           THEN popups' = unpinned /\ UNCHANGED outbox
           ELSE /\ popups' = [i \in DOMAIN popups \ {active} |-> unpinned[i]]
                /\ outbox' = [outbox EXCEPT !["event loop"] = <<Hush(active)>>]
    /\ active' = id
    /\ UNCHANGED <<copying, speech, orphaned, popupCounts>>

\* Mutant: the voice is not told.
QuietClose(thread, id) ==
    /\ popups' = WithoutPopup(id)
    /\ active' = IF active = id THEN 0 ELSE active
    /\ UNCHANGED outbox

\* close_popup_session.
CloseSession(thread, id) ==
    /\ popups' = WithoutPopup(id)
    /\ active' = IF active = id THEN 0 ELSE active
    /\ outbox' = [outbox EXCEPT ![thread] = <<Hush(id)>>]

Close(id) ==
    /\ CloseSession("event loop", id)
    /\ UNCHANGED <<copying, speech, orphaned, popupCounts>>

\* The OCR shortcut retires the popup it recognises for; the event loop may be about to tell the
\* voice to read that popup.
ShortcutCloses(id) ==
    /\ ~popups[id].pinned /\ Done("shortcut")
    /\ CloseSession("shortcut", id)
    /\ orphaned' = orphaned \cup (IF Done("event loop") THEN {} ELSE {id})
    /\ UNCHANGED <<copying, speech, popupCounts>>

----------------------------------------
(* Copies.                                                                   *)

\* The source text is copied as it is edited, the translation as it is.
Copy(id, b, text) ==
    /\ popupCounts.copies < MaxPopupCopies /\ Tally("copies")
    /\ b = "source" \/ (popups[id].success /\ text = popups[id].text[b])
    /\ ~popups[id].copy[b].pending
    /\ popups' = [popups EXCEPT ![id].copy[b] = Begun(@), ![id].copied[b] = text,
                                ![id].context[b] = popups[id].text[b]]
    /\ writers' = writers \cup {[popup |-> id, button |-> b, text |-> text, at |-> "write",
                                 request |-> popups[id].copy[b].request + 1]}
    /\ UNCHANGED <<active, outbox, timers, written, speech, orphaned>>

WriteText(w, success) ==
    /\ w.at = "write"
    /\ writers' = (writers \ {w}) \cup {[w EXCEPT !.at = IF success THEN "wrote" ELSE "failed"]}
    /\ written' = written \cup (IF success THEN {<<w.popup, w.button, w.request>>} ELSE {})
    /\ UNCHANGED <<popups, active, outbox, timers, speech, orphaned, popupCounts>>

\* PopupCopyFinished: a tick only when the text on the button is the one that was copied.
ReportCopy(w) ==
    /\ w.at # "write"
    /\ writers' = writers \ {w}
    /\ IF w.popup \notin DOMAIN popups THEN UNCHANGED <<popups, timers>>
       ELSE LET popup == popups[w.popup]
                valid == /\ popup.text[w.button] = popup.context[w.button]
                         /\ w.text = popup.copied[w.button]
                next == Finished(popup.copy[w.button], w.request, valid /\ w.at = "wrote")
            IN  /\ popups' = [popups EXCEPT ![w.popup].copy[w.button] = next]
                /\ timers' = timers \cup (IF next.completed = 0 THEN {}
                                          ELSE {<<w.popup, w.button, next.completed>>})
    /\ UNCHANGED <<active, outbox, written, speech, orphaned, popupCounts>>

\* The tick was shown for 1.5 s; the request it was for comes with the event.
Expire(timer) ==
    /\ timers' = timers \ {timer}
    /\ popups' = IF timer[1] \notin DOMAIN popups THEN popups
                 ELSE [popups EXCEPT ![timer[1]].copy[timer[2]] = Cleared(@, timer[3])]
    /\ UNCHANGED <<active, outbox, writers, written, speech, orphaned, popupCounts>>

----------------------------------------
(* Speech.                                                                   *)

\* request_popup_speech: another click on the button that speaks stops it.
Listen(id, b) ==
    /\ popupCounts.speeches < MaxSpeeches /\ Tally("speeches")
    /\ b = "source" \/ popups[id].success
    /\ IF b \in popups[id].speaking
       THEN /\ popups' = [popups EXCEPT ![id].speaking = {}]
            /\ outbox' = [outbox EXCEPT !["event loop"] = <<Hush(id)>>]
       ELSE /\ popups' = [i \in DOMAIN popups |->
                             [popups[i] EXCEPT !.speaking = IF i = id THEN {b} ELSE {}]]
            /\ outbox' = [outbox EXCEPT !["event loop"] = <<Speak(id, b)>>]
    /\ UNCHANGED <<active, copying, speech, orphaned>>

Post(thread) ==
    /\ ~Done(thread)
    /\ mailbox' = Append(mailbox, Head(outbox[thread]))
    /\ outbox' = [outbox EXCEPT ![thread] = Tail(@)]
    /\ UNCHANGED <<popups, active, copying, voice, orphaned, popupCounts>>

Said(what, on) == IF what = Silence THEN <<>> ELSE <<[what |-> what, on |-> on]>>

\* run_worker: one thing at a time, and an event for every one that starts, ends or fails.
Obey(success) ==
    /\ voice.events = <<>> /\ mailbox # <<>>
    /\ mailbox' = Tail(mailbox)
    /\ LET command == Head(mailbox)
           next == <<command.popup, command.button>>
       IN  voice' = IF command.on
                    THEN [active |-> IF success THEN next ELSE Silence,
                          events |-> Said(voice.active, FALSE) \o Said(next, success)]
                    ELSE IF voice.active[1] # command.popup THEN voice
                    ELSE [active |-> Silence, events |-> Said(voice.active, FALSE)]
    /\ UNCHANGED <<popups, active, outbox, copying, orphaned, popupCounts>>

SpeechEnds ==
    /\ voice.events = <<>> /\ voice.active # Silence
    /\ voice' = [active |-> Silence, events |-> Said(voice.active, FALSE)]
    /\ UNCHANGED <<popups, active, outbox, copying, mailbox, orphaned, popupCounts>>

\* PopupSpeechStateChanged.
Tell ==
    /\ voice.events # <<>>
    /\ voice' = [voice EXCEPT !.events = Tail(@)]
    /\ LET event == Head(voice.events)
           id == event.what[1]
       IN  popups' = IF id \notin DOMAIN popups THEN popups
                     ELSE [popups EXCEPT ![id].speaking = IF event.on THEN @ \cup {event.what[2]}
                                                          ELSE @ \ {event.what[2]}]
    /\ UNCHANGED <<active, outbox, copying, mailbox, orphaned, popupCounts>>

----------------------------------------
PopupInit ==
    /\ popups = <<>> /\ active = 0
    /\ outbox = [t \in Listeners |-> <<>>]
    /\ writers = {} /\ timers = {} /\ written = {}
    /\ mailbox = <<>> /\ voice = [active |-> Silence, events |-> <<>>]
    /\ orphaned = {}
    /\ popupCounts = [popups |-> 0, contents |-> 0, copies |-> 0, speeches |-> 0]

EventLoop ==
    /\ Done("event loop")
    /\ \E id \in DOMAIN popups :
          \/ \E text \in Texts \cup {NoText} : Retranslate(id, text)
          \/ Pin(id) \/ Unpin(id) \/ Close(id)
          \/ \E b \in Buttons : Listen(id, b) \/ \E text \in Texts : Copy(id, b, text)

Threads ==
    \/ \E text \in Texts \cup {NoText}, task \in BOOLEAN : Prepare(text, task)
    \/ \E id \in DOMAIN popups :
          ShortcutCloses(id) \/ TranslationFails(id) \/ \E text \in Texts : Translated(id, text)
    \/ \E w \in writers : ReportCopy(w) \/ \E success \in BOOLEAN : WriteText(w, success)
    \/ \E timer \in timers : Expire(timer)
    \/ \E t \in Listeners : Post(t)
    \/ \E success \in BOOLEAN : Obey(success)
    \/ SpeechEnds \/ Tell

PopupNext == EventLoop \/ Threads

PopupSpec == PopupInit /\ [][PopupNext]_popupVars

----------------------------------------
(* Properties.                                                               *)

\* A tick stands for a write that succeeded and for the content that is shown; a button that
\* waits has a writer that will report its request.
CopyShown(id, b, popup) ==
    LET c == popup.copy[b]
    IN  /\ c.completed # 0 => /\ <<id, b, c.completed>> \in written
                              /\ popup.text[b] = popup.context[b]
        /\ c.pending => \E w \in writers :
                            w.popup = id /\ w.button = b /\ w.request = c.request
CopiesShown == \A id \in DOMAIN popups, b \in Buttons : CopyShown(id, b, popups[id])

Quiet == mailbox = <<>> /\ voice.events = <<>> /\ \A t \in Listeners : Done(t)

\* Once requests and events are through, the button of what is read aloud shows it and no other
\* one does, and nothing is read of a popup that is gone; but for popups that were reused while
\* they were read aloud, or closed by the shortcut just when they were asked to speak.
SpeechShown ==
    Quiet => \A id \in (DOMAIN popups \cup {voice.active[1]}) \ (orphaned \cup {0}) :
                 id \in DOMAIN popups /\ popups[id].speaking
                     = {b \in Buttons : voice.active = <<id, b>>}

\* What a popup tells of its copies and of the voice is true.
FeedbackTruthful == CopiesShown /\ SpeechShown
========================================
