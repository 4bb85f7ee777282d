----------------------------- MODULE ProviderPage -----------------------------
(***************************************************************************)
(* The page of the translation services in the settings window              *)
(* (llm_settings.rs, llm_settings/connection.rs, llm_settings/detection.rs, *)
(* llm_settings/translation.rs): the drafts of the connections, the dialog  *)
(* for a request's configuration, the submission of a draft, the test of    *)
(* the models, and the choice of the translator.                            *)
(*                                                                          *)
(* A connection is an address and the value of one custom header.  All of   *)
(* this runs on the event loop; what is saved elsewhere is reported by a    *)
(* snapshot, and an operation that has ended counts as ended once the       *)
(* snapshot is shown.  A result of a query that was invalidated is ignored  *)
(* by its version and is left out.                                          *)
(***************************************************************************)
EXTENDS Integers, FiniteSets

CONSTANTS
    Services,     \* the services with a connection of their own
    MaxEdits,     \* bound: edits of addresses and headers; the values are as many
    MaxSaves,     \* bound: submissions and choices of the translator
    Models        \* bound: the models a test goes through

VARIABLES
    stored,       \* the connections in the settings
    page,         \* Page: the service shown, its draft and its pending header
    dormant,      \* Page.connections: the drafts of the other services
    dialog,       \* Page.request_snapshot
    awaiting,     \* Page.awaiting_apply
    applying,     \* the connection the core is saving
    translator,   \* the service that translates: stored, shown, being chosen
    probe,        \* the test of the models
    wanted,       \* what the user last confirmed for each service
    lapsed,       \* how a confirmed draft was taken for a clean one, if it was
    spent         \* bounds: edits, saves

pageVars == <<stored, page, dormant, dialog, awaiting, applying, translator, probe, wanted, lapsed,
              spent>>

Empty   == [at |-> "none"]   \* no record
Nobody  == "none"
Same    == -1     \* no pending change of the header
Removed == 0      \* no header; as a change: remove it
Plain   == "deepl"  \* a service without a connection

ASSUME ServicesAssumption == Plain \notin Services

Overlay(change, value) == IF change = Same THEN value ELSE change
Draft(of) == [address |-> of.address, header |-> of.header]
Seen(draft, service) ==
    [address |-> draft.address, header |-> Overlay(draft.header, stored[service].header)]
Clean(service) == [address |-> stored[service].address, header |-> Same]

\* refresh_dirty
Dirty == page.service # Plain /\ Draft(page) # Clean(page.service)

NoProbe == [open |-> FALSE, running |-> FALSE, left |-> 0, query |-> FALSE]
\* invalidate: the query is aborted and the run is forgotten; what the dialog shows stays.
Invalidated == [probe EXCEPT !.query = FALSE, !.left = 0]
Modal == dialog # Empty \/ probe.open

Spend(what) == spent[what] < (IF what = "edits" THEN MaxEdits ELSE MaxSaves)
               /\ spent' = [spent EXCEPT ![what] = @ + 1]

----------------------------------------
(* Drafts.                                                                   *)

EditAddress(value) ==
    /\ page.service # Plain /\ ~probe.open /\ Spend("edits")
    /\ page' = [page EXCEPT !.address = value]
    /\ wanted' = IF dialog # Empty THEN wanted
                 ELSE [wanted EXCEPT ![page.service].address = value]
    /\ probe' = Invalidated
    /\ UNCHANGED <<stored, dormant, dialog, awaiting, applying, translator, lapsed>>

\* llm_header_save and llm_header_remove, in the dialog.
EditHeader(value) ==
    /\ dialog # Empty /\ Spend("edits")
    /\ page' = [page EXCEPT !.header = value]
    /\ probe' = Invalidated
    /\ UNCHANGED <<stored, dormant, dialog, awaiting, applying, translator, wanted, lapsed>>

OpenDialog ==
    /\ page.service # Plain /\ ~Modal
    /\ dialog' = Draft(page)
    /\ UNCHANGED <<stored, page, dormant, awaiting, applying, translator, probe, wanted, lapsed, spent>>

CloseDialog(confirm) ==
    /\ dialog # Empty
    /\ dialog' = Empty
    /\ IF confirm
       THEN /\ wanted' = [wanted EXCEPT ![page.service] = Seen(page, page.service)]
            /\ UNCHANGED page
       ELSE /\ page' = [page EXCEPT !.address = dialog.address, !.header = dialog.header]
            /\ UNCHANGED wanted
    /\ probe' = Invalidated
    /\ UNCHANGED <<stored, dormant, awaiting, applying, translator, lapsed, spent>>

\* remember: what was not confirmed in the dialog is cancelled.
Remembered ==
    IF page.service = Plain THEN dormant
    ELSE [dormant EXCEPT ![page.service] =
            IF ~Dirty THEN Empty ELSE IF dialog # Empty THEN dialog ELSE Draft(page)]

Saving(service) == awaiting # Empty /\ awaiting.service = service

\* remember compares what the page shows with the settings.  When these agree it keeps nothing,
\* although the dialog covers a draft that differs, or a submission is about to replace the
\* settings.
Lapsing ==
    IF page.service = Plain \/ Dirty THEN lapsed
    ELSE IF dialog \notin {Empty, Clean(page.service)} THEN [lapsed EXCEPT ![page.service] = "dialog"]
    ELSE IF Saving(page.service) THEN [lapsed EXCEPT ![page.service] = "submission"]
    ELSE lapsed

\* connection::restore
Restored(service, drafts) ==
    IF drafts[service] = Empty THEN Clean(service) ELSE drafts[service]

\* load_service, from the drafts given.
Load(service, drafts) ==
    /\ page' = IF service = Plain THEN [service |-> Plain, address |-> 0, header |-> Same]
               ELSE [service |-> service, address |-> Restored(service, drafts).address,
                     header |-> Restored(service, drafts).header]
    /\ dormant' = IF service = Plain THEN drafts ELSE [drafts EXCEPT ![service] = Empty]
    /\ dialog' = Empty
    /\ probe' = NoProbe

\* Another service is selected, or the page is left and the same service loaded again.
ShowService(service) ==
    /\ Load(service, Remembered)
    /\ lapsed' = Lapsing
    /\ UNCHANGED <<stored, awaiting, applying, translator, wanted, spent>>

CancelConnection ==
    /\ page.service # Plain /\ ~Modal /\ ~Saving(page.service)
    /\ Load(page.service, [dormant EXCEPT ![page.service] = Empty])
    /\ wanted' = [wanted EXCEPT ![page.service] = stored[page.service]]
    /\ lapsed' = [lapsed EXCEPT ![page.service] = Nobody]
    /\ UNCHANGED <<stored, awaiting, applying, translator, spent>>

----------------------------------------
(* A submission.                                                             *)

SubmitConnection ==
    /\ awaiting = Empty /\ Dirty /\ ~Modal /\ Spend("saves")
    /\ awaiting' = [service |-> page.service, header |-> page.header]
    /\ applying' = page
    /\ probe' = Invalidated
    /\ UNCHANGED <<stored, page, dormant, dialog, translator, wanted, lapsed>>

\* Mutant: a saved connection takes all pending headers with it.
CarelessLess(header) == Same
\* completed: what was submitted and not edited since is no longer pending.
Less(header) == IF header = awaiting.header THEN Same ELSE header

Without(draft) == IF draft = Empty THEN Empty ELSE [draft EXCEPT !.header = Less(@)]

\* LlmConnectionApplied: sync and secure_completed of the snapshot.
ConnectionApplied ==
    /\ applying # Empty
    /\ stored' = [stored EXCEPT ![applying.service] =
                    [address |-> applying.address, header |-> Overlay(applying.header, @.header)]]
    /\ IF page.service = awaiting.service
       THEN /\ page' = [page EXCEPT !.header = Less(@)]
            /\ dialog' = Without(dialog)
            /\ UNCHANGED dormant
       ELSE /\ dormant' = [dormant EXCEPT ![awaiting.service] = Without(@)]
            /\ UNCHANGED <<page, dialog>>
    /\ applying' = Empty /\ awaiting' = Empty
    /\ UNCHANGED <<translator, probe, wanted, lapsed, spent>>

ConnectionRefused ==
    /\ applying # Empty
    /\ applying' = Empty /\ awaiting' = Empty
    /\ UNCHANGED <<stored, page, dormant, dialog, translator, probe, wanted, lapsed, spent>>

----------------------------------------
(* The choice of the translator, saved like any setting.                     *)

SelectTranslator(service) ==
    /\ translator.choosing = Nobody /\ service # translator.stored /\ ~Modal /\ Spend("saves")
    /\ translator' = [translator EXCEPT !.choosing = service]
    /\ UNCHANGED <<stored, page, dormant, dialog, awaiting, applying, probe, wanted, lapsed>>

\* The snapshot of the saved choice comes before the acknowledgement, and sync_provider
\* invalidates what the page has running.
TranslatorSaved ==
    /\ translator.choosing # Nobody
    /\ translator' = [stored |-> translator.choosing, choosing |-> Nobody]
    /\ probe' = Invalidated
    /\ UNCHANGED <<stored, page, dormant, dialog, awaiting, applying, wanted, lapsed, spent>>

TranslatorRefused ==
    /\ translator.choosing # Nobody
    /\ translator' = [translator EXCEPT !.choosing = Nobody]
    /\ UNCHANGED <<stored, page, dormant, dialog, awaiting, applying, probe, wanted, lapsed, spent>>

----------------------------------------
(* The test of the models, one query after the other.                        *)

OpenProbe ==
    /\ page.service # Plain /\ ~Modal /\ applying = Empty
    /\ probe' = [NoProbe EXCEPT !.open = TRUE]
    /\ UNCHANGED <<stored, page, dormant, dialog, awaiting, applying, translator, wanted, lapsed, spent>>

StartProbe ==
    /\ probe.open /\ ~probe.running
    /\ probe' = [probe EXCEPT !.running = TRUE, !.left = Models, !.query = TRUE]
    /\ UNCHANGED <<stored, page, dormant, dialog, awaiting, applying, translator, wanted, lapsed, spent>>

\* The answer of a query, also when it failed or timed out: a row, and the next model.
ProbeAnswered ==
    /\ probe.query
    /\ probe' = IF probe.left > 1 THEN [probe EXCEPT !.left = @ - 1]
                ELSE [probe EXCEPT !.left = 0, !.query = FALSE, !.running = FALSE]
    /\ UNCHANGED <<stored, page, dormant, dialog, awaiting, applying, translator, wanted, lapsed, spent>>

CloseProbe ==
    /\ probe.open
    /\ probe' = NoProbe
    /\ UNCHANGED <<stored, page, dormant, dialog, awaiting, applying, translator, wanted, lapsed, spent>>

----------------------------------------
PageInit ==
    /\ stored = [s \in Services |-> [address |-> 0, header |-> Removed]]
    /\ page = [service |-> Plain, address |-> 0, header |-> Same]
    /\ dormant = [s \in Services |-> Empty]
    /\ dialog = Empty /\ awaiting = Empty /\ applying = Empty
    /\ translator = [stored |-> Plain, choosing |-> Nobody]
    /\ probe = NoProbe
    /\ wanted = stored
    /\ lapsed = [s \in Services |-> Nobody]
    /\ spent = [edits |-> 0, saves |-> 0]

PageNext ==
    \/ OpenDialog \/ \E value \in 0..MaxEdits : EditAddress(value) \/ EditHeader(value)
    \/ \E confirm \in BOOLEAN : CloseDialog(confirm)
    \/ \E service \in Services \cup {Plain} : ShowService(service) \/ SelectTranslator(service)
    \/ CancelConnection \/ SubmitConnection \/ ConnectionApplied \/ ConnectionRefused
    \/ TranslatorSaved \/ TranslatorRefused
    \/ OpenProbe \/ StartProbe \/ ProbeAnswered \/ CloseProbe

PageSpec == PageInit /\ [][PageNext]_pageVars

----------------------------------------
(* Properties.                                                               *)

Kept(service) ==
    LET draft == IF page.service = service
                 THEN IF dialog # Empty THEN dialog ELSE Draft(page)
                 ELSE IF dormant[service] # Empty THEN dormant[service] ELSE Clean(service) IN
    Seen(draft, service) = wanted[service]

\* What the user confirmed for a service is in its settings or in a draft that still says so:
\* switching services, leaving the page, cancelling the dialog and a submission that ends
\* while its draft is edited further neither lose an edit nor bring one back.  (A draft that
\* remember took for a clean one is left aside.)
EditsKept == \A service \in Services : lapsed[service] = Nobody => Kept(service)

\* devdoc/features/settings-ergonomics.md:79 and the test at llm_settings.rs:2223: leaving the
\* page cancels what the dialog did not confirm and keeps the draft of the page.
LeavingKeepsDraft == \A service \in Services : lapsed[service] # "submission" => Kept(service)
========================================
