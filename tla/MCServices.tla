------------------------------ MODULE MCServices ------------------------------
(***************************************************************************)
(* Small instances of the services beside translation, checked side by      *)
(* side: they share no state, so a behaviour is one of a single part, the   *)
(* others keep their initial states.  The components with a proof are       *)
(* extended, the others instantiated.                                       *)
(***************************************************************************)
EXTENDS OcrResources, HotkeyRuntime, CredentialVault, AnnotationExport, ProviderPage,
        ClipboardCapture, PopupFeedback, MosaicMasks, ClipboardHistory, TLC

CONSTANTS
    a, b,               \* texts of the clipboard
    k1, k2, k3          \* the default shortcuts, of Keys

VARIABLE
    part                \* the part that runs

allVars     == <<part, historyVars, ocrVars, hotkeyVars, vaultVars, pageVars, exportVars,
                 captureVars, maskVars, popupVars>>

----------------------------------------
\* The list of the clipboard of the configuration has its file and the recording: no file, a file
\* with an entry, one that cannot be read.
OneEntry  == <<[id |-> 1, text |-> a]>>
SomeFiles == {<<>>, OneEntry, Unreadable}

\* Two windows with their copies and pastes.
Window == INSTANCE ClipboardHistory WITH
    ClipTexts <- {a, b}, Limits <- {1}, Files <- {OneEntry},
    MaxEntries <- 2, MaxRevisions <- 1, MaxSessions <- 2, MaxClicks <- 1, MaxJobs <- 1,
    UserActions <- {"window", "pin", "copy", "paste", "delete"}

\* One window whose rows move while they are copied and pasted.
Rows == INSTANCE ClipboardHistory WITH
    ClipTexts <- {a, b}, Limits <- {1}, Files <- {OneEntry},
    MaxEntries <- 2, MaxRevisions <- 2, MaxSessions <- 1, MaxClicks <- 1, MaxJobs <- 1,
    UserActions <- {"window", "pin", "copy", "paste", "delete"}

DefaultShortcuts == [translate |-> k1, ocr |-> k2, annotation |-> k3]

\* Beside the popup of the configuration, which is copied from: two that are read aloud.
Reading == INSTANCE PopupFeedback WITH
    Texts <- {"a"}, MaxPopups <- 2, MaxContents <- 2, MaxPopupCopies <- 0, MaxSpeeches <- 2

----------------------------------------
Init ==
    /\ part \in {"file", "window", "rows", "ocr", "hotkeys", "vault", "page", "export",
                "capture", "masks", "copying", "reading"}
    /\ IF part = "file" THEN HistoryInit ELSE Window!HistoryInit
    /\ part \in {"file", "window", "rows"} \/ enabled   \* one initial state for the others
    /\ OcrInit /\ HotkeyInit /\ VaultInit /\ PageInit /\ ExportInit /\ CaptureInit
    /\ MaskInit /\ PopupInit

FileRuns ==
    /\ part = "file" /\ HistoryNext
    /\ UNCHANGED <<part, ocrVars, hotkeyVars, vaultVars, pageVars, exportVars, captureVars,
                   maskVars, popupVars>>
WindowRuns ==
    /\ part = "window" /\ Window!HistoryNext
    /\ UNCHANGED <<part, ocrVars, hotkeyVars, vaultVars, pageVars, exportVars, captureVars,
                   maskVars, popupVars>>
RowsRun ==
    /\ part = "rows" /\ Rows!HistoryNext
    /\ UNCHANGED <<part, ocrVars, hotkeyVars, vaultVars, pageVars, exportVars, captureVars,
                   maskVars, popupVars>>
OcrRuns ==
    /\ part = "ocr" /\ OcrNext
    /\ UNCHANGED <<part, historyVars, hotkeyVars, vaultVars, pageVars, exportVars,
                   captureVars, maskVars, popupVars>>
HotkeysRun ==
    /\ part = "hotkeys" /\ HotkeyNext
    /\ UNCHANGED <<part, historyVars, ocrVars, vaultVars, pageVars, exportVars, captureVars,
                   maskVars, popupVars>>
VaultRuns ==
    /\ part = "vault" /\ VaultNext
    /\ UNCHANGED <<part, historyVars, ocrVars, hotkeyVars, pageVars, exportVars, captureVars,
                   maskVars, popupVars>>
PageRuns ==
    /\ part = "page" /\ PageNext
    /\ UNCHANGED <<part, historyVars, ocrVars, hotkeyVars, vaultVars, exportVars,
                   captureVars, maskVars, popupVars>>
ExportRuns ==
    /\ part = "export" /\ ExportNext
    /\ UNCHANGED <<part, historyVars, ocrVars, hotkeyVars, vaultVars, pageVars, captureVars,
                   maskVars, popupVars>>
CaptureRuns ==
    /\ part = "capture" /\ CaptureNext
    /\ UNCHANGED <<part, historyVars, ocrVars, hotkeyVars, vaultVars, pageVars, exportVars,
                   maskVars, popupVars>>
MasksRun ==
    /\ part = "masks" /\ MaskNext
    /\ UNCHANGED <<part, historyVars, ocrVars, hotkeyVars, vaultVars, pageVars, exportVars,
                   captureVars, popupVars>>
CopyingRuns ==
    /\ part = "copying" /\ PopupNext
    /\ UNCHANGED <<part, historyVars, ocrVars, hotkeyVars, vaultVars, pageVars, exportVars,
                   captureVars, maskVars>>
ReadingRuns ==
    /\ part = "reading" /\ Reading!PopupNext
    /\ UNCHANGED <<part, historyVars, ocrVars, hotkeyVars, vaultVars, pageVars, exportVars,
                   captureVars, maskVars>>
Next == \/ FileRuns \/ WindowRuns \/ RowsRun \/ OcrRuns \/ HotkeysRun \/ VaultRuns
        \/ PageRuns \/ ExportRuns \/ CaptureRuns \/ MasksRun \/ CopyingRuns \/ ReadingRuns

Spec == Init /\ [][Next]_allVars
========================================
