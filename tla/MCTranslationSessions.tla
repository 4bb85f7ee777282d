----------------------- MODULE MCTranslationSessions -----------------------
(* Small instances of TranslationSessions: what the user does in each.        *)
EXTENDS TranslationSessions

PopupUsers == {{"hotkey", "pin", "close popup"}}
MainUsers  == {{"hotkey", "input", "close main", "toolbar", "popup", "close popup"},
               {"ocr", "ocr while annotating", "popup", "close popup"}}
GateUsers  == {{"hotkey", "ocr"}}
GhostUsers == {{"hotkey", "close popup"}}
========================================
