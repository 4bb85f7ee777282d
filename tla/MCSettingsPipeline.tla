------------------------- MODULE MCSettingsPipeline -------------------------
(* Small instances of SettingsPipeline.                                      *)
EXTENDS SettingsPipeline

\* One configuration file: every slot Off but the OCR shortcut, which differs
\* from the translation shortcut, and the enabled provider.
OneFile == {[x \in Slots |-> IF x \in {"ocrHotkey", "enabled"} THEN On ELSE Off]}

\* What a crash can leave between the write of a change the services refuse and its write-back:
\* the shortcuts are equal.
EqualFile == {[x \in Slots |-> IF x = "enabled" THEN On ELSE Off]}

TwoValues == {0, 1}
========================================
