---------------------------- MODULE HotkeyRuntime ----------------------------
(***************************************************************************)
(* The three global shortcuts: the manager (runtime/hotkey_manager.rs), the *)
(* port with a listener thread for each of them (windows/hotkey.rs), the    *)
(* table of registered keys of the desktop, which other programs use too,   *)
(* and the file the next start reads.                                       *)
(*                                                                          *)
(* Changes of shortcuts are carried out one at a time (SettingsPipeline)    *)
(* and the start of the program is over before the first of them.  The     *)
(* program may stop or crash between any two steps; the desktop then frees  *)
(* what its threads registered.                                             *)
(***************************************************************************)
EXTENDS Naturals, Sequences, FiniteSets

CONSTANTS
    Keys,           \* the combinations of keys
    Defaults,       \* the shortcuts of a file that nobody changed
    MaxChanges,     \* bound: changes of shortcuts
    MaxStops,       \* bound: crashes and exits
    MaxStrangers    \* bound: registrations and releases of other programs

VARIABLES
    shortcutFile,   \* the shortcuts on disk
    shortcuts,      \* the shortcuts of AppState.settings
    current,        \* HotkeyState: the keys the manager took over
    listeners,      \* WindowsHotkeyPort: the keys of the listener threads
    owners,         \* the table of the desktop: who registered a key
    change,         \* the change or start that is being carried out
    counts          \* bounds: changes, stops, strangers

hotkeyVars == <<shortcutFile, shortcuts, current, listeners, owners, change, counts>>

Slots == {"translate", "ocr", "annotation"}
None  == "none"
Free  == "free"
Other == "other"
Idle  == [at |-> "idle"]
Off   == [at |-> "off"]

\* bootstrap registers translation first, then OCR, then the annotation.
StartOrder == <<"translate", "ocr", "annotation">>

Distinct(keys) == \A s, t \in Slots : s # t => keys[s] # keys[t]
Taken(slot, key) == \E other \in Slots \ {slot} : current[other] = key
Count(what) == counts' = [counts EXCEPT ![what] = @ + 1]

----------------------------------------
(* The table of the desktop.                                                 *)

StrangerTakes(key) ==
    /\ counts.strangers < MaxStrangers /\ owners[key] = Free
    /\ owners' = [owners EXCEPT ![key] = Other] /\ Count("strangers")
    /\ UNCHANGED <<shortcutFile, shortcuts, current, listeners, change>>

StrangerFrees(key) ==
    /\ counts.strangers < MaxStrangers /\ owners[key] = Other
    /\ owners' = [owners EXCEPT ![key] = Free] /\ Count("strangers")
    /\ UNCHANGED <<shortcutFile, shortcuts, current, listeners, change>>

----------------------------------------
(* The start and the end of the program.                                     *)

Stop ==
    /\ change # Off /\ counts.stops < MaxStops
    /\ change' = Off /\ Count("stops")
    /\ owners' = [k \in Keys |-> IF owners[k] \in Slots THEN Free ELSE owners[k]]
    /\ current' = [s \in Slots |-> None] /\ listeners' = [s \in Slots |-> None]
    /\ UNCHANGED <<shortcutFile, shortcuts>>

Launch ==
    /\ change = Off
    /\ shortcuts' = shortcutFile
    /\ change' = [at |-> "start", left |-> StartOrder]
    /\ UNCHANGED <<shortcutFile, current, listeners, owners, counts>>

\* start, start_ocr and start_annotation: a conflict or a failure is only logged.
StartSlot ==
    /\ change.at = "start"
    /\ LET slot == Head(change.left)  key == shortcuts[slot] IN
       /\ \/ /\ ~Taken(slot, key) /\ owners[key] = Free
             /\ owners' = [owners EXCEPT ![key] = slot]
             /\ listeners' = [listeners EXCEPT ![slot] = key]
             /\ current' = [current EXCEPT ![slot] = key]
          \/ UNCHANGED <<owners, listeners, current>>
       /\ change' = IF Len(change.left) = 1 THEN Idle ELSE [change EXCEPT !.left = Tail(@)]
    /\ UNCHANGED <<shortcutFile, shortcuts, counts>>

----------------------------------------
(* A change: the file is written, the services are asked, and the file is    *)
(* written back when they refuse.                                            *)

GoTo(at) == change' = [change EXCEPT !.at = at]

ChangeHotkey(slot, key) ==
    /\ change = Idle /\ counts.changes < MaxChanges /\ key # shortcuts[slot]
    /\ change' = [at |-> "write", slot |-> slot, key |-> key] /\ Count("changes")
    /\ UNCHANGED <<shortcutFile, shortcuts, current, listeners, owners>>

WriteFile ==
    /\ change.at = "write"
    /\ \/ shortcutFile' = [shortcuts EXCEPT ![change.slot] = change.key] /\ GoTo("apply")
       \/ UNCHANGED shortcutFile /\ change' = Idle
    /\ UNCHANGED <<shortcuts, current, listeners, owners, counts>>

\* RuntimeManager::apply and HotkeyRuntimeManager::apply up to the call of the port.
Apply ==
    /\ change.at = "apply"
    /\ GoTo(IF ~Distinct([shortcuts EXCEPT ![change.slot] = change.key]) THEN "undo"
            ELSE IF current[change.slot] = change.key THEN "commit"
            ELSE IF Taken(change.slot, change.key) THEN "undo"
            ELSE "register")
    /\ UNCHANGED <<shortcutFile, shortcuts, current, listeners, owners, counts>>

\* Mutant: the key in use is given up before the new one is accepted.
RegisterAfterRelease ==
    /\ change.at = "register"
    /\ LET slot == change.slot
           freed == [k \in Keys |-> IF owners[k] = slot THEN Free ELSE owners[k]] IN
       \/ freed[change.key] = Free /\ owners' = [freed EXCEPT ![change.key] = slot] /\ GoTo("swap")
       \/ owners' = freed /\ GoTo("undo")
    /\ UNCHANGED <<shortcutFile, shortcuts, current, listeners, counts>>

\* start_listener: the thread of the new key registers it and says whether it could; the
\* thread or the registration may also fail for reasons of the desktop's own.
Register ==
    /\ change.at = "register"
    /\ \/ /\ owners[change.key] = Free
          /\ owners' = [owners EXCEPT ![change.key] = change.slot] /\ GoTo("swap")
       \/ UNCHANGED owners /\ GoTo("undo")
    /\ UNCHANGED <<shortcutFile, shortcuts, current, listeners, counts>>

\* The new listener takes the place of the old one, which is shut down and joined.
Swap ==
    /\ change.at = "swap"
    /\ owners' = [k \in Keys |-> IF k = listeners[change.slot] THEN Free ELSE owners[k]]
    /\ listeners' = [listeners EXCEPT ![change.slot] = change.key]
    /\ GoTo("commit")
    /\ UNCHANGED <<shortcutFile, shortcuts, current, counts>>

Commit ==
    /\ change.at = "commit"
    /\ current' = [current EXCEPT ![change.slot] = change.key]
    /\ shortcuts' = [shortcuts EXCEPT ![change.slot] = change.key]
    /\ change' = Idle
    /\ UNCHANGED <<shortcutFile, listeners, owners, counts>>

\* The refused change is taken back; a failure of that write is only logged.
Undo ==
    /\ change.at = "undo"
    /\ shortcutFile' \in {shortcuts, shortcutFile}
    /\ change' = Idle
    /\ UNCHANGED <<shortcuts, current, listeners, owners, counts>>

----------------------------------------
HotkeyInit ==
    /\ shortcutFile = Defaults /\ shortcuts = Defaults
    /\ current = [s \in Slots |-> None] /\ listeners = [s \in Slots |-> None]
    /\ owners = [k \in Keys |-> Free]
    /\ change = Off
    /\ counts = [changes |-> 0, stops |-> 0, strangers |-> 0]

Program == Launch \/ StartSlot \/ WriteFile \/ Apply \/ Register \/ Swap \/ Commit \/ Undo

HotkeyNext ==
    \/ Program \/ Stop
    \/ \E key \in Keys : StrangerTakes(key) \/ StrangerFrees(key)
    \/ \E slot \in Slots, key \in Keys : ChangeHotkey(slot, key)

HotkeySpec == HotkeyInit /\ [][HotkeyNext]_hotkeyVars

----------------------------------------
(* Properties.                                                               *)

\* A shortcut the manager holds works: some key of the slot is registered at every moment of
\* a replacement, and between changes it is the key the settings show and no other, whatever
\* other programs take, whatever write fails and whatever file the start had to read.
ShortcutServed ==
    \A slot \in Slots : current[slot] # None =>
        LET mine == {k \in Keys : owners[k] = slot} IN
        /\ mine # {}
        /\ change = Idle => mine = {shortcuts[slot]} /\ listeners[slot] = shortcuts[slot]
========================================
