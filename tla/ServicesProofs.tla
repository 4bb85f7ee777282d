---------------------------- MODULE ServicesProofs ----------------------------
(***************************************************************************)
(* Proofs for seven services that share nothing: that a shortcut the       *)
(* manager holds works at every moment, that the secrets and the references *)
(* to them change together or not at all, that at most one export is at     *)
(* work that nobody cancelled, that the page of the translation services    *)
(* keeps what was confirmed, that the masks of the annotation editor stand  *)
(* for samples of the screen, that a popup tells the truth of its copies    *)
(* and of the voice, and that the resources of the recognition implement    *)
(* OcrStore, start an engine from verified sets only and are shown as they  *)
(* are.  All for every value of the constants and any number of operations  *)
(* and failures.                                                            *)
(***************************************************************************)
EXTENDS HotkeyRuntime, CredentialVault, AnnotationExport, ProviderPage, MosaicMasks, PopupFeedback,
        OcrResources, FiniteSetTheorems, SequenceTheorems, TLAPS

----------------------------------------
(* HotkeyRuntime: the single shortcuts, their listeners and their keys.      *)

Keyed == Keys \cup {None}

Changing ==
    change \in [at : {"write", "apply", "register", "swap", "commit", "undo"},
                slot : Slots, key : Keys]
Starting == change \in [at : {"start"}, left : Seq(Slots)] /\ change.left # <<>>

HotkeyTypeOK ==
    /\ shortcutFile \in [Slots -> Keys] /\ shortcuts \in [Slots -> Keys]
    /\ current \in [Slots -> Keyed] /\ listeners \in [Slots -> Keyed]
    /\ owners \in [Keys -> Slots \cup {Free, Other}]
    /\ change = Idle \/ change = Off \/ Starting \/ Changing

\* The registered key a replacement has before its listener is taken over.
Provisional(slot, key) == change.at = "swap" /\ change.slot = slot /\ change.key = key

\* The desktop gives a key to a slot exactly when a listener of the slot waits for it.
Owned ==
    \A slot \in Slots, key \in Keys :
        owners[key] = slot <=> key = listeners[slot] \/ Provisional(slot, key)

\* What the manager holds is what its listener waits for, but between the two steps of a swap.
Held ==
    \A slot \in Slots : current[slot] # None =>
        /\ current[slot] = shortcuts[slot]
        /\ \/ listeners[slot] = current[slot]
           \/ change.at = "commit" /\ change.slot = slot

Swapping ==
    /\ change.at = "swap" => listeners[change.slot] # change.key
    /\ change.at = "commit" => listeners[change.slot] = change.key

\* A slot that is still to be started has nothing, and none has while the program is off.
Unstarted ==
    /\ change.at = "start" =>
          /\ \A i, j \in 1..Len(change.left) : change.left[i] = change.left[j] => i = j
          /\ \A i \in 1..Len(change.left) :
                current[change.left[i]] = None /\ listeners[change.left[i]] = None
    /\ change.at = "off" => \A slot \in Slots : current[slot] = None /\ listeners[slot] = None

HotkeyInv == HotkeyTypeOK /\ Owned /\ Held /\ Swapping /\ Unstarted

----------------------------------------
LEMMA HotkeyInitProof ==
    ASSUME Defaults \in [Slots -> Keys], None \notin Keys, HotkeyInit
    PROVE  HotkeyInv
  BY DEF HotkeyInit, Off, HotkeyTypeOK, Keyed, Owned, Provisional, Slots, Free, HotkeyInv, Held,
     Swapping, Unstarted

LEMMA StrangerProof ==
    ASSUME HotkeyInv, NEW key \in Keys, StrangerTakes(key) \/ StrangerFrees(key)
    PROVE  HotkeyInv'
<1> USE DEF HotkeyInv, StrangerTakes, StrangerFrees
<1>1. PICK to \in {Free, Other} : owners' = [owners EXCEPT ![key] = to] OBVIOUS
<1>2. /\ owners[key] \in {Free, Other}
      /\ UNCHANGED <<shortcutFile, shortcuts, current, listeners, change>>
    OBVIOUS
<1>3. HotkeyTypeOK' BY <1>1, <1>2 DEF HotkeyTypeOK, Starting, Changing
<1>4. Owned' BY <1>1, <1>2 DEF HotkeyTypeOK, Owned, Provisional, Slots, Free, Other
<1> QED BY <1>2, <1>3, <1>4 DEF Held, Swapping, Unstarted

LEMMA StopProof == ASSUME None \notin Keys, HotkeyInv, Stop PROVE HotkeyInv'
<1> USE DEF HotkeyInv, Stop
<1>1. change'.at = "off" BY DEF Off
<1>2. HotkeyTypeOK' BY DEF HotkeyTypeOK, Keyed
<1>3. Owned' BY <1>1 DEF HotkeyTypeOK, Owned, Provisional, Slots, Free
<1> QED BY <1>1, <1>2, <1>3 DEF Held, Swapping, Unstarted

LEMMA LaunchProof == ASSUME HotkeyInv, Launch PROVE HotkeyInv'
<1> USE DEF HotkeyInv, Launch
<1>1. change.at = "off" /\ change'.at = "start" /\ change'.left = StartOrder BY DEF Off
<1>2. StartOrder \in Seq(Slots) /\ StartOrder # <<>> /\ Len(StartOrder) = 3 BY DEF StartOrder, Slots
<1>3. \A i, j \in 1..3 : StartOrder[i] = StartOrder[j] => i = j BY DEF StartOrder
<1>4. \A i \in 1..3 : StartOrder[i] \in Slots
    <2>1. StartOrder[1] \in Slots /\ StartOrder[2] \in Slots /\ StartOrder[3] \in Slots
        BY DEF StartOrder, Slots
    <2>2. \A i \in 1..3 : i = 1 \/ i = 2 \/ i = 3 OBVIOUS
    <2> HIDE DEF HotkeyInv, Launch
    <2> QED BY <2>1, <2>2
<1>5. HotkeyTypeOK' BY <1>2 DEF HotkeyTypeOK, Starting
<1>6. Unstarted'
    <2>1. \A i \in 1..3 : current[StartOrder[i]] = None /\ listeners[StartOrder[i]] = None
        BY <1>1, <1>4 DEF Unstarted
    <2>2. UNCHANGED <<current, listeners>> /\ change'.at # "off" BY <1>1
    <2> HIDE DEF Launch
    <2> QED BY <2>1, <2>2, <1>1, <1>2, <1>3 DEF Unstarted
<1> QED BY <1>1, <1>5, <1>6 DEF Owned, Provisional, Held, Swapping, Unstarted

LEMMA TailOfLonger ==
    ASSUME NEW s \in Seq(Slots), s # <<>>, Len(s) # 1
    PROVE  Tail(s) \in Seq(Slots) /\ Tail(s) # <<>>
<1>1. Len(s) \in Nat /\ Len(s) # 0 OBVIOUS
<1>2. \A n \in Nat : n # 0 /\ n # 1 => n > 1 /\ n - 1 \in Nat /\ n - 1 # 0 OBVIOUS
<1>3. Len(s) > 1 /\ Len(s) - 1 \in Nat /\ Len(s) - 1 # 0 BY <1>1, <1>2, Zenon
<1>4. Tail(s) \in Seq(Slots) /\ Len(Tail(s)) = Len(s) - 1 OBVIOUS
<1>5. Len(<<>>) = 0 OBVIOUS
<1> QED BY <1>3, <1>4, <1>5, Zenon

LEMMA StartSlotProof == ASSUME None \notin Keys, HotkeyInv, StartSlot PROVE HotkeyInv'
<1> USE DEF HotkeyInv, StartSlot
<1> DEFINE slot == Head(change.left)  key == shortcuts[slot]
<1>0. Starting /\ change.at = "start" BY DEF HotkeyTypeOK, Idle, Off, Changing
<1>1. /\ change.left \in Seq(Slots) /\ Len(change.left) \in Nat /\ Len(change.left) > 0
      /\ slot = change.left[1] /\ slot \in Slots /\ key \in Keys
    BY <1>0 DEF Starting, HotkeyTypeOK
<1>2. current[slot] = None /\ listeners[slot] = None BY <1>0, <1>1 DEF Unstarted
<1>3. ASSUME Len(change.left) # 1
      PROVE  /\ change'.at = "start" /\ change'.left = Tail(change.left)
             /\ change' \in [at : {"start"}, left : Seq(Slots)] /\ change'.left # <<>>
  BY <1>0, <1>1, <1>3, TailOfLonger DEF Starting
<1>4. Len(change.left) = 1 => change' = Idle /\ change'.at = "idle" BY DEF Idle
<1>5. change'.at \in {"start", "idle"} BY <1>3, <1>4
<1>6. \/ /\ owners[key] = Free /\ owners' = [owners EXCEPT ![key] = slot]
         /\ listeners' = [listeners EXCEPT ![slot] = key]
         /\ current' = [current EXCEPT ![slot] = key]
      \/ UNCHANGED <<owners, listeners, current>>
    OBVIOUS
<1>7. UNCHANGED <<shortcutFile, shortcuts, counts>> OBVIOUS
<1>8. change'.at = "start" =>
          /\ Len(change'.left) = Len(change.left) - 1
          /\ \A i \in 1..Len(change'.left) : change'.left[i] = change.left[i + 1]
    BY <1>1, <1>3, <1>4
<1> HIDE DEF slot, key
<1>9. HotkeyTypeOK' BY SMTT(30), <1>1, <1>3, <1>4, <1>6, <1>7 DEF Starting, HotkeyTypeOK, Keyed
<1>10. Owned'
    <2> SUFFICES ASSUME NEW s \in Slots, NEW k \in Keys
                 PROVE  owners'[k] = s <=> k = listeners'[s]
        BY <1>5 DEF Owned, Provisional
    <2>1. owners[k] = s <=> k = listeners[s] BY <1>0 DEF Owned, Provisional
    <2> QED BY <2>1, <1>1, <1>2, <1>6 DEF HotkeyTypeOK, Slots, Free
<1>11. Held'
    <2> SUFFICES ASSUME NEW s \in Slots, current'[s] # None
                 PROVE  current'[s] = shortcuts'[s] /\ listeners'[s] = current'[s]
        BY DEF Held
    <2>1. current[s] # None => current[s] = shortcuts[s] /\ listeners[s] = current[s]
        BY <1>0 DEF Held
    <2> QED BY <2>1, <1>1, <1>6, <1>7 DEF HotkeyTypeOK, key
<1>12. Unstarted'
    <2> SUFFICES ASSUME change'.at = "start"
                 PROVE  Unstarted'
        BY <1>5 DEF Unstarted
    <2>1. \A i \in 1..Len(change'.left) : i + 1 \in 1..Len(change.left) /\ i + 1 # 1 BY <1>1, <1>8
    <2>2. \A i \in 1..Len(change'.left) : change'.left[i] # slot /\ change'.left[i] \in Slots
        BY SMTT(30), <2>1, <1>0, <1>1, <1>8 DEF Unstarted
    <2>3. \A i \in 1..Len(change'.left) :
             current'[change'.left[i]] = None /\ listeners'[change'.left[i]] = None
        <3> SUFFICES ASSUME NEW i \in 1..Len(change'.left)
                     PROVE  current'[change'.left[i]] = None /\ listeners'[change'.left[i]] = None
            OBVIOUS
        <3>1. current[change'.left[i]] = None /\ listeners[change'.left[i]] = None
            BY <2>1, <1>0, <1>8 DEF Unstarted
        <3> QED BY <3>1, <2>2, <1>1, <1>6 DEF HotkeyTypeOK
    <2>4. \A i, j \in 1..Len(change'.left) : change'.left[i] = change'.left[j] => i = j
        BY <2>1, <1>0, <1>8 DEF Unstarted
    <2> QED BY <2>3, <2>4 DEF Unstarted
<1> QED BY <1>5, <1>9, <1>10, <1>11, <1>12 DEF Swapping

----------------------------------------
LEMMA ChangeHotkeyProof ==
    ASSUME HotkeyInv, NEW slot \in Slots, NEW key \in Keys, ChangeHotkey(slot, key)
    PROVE  HotkeyInv'
<1> USE DEF HotkeyInv, ChangeHotkey
<1>1. change.at = "idle" /\ change'.at = "write" BY DEF Idle
<1>2. HotkeyTypeOK' BY DEF HotkeyTypeOK, Changing
<1> QED BY <1>1, <1>2 DEF Owned, Provisional, Held, Swapping, Unstarted

\* What a stage that registers nothing leaves of the change.
LEMMA ChangeKept ==
    ASSUME HotkeyInv, NEW at \in {"write", "apply", "register", "swap", "commit", "undo"},
           change.at \in {"write", "apply", "register", "swap", "commit", "undo"}, GoTo(at)
    PROVE  /\ Changing /\ Changing' /\ change'.at = at
           /\ change'.slot = change.slot /\ change'.key = change.key
           /\ change.slot \in Slots /\ change.key \in Keys
BY DEF HotkeyInv, HotkeyTypeOK, Idle, Off, Starting, Changing, GoTo

LEMMA WriteFileProof == ASSUME HotkeyInv, WriteFile PROVE HotkeyInv'
<1> USE DEF WriteFile
<1>1. CASE shortcutFile' = [shortcuts EXCEPT ![change.slot] = change.key] /\ GoTo("apply")
  BY <1>1, ChangeKept DEF HotkeyInv, HotkeyTypeOK, Owned, Provisional, Held, Swapping, Unstarted
<1>2. CASE UNCHANGED shortcutFile /\ change' = Idle
  BY <1>2 DEF Idle, HotkeyInv, HotkeyTypeOK, Owned, Provisional, Held, Swapping, Unstarted
<1> QED BY <1>1, <1>2

LEMMA ApplyProof == ASSUME None \notin Keys, HotkeyInv, Apply PROVE HotkeyInv'
<1> USE DEF Apply
<1>1. PICK at \in {"undo", "commit", "register"} :
          GoTo(at) /\ (at = "commit" => current[change.slot] = change.key)
    OBVIOUS
<1>2. /\ Changing' /\ change'.at = at /\ change'.slot = change.slot /\ change'.key = change.key
      /\ change.slot \in Slots /\ change.key \in Keys
    BY <1>1, ChangeKept
<1>3. HotkeyTypeOK' BY <1>2 DEF HotkeyInv, HotkeyTypeOK
<1>4. at = "commit" => listeners[change.slot] = change.key BY <1>1, <1>2 DEF HotkeyInv, Held
<1>5. Held' BY <1>2 DEF HotkeyInv, Held
<1> QED BY <1>2, <1>3, <1>4, <1>5 DEF HotkeyInv, Owned, Provisional, Swapping, Unstarted

LEMMA RegisterProof == ASSUME HotkeyInv, Register PROVE HotkeyInv'
<1> USE DEF Register
<1>1. CASE owners[change.key] = Free /\ owners' = [owners EXCEPT ![change.key] = change.slot]
           /\ GoTo("swap")
    <2>1. /\ Changing' /\ change'.at = "swap" /\ change'.slot = change.slot
          /\ change'.key = change.key /\ change.slot \in Slots /\ change.key \in Keys
        BY <1>1, ChangeKept
    <2>2. HotkeyTypeOK' BY <1>1, <2>1 DEF HotkeyInv, HotkeyTypeOK
    <2>3. listeners[change.slot] # change.key BY <1>1, <2>1 DEF HotkeyInv, Owned, Slots, Free
    <2>4. Owned'
        <3> SUFFICES ASSUME NEW s \in Slots, NEW k \in Keys
                     PROVE  owners'[k] = s <=>
                            k = listeners[s] \/ (s = change.slot /\ k = change.key)
            BY <2>1 DEF Owned, Provisional
        <3>1. owners[k] = s <=> k = listeners[s] BY DEF HotkeyInv, Owned, Provisional
        <3> QED BY <3>1, <1>1, <2>1, <2>3 DEF HotkeyInv, HotkeyTypeOK, Slots, Free
    <2> QED BY <2>1, <2>2, <2>3, <2>4 DEF HotkeyInv, Held, Swapping, Unstarted
<1>2. CASE UNCHANGED owners /\ GoTo("undo")
  BY <1>2, ChangeKept DEF HotkeyInv, HotkeyTypeOK, Owned, Provisional, Held, Swapping, Unstarted
<1> QED BY <1>1, <1>2

LEMMA SwapProof == ASSUME HotkeyInv, Swap PROVE HotkeyInv'
<1> USE DEF Swap
<1> DEFINE slot == change.slot  key == change.key
<1>1. /\ Changing' /\ change'.at = "commit" /\ change'.slot = slot /\ change'.key = key
      /\ slot \in Slots /\ key \in Keys
    BY ChangeKept
<1>2. listeners' \in [Slots -> Keyed] /\ owners' \in [Keys -> Slots \cup {Free, Other}]
    BY <1>1 DEF HotkeyInv, HotkeyTypeOK, Keyed
<1>3. HotkeyTypeOK' BY <1>1, <1>2 DEF HotkeyInv, HotkeyTypeOK
<1>4. Owned'
    <2> SUFFICES ASSUME NEW s \in Slots, NEW k \in Keys
                 PROVE  owners'[k] = s <=> k = listeners'[s]
        BY <1>1 DEF Owned, Provisional
    <2>1. owners[k] = s <=> k = listeners[s] \/ (s = slot /\ k = key)
        BY DEF HotkeyInv, Owned, Provisional
    <2>2. owners[k] = slot <=> k = listeners[slot] \/ k = key
        BY <1>1 DEF HotkeyInv, Owned, Provisional
    <2>3. listeners[slot] # key BY DEF HotkeyInv, Swapping
    <2>4. owners'[k] = IF k = listeners[slot] THEN Free ELSE owners[k] OBVIOUS
    <2>5. listeners'[s] = IF s = slot THEN key ELSE listeners[s] BY <1>1 DEF HotkeyInv, HotkeyTypeOK
    <2> HIDE DEF slot, key
    <2> QED BY <2>1, <2>2, <2>3, <2>4, <2>5 DEF Slots, Free
<1>5. Held' BY <1>1 DEF HotkeyInv, HotkeyTypeOK, Held
<1>6. Swapping' BY <1>1 DEF HotkeyInv, HotkeyTypeOK, Swapping
<1> QED BY <1>1, <1>3, <1>4, <1>5, <1>6 DEF HotkeyInv, Unstarted

LEMMA CommitProof == ASSUME HotkeyInv, Commit PROVE HotkeyInv'
<1> USE DEF Commit
<1>1. change'.at = "idle" BY DEF Idle
<1>2. change.slot \in Slots /\ change.key \in Keys
    BY DEF HotkeyInv, HotkeyTypeOK, Idle, Off, Starting, Changing
<1>3. HotkeyTypeOK' BY <1>2 DEF HotkeyInv, HotkeyTypeOK, Keyed
<1>4. Held'
    <2> SUFFICES ASSUME NEW s \in Slots, current'[s] # None
                 PROVE  current'[s] = shortcuts'[s] /\ listeners'[s] = current'[s]
        BY DEF Held
    <2>1. CASE s = change.slot BY <2>1, <1>2 DEF HotkeyInv, HotkeyTypeOK, Swapping
    <2>2. CASE s # change.slot BY <2>2, <1>2 DEF HotkeyInv, HotkeyTypeOK, Held
    <2> QED BY <2>1, <2>2
<1>5. Owned' BY <1>1 DEF HotkeyInv, Owned, Provisional
<1> QED BY <1>1, <1>3, <1>4, <1>5 DEF HotkeyInv, Swapping, Unstarted

LEMMA UndoProof == ASSUME HotkeyInv, Undo PROVE HotkeyInv'
<1> USE DEF Undo
<1>1. change'.at = "idle" BY DEF Idle
<1>2. HotkeyTypeOK' BY DEF HotkeyInv, HotkeyTypeOK
<1> QED BY <1>1, <1>2 DEF HotkeyInv, Owned, Provisional, Held, Swapping, Unstarted

----------------------------------------
LEMMA HotkeyNextProof ==
    ASSUME None \notin Keys, HotkeyInv, [HotkeyNext]_hotkeyVars
    PROVE  HotkeyInv'
<1>1. CASE HotkeyNext
    BY <1>1, StrangerProof, StopProof, LaunchProof, StartSlotProof, ChangeHotkeyProof,
       WriteFileProof, ApplyProof, RegisterProof, SwapProof, CommitProof, UndoProof
       DEF HotkeyNext, Program
<1>2. CASE UNCHANGED hotkeyVars
    BY <1>2 DEF hotkeyVars, HotkeyInv, HotkeyTypeOK, Starting, Changing, Owned, Provisional, Held,
                Swapping, Unstarted
<1> QED BY <1>1, <1>2

LEMMA ServedProof == ASSUME None \notin Keys, HotkeyInv PROVE ShortcutServed
<1> SUFFICES ASSUME NEW slot \in Slots, current[slot] # None
             PROVE  LET mine == {k \in Keys : owners[k] = slot} IN
                    /\ mine # {}
                    /\ change = Idle => mine = {shortcuts[slot]}
                                        /\ listeners[slot] = shortcuts[slot]
    BY DEF ShortcutServed
<1> DEFINE mine == {k \in Keys : owners[k] = slot}
<1>1. listeners[slot] \in Keys
    BY DEF HotkeyInv, HotkeyTypeOK, Keyed, Held, Swapping, Idle, Off, Starting, Changing
<1>2. listeners[slot] \in mine BY <1>1 DEF HotkeyInv, Owned
<1>3. ASSUME change = Idle
      PROVE  mine = {shortcuts[slot]} /\ listeners[slot] = shortcuts[slot]
  BY <1>2, <1>3 DEF Idle, HotkeyInv, Held, Owned, Provisional
<1> QED BY <1>2, <1>3

\* A shortcut the manager holds works at every moment (hotkey_manager.rs: apply, hotkey.rs:
\* replace): some key of its slot is registered throughout a replacement, and between changes
\* exactly the key the settings show.
THEOREM ShortcutsSafe ==
    ASSUME Defaults \in [Slots -> Keys], None \notin Keys
    PROVE  HotkeySpec => []ShortcutServed
<1>1. HotkeyInit => HotkeyInv BY HotkeyInitProof
<1>2. HotkeyInv /\ [HotkeyNext]_hotkeyVars => HotkeyInv' BY HotkeyNextProof
<1>3. HotkeyInv => ShortcutServed BY ServedProof
<1> QED BY <1>1, <1>2, <1>3, PTL DEF HotkeySpec

----------------------------------------
(* CredentialVault: the transaction over the secrets of a connection.        *)

UpdateSet == [id : Ids, secret : Nat]

\* An operation writes each secret once.
EachOnce(s) == \A i, j \in DOMAIN s : s[i].id = s[j].id => i = j

Working == operation \in [at : {"secrets", "restore"}, updates : Seq(UpdateSet),
                          left : Seq(UpdateSet), previous : Seq(UpdateSet)]

VaultTypeOK ==
    /\ vault \in [Ids -> Nat] /\ asked \in [Ids -> Nat] /\ referenced \subseteq Ids
    /\ operation = Resting \/ Working
    /\ made \in Nat /\ disturbed \in BOOLEAN

\* The file names what the accepted operations left, at any time: it is written in one step.
FileFollows == referenced = {id \in Ids : asked[id] # Nothing}

\* The updates still to be written are the end of the updates, those noted the beginning.
Progress ==
    operation.at = "secrets" =>
        /\ EachOnce(operation.updates)
        /\ Len(operation.previous) + Len(operation.left) = Len(operation.updates)
        /\ \A i \in 1..Len(operation.left) :
              operation.left[i] = operation.updates[Len(operation.previous) + i]
        /\ \A i \in 1..Len(operation.previous) :
              operation.previous[i].id = operation.updates[i].id

\* What was noted is what the user had, each secret once.
Noted ==
    operation.at # "idle" =>
        /\ EachOnce(operation.previous)
        /\ ~disturbed => \A i \in 1..Len(operation.previous) :
              operation.previous[i].secret = asked[operation.previous[i].id]

\* The store holds what the user had, but for the secrets that were noted ...
Untouched ==
    ~disturbed => \A id \in Ids :
        \/ vault[id] = asked[id]
        \/ /\ operation.at # "idle"
           /\ \E i \in 1..Len(operation.previous) : operation.previous[i].id = id

\* ... which hold their new value while the operation goes forward.
Written ==
    ~disturbed /\ operation.at = "secrets" =>
        \A i \in 1..Len(operation.previous) :
            vault[operation.updates[i].id] = operation.updates[i].secret

VaultInv == VaultTypeOK /\ FileFollows /\ Progress /\ Noted /\ Untouched /\ Written

----------------------------------------
(* What the updates make of the secrets.                                     *)

LEMMA AfterType ==
    ASSUME NEW updates \in Seq(UpdateSet), NEW secrets \in [Ids -> Nat]
    PROVE  After(updates, secrets) \in [Ids -> Nat]
<1> SUFFICES ASSUME NEW id \in Ids PROVE After(updates, secrets)[id] \in Nat BY DEF After
<1>1. CASE \E i \in DOMAIN updates : updates[i].id = id
    <2>1. PICK k \in DOMAIN updates :
              k = CHOOSE j \in DOMAIN updates : updates[j].id = id
        BY <1>1
    <2>2. updates[k] \in UpdateSet OBVIOUS
    <2> QED BY <1>1, <2>1, <2>2 DEF After, UpdateSet
<1>2. CASE ~ \E i \in DOMAIN updates : updates[i].id = id BY <1>2 DEF After
<1> QED BY <1>1, <1>2

\* A secret that an update names has the value of that update, when each is named once.
LEMMA AfterUpdate ==
    ASSUME NEW updates \in Seq(UpdateSet), EachOnce(updates), NEW secrets,
           NEW i \in 1..Len(updates)
    PROVE  After(updates, secrets)[updates[i].id] = updates[i].secret
<1>1. i \in DOMAIN updates /\ updates[i] \in UpdateSet OBVIOUS
<1>2. PICK k \in DOMAIN updates :
          /\ k = CHOOSE j \in DOMAIN updates : updates[j].id = updates[i].id
          /\ updates[k].id = updates[i].id
    BY <1>1
<1>3. k = i BY <1>1, <1>2 DEF EachOnce
<1> QED BY <1>1, <1>2, <1>3 DEF After, UpdateSet

\* The others keep theirs.
LEMMA AfterOther ==
    ASSUME NEW updates, NEW secrets, NEW id \in Ids,
           \A i \in DOMAIN updates : updates[i].id # id
    PROVE  After(updates, secrets)[id] = secrets[id]
BY DEF After

----------------------------------------
LEMMA VaultInitProof == VaultInit => VaultInv
<1> SUFFICES ASSUME VaultInit PROVE VaultInv OBVIOUS
<1>1. VaultTypeOK BY DEF VaultInit, VaultTypeOK, Nothing
<1>2. operation.at = "idle" BY DEF VaultInit, Resting
<1>3. \A id \in Ids : vault[id] = Nothing /\ asked[id] = Nothing BY DEF VaultInit
<1>4. FileFollows BY <1>3 DEF VaultInit, FileFollows
<1> QED BY <1>1, <1>2, <1>3, <1>4 DEF VaultInv, Progress, Noted, Untouched, Written

\* Every operation begins with updates that name each secret once.
LEMMA BeginProof ==
    ASSUME VaultInv, NEW updates \in Seq(UpdateSet), EachOnce(updates), Begin(updates)
    PROVE  VaultInv'
<1> USE DEF VaultInv, Begin
<1>1. /\ operation'.at = "secrets" /\ operation'.updates = updates
      /\ operation'.left = updates /\ operation'.previous = <<>>
    OBVIOUS
<1>2. Working' BY DEF Working
<1>3. VaultTypeOK' BY <1>2 DEF VaultTypeOK
<1>4. FileFollows' BY DEF FileFollows
<1>5. operation.at = "idle" BY DEF Resting
<1>6. Progress' /\ Noted' /\ Written' BY <1>1 DEF Progress, Noted, Written, EachOnce
<1>7. Untouched' BY <1>5 DEF Untouched
<1> QED BY <1>3, <1>4, <1>6, <1>7

LEMMA ChangeProof ==
    ASSUME VaultInv, NEW keep \in BOOLEAN, ChangeDeepl(keep) \/ ChangePrimary(keep)
    PROVE  VaultInv'
<1>1. ASSUME NEW id \in Ids
      PROVE  <<Update(id, keep)>> \in Seq(UpdateSet) /\ EachOnce(<<Update(id, keep)>>)
  BY DEF VaultInv, VaultTypeOK, Update, UpdateSet, Nothing, EachOnce
<1>2. Deepl \in Ids /\ Primary \in Ids BY DEF Ids
<1> QED BY <1>1, <1>2, BeginProof DEF ChangeDeepl, ChangePrimary

LEMMA SaveConnectionProof ==
    ASSUME VaultInv, IsFiniteSet(Headers), NEW headers \in SUBSET Headers, NEW kept,
           SaveConnection(headers, kept)
    PROVE  VaultInv'
<1>1. Cardinality(headers) \in Nat BY FS_Subset, FS_CardinalityType
<1>2. PICK order \in [1..Cardinality(headers) -> headers] :
          /\ \A i, j \in DOMAIN order : i # j => order[i] # order[j]
          /\ Begin([i \in DOMAIN order |-> Update(order[i], order[i] \in kept)])
    BY DEF SaveConnection
<1> DEFINE updates == [i \in DOMAIN order |-> Update(order[i], order[i] \in kept)]
<1>3. \A i \in DOMAIN order : updates[i] \in UpdateSet /\ updates[i].id = order[i]
    BY DEF VaultInv, VaultTypeOK, Update, UpdateSet, Nothing, Ids
<1>4. updates \in Seq(UpdateSet) /\ DOMAIN updates = DOMAIN order BY <1>1, <1>3
<1>5. EachOnce(updates) BY <1>2, <1>3, <1>4 DEF EachOnce
<1> HIDE DEF updates
<1> QED BY <1>2, <1>4, <1>5, BeginProof DEF updates

----------------------------------------
LEMMA WriteSecretProof == ASSUME VaultInv, WriteSecret PROVE VaultInv'
<1> USE DEF WriteSecret, VaultInv, Current
<1> DEFINE update == Head(operation.left)  p == Len(operation.previous)
           U == operation.updates
           noted == [id |-> update.id, secret |-> vault[update.id]]
<1>0. operation.at = "secrets" /\ operation.at # "idle" /\ Working BY DEF VaultTypeOK, Resting
<1>1. /\ U \in Seq(UpdateSet) /\ p \in Nat /\ Len(U) \in Nat /\ Len(operation.left) \in Nat
      /\ operation.previous \in Seq(UpdateSet) /\ operation.left \in Seq(UpdateSet)
      /\ operation.left # <<>>
    BY <1>0 DEF Working
<1>2. update = U[p + 1] /\ p + 1 \in 1..Len(U) /\ Len(operation.left) > 0
    <2>1. Len(operation.left) > 0 /\ update = operation.left[1] /\ 1 \in 1..Len(operation.left)
        BY <1>1
    <2>2. operation.left[1] = U[p + 1] /\ p + Len(operation.left) = Len(U)
        BY <2>1, <1>0 DEF Progress
    <2> HIDE DEF U, p
    <2> QED BY <2>1, <2>2, <1>1
<1>3. update \in UpdateSet /\ update.id \in Ids /\ update.secret \in Nat
    <2>1. U[p + 1] \in UpdateSet BY <1>1, <1>2
    <2> QED BY <1>2, <2>1 DEF UpdateSet
<1>4. noted \in UpdateSet BY <1>3 DEF VaultTypeOK, UpdateSet
<1>5. /\ operation'.at = "secrets" /\ operation'.updates = U
      /\ operation'.left = Tail(operation.left)
      /\ operation'.previous = Append(operation.previous, noted)
      /\ vault' = [vault EXCEPT ![update.id] = update.secret]
      /\ asked' = asked /\ disturbed' = disturbed
    BY <1>0 DEF Working
<1>6. operation' \in [at : {"secrets", "restore"}, updates : Seq(UpdateSet),
                      left : Seq(UpdateSet), previous : Seq(UpdateSet)]
    <2>1. Tail(operation.left) \in Seq(UpdateSet) BY <1>1
    <2>2. Append(operation.previous, noted) \in Seq(UpdateSet) BY <1>1, <1>4
    <2> HIDE DEF noted, update
    <2> QED BY <1>0, <2>1, <2>2 DEF Working, update, noted
<1>7. VaultTypeOK' BY <1>3, <1>5, <1>6 DEF VaultTypeOK, Working
<1>8. FileFollows' BY <1>5 DEF FileFollows
<1>9. /\ Len(operation'.previous) = p + 1
      /\ \A i \in 1..p : operation'.previous[i] = operation.previous[i]
      /\ operation'.previous[p + 1] = noted
      /\ Len(operation'.left) = Len(operation.left) - 1
      /\ \A i \in 1..Len(operation'.left) : operation'.left[i] = operation.left[i + 1]
    BY <1>1, <1>2, <1>4, <1>5
\* The secret at hand was not among those noted: it is what the user has.
<1>10. \A i \in 1..p : operation.previous[i].id # update.id
    <2>1. \A i \in 1..p : operation.previous[i].id = U[i].id BY <1>0 DEF Progress
    <2>2. \A i \in 1..p : U[i].id = U[p + 1].id => i = p + 1
        <3>1. \A i \in 1..p : i \in DOMAIN U BY <1>1, <1>2
        <3> QED BY <3>1, <1>0, <1>1, <1>2 DEF Progress, EachOnce
    <2>3. \A i \in 1..p : i # p + 1 BY <1>1
    <2> HIDE DEF U, p, update
    <2> QED BY <2>1, <2>2, <2>3, <1>2
<1> HIDE DEF update, noted, p, U
<1>11. Progress'
    <2>1. EachOnce(operation'.updates) BY <1>0, <1>5 DEF Progress, U
    <2>2. Len(operation'.previous) + Len(operation'.left) = Len(operation'.updates)
        <3>1. p + Len(operation.left) = Len(U) BY <1>0 DEF Progress, p, U
        <3>2. (p + 1) + (Len(operation.left) - 1) = Len(U)
            <4>1. \A a, b \in Nat : (a + 1) + (b - 1) = a + b OBVIOUS
            <4>2. p \in Nat /\ Len(operation.left) \in Nat BY <1>1 DEF p
            <4> QED BY <3>1, <4>1, <4>2, Zenon
        <3>3. Len(operation'.previous) = p + 1 /\ Len(operation'.left) = Len(operation.left) - 1
            BY <1>9
        <3>4. Len(operation'.updates) = Len(U) BY <1>5
        <3> HIDE DEF WriteSecret, Current
        <3> QED BY <3>2, <3>3, <3>4, Zenon
    <2>3. \A i \in 1..Len(operation'.left) :
             operation'.left[i] = operation'.updates[Len(operation'.previous) + i]
        <3> SUFFICES ASSUME NEW i \in 1..Len(operation'.left)
                     PROVE  operation'.left[i] = operation'.updates[Len(operation'.previous) + i]
            OBVIOUS
        <3>1. i + 1 \in 1..Len(operation.left) /\ i \in Nat BY SMTT(30), <1>1, <1>9
        <3>2. operation.left[i + 1] = U[p + (i + 1)] BY <3>1, <1>0 DEF Progress, p, U
        <3>3. p + (i + 1) = (p + 1) + i BY <3>1, <1>1
        <3> QED BY <3>2, <3>3, <1>5, <1>9
    <2>4. \A i \in 1..Len(operation'.previous) :
             operation'.previous[i].id = operation'.updates[i].id
        <3>1. \A i \in 1..p : operation.previous[i].id = U[i].id BY <1>0 DEF Progress, p, U
        <3>2. noted.id = U[p + 1].id BY <1>2 DEF noted
        <3> QED BY SMTT(30), <3>1, <3>2, <1>1, <1>5, <1>9
    <2> QED BY <2>1, <2>2, <2>3, <2>4 DEF Progress
<1>12. EachOnce(operation'.previous)
    <2>1. noted.id = update.id BY DEF noted
    <2>2. \A i, j \in 1..p : operation.previous[i].id = operation.previous[j].id => i = j
        BY <1>0, <1>1 DEF Noted, EachOnce, p
    <2>3. DOMAIN operation'.previous = 1..(p + 1) BY <1>5, <1>9, <1>1, <1>4
    <2> QED BY SMTT(30), <2>1, <2>2, <2>3, <1>1, <1>9, <1>10 DEF EachOnce
<1>13. ~disturbed => vault[update.id] = asked[update.id] BY <1>3, <1>10 DEF Untouched, p
<1>14. Noted'
    <2>1. ~disturbed => \A i \in 1..p :
              operation.previous[i].secret = asked[operation.previous[i].id]
        BY <1>0 DEF Noted, p
    <2>2. noted.id = update.id /\ noted.secret = vault[update.id] BY DEF noted
    <2>3. ~disturbed' => \A i \in 1..(p + 1) :
              operation'.previous[i].secret = asked'[operation'.previous[i].id]
        BY <2>1, <2>2, <1>1, <1>5, <1>9, <1>13
    <2> QED BY <2>3, <1>9, <1>12 DEF Noted
<1>15. Untouched'
    <2> SUFFICES ASSUME ~disturbed, NEW id \in Ids
                 PROVE  \/ vault'[id] = asked'[id]
                        \/ \E i \in 1..(p + 1) : operation'.previous[i].id = id
        BY <1>5, <1>9 DEF Untouched
    <2>1. CASE id = update.id
        <3>1. noted.id = id BY <2>1 DEF noted
        <3> QED BY <3>1, <1>1, <1>9
    <2>2. CASE id # update.id
        <3>1. vault'[id] = vault[id] /\ asked'[id] = asked[id] BY <2>2, <1>5 DEF VaultTypeOK
        <3>2. vault[id] = asked[id] \/ \E i \in 1..p : operation.previous[i].id = id
            BY DEF Untouched, p
        <3> QED BY <3>1, <3>2, <1>1, <1>9
    <2> QED BY <2>1, <2>2
<1>16. Written'
    <2> SUFFICES ASSUME ~disturbed, NEW i \in 1..(p + 1)
                 PROVE  vault'[U[i].id] = U[i].secret
        BY <1>5, <1>9 DEF Written
    <2>1. CASE i = p + 1 BY ZenonT(60), <2>1, <1>2, <1>3, <1>5 DEF VaultTypeOK
    <2>2. CASE i \in 1..p
        <3>1. vault[U[i].id] = U[i].secret BY <2>2, <1>0 DEF Written, p, U
        <3>2. operation.previous[i].id = U[i].id BY <2>2, <1>0 DEF Progress, p, U
        <3>3. U[i].id # update.id BY <2>2, <3>2, <1>10
        <3>4. U[i].id \in Ids
            <4>1. operation.previous[i] \in UpdateSet BY <2>2, <1>1 DEF p
            <4> QED BY <4>1, <3>2 DEF UpdateSet
        <3> QED BY <3>1, <3>3, <3>4, <1>5 DEF VaultTypeOK
    <2> QED BY <2>1, <2>2, <1>1
<1> QED BY <1>7, <1>8, <1>11, <1>14, <1>15, <1>16

LEMMA FailProof == ASSUME VaultInv, SecretFails PROVE VaultInv'
<1> USE DEF SecretFails, VaultInv
<1>0. operation.at = "secrets" /\ Working BY DEF VaultTypeOK, Resting
<1>1. /\ operation'.at = "restore" /\ operation'.previous = operation.previous
      /\ operation' \in [at : {"secrets", "restore"}, updates : Seq(UpdateSet),
                         left : Seq(UpdateSet), previous : Seq(UpdateSet)]
    BY <1>0 DEF Working
<1>2. VaultTypeOK' BY <1>1 DEF VaultTypeOK, Working
<1> QED BY <1>0, <1>1, <1>2 DEF FileFollows, Progress, Noted, Untouched, Written

LEMMA SaveFileProof == ASSUME VaultInv, SaveFile PROVE VaultInv'
<1> USE DEF VaultInv
<1> DEFINE U == operation.updates
           names == [i \in Ids |-> IF i \in referenced THEN 1 ELSE Nothing]
<1>0. operation.at = "secrets" /\ Working /\ operation.left = <<>>
    BY DEF VaultTypeOK, Resting, SaveFile
<1>1. U \in Seq(UpdateSet) /\ EachOnce(U) /\ names \in [Ids -> Nat]
      /\ operation.previous \in Seq(UpdateSet) /\ Len(operation.previous) = Len(U)
    BY <1>0 DEF Working, Progress, Nothing
<1>2. UNCHANGED <<vault, made, disturbed>> BY DEF SaveFile
<1>3. ASSUME operation' = [operation EXCEPT !.at = "restore"], UNCHANGED <<referenced, asked>>
      PROVE  VaultInv'
  BY <1>0, <1>2, <1>3 DEF Working, VaultTypeOK, FileFollows, Progress, Noted, Untouched, Written
<1>4. ASSUME referenced' = {id \in Ids : After(U, names)[id] # Nothing},
             asked' = After(U, asked), operation' = Resting
      PROVE  VaultInv'
    <2>1. operation'.at = "idle" BY <1>4 DEF Resting
    <2>2. asked \in [Ids -> Nat] /\ vault \in [Ids -> Nat] BY DEF VaultTypeOK
    <2>3. asked' \in [Ids -> Nat] BY <1>1, <1>4, <2>2, AfterType
    <2>4. VaultTypeOK' BY <1>2, <1>4, <2>3 DEF VaultTypeOK
    <2>5. ASSUME NEW id \in Ids
          PROVE  /\ asked'[id] # Nothing <=> After(U, names)[id] # Nothing
                 /\ ~disturbed => vault[id] = asked'[id]
        <3>1. CASE \E i \in DOMAIN U : U[i].id = id
            <4>1. PICK i \in 1..Len(U) : U[i].id = id BY <3>1, <1>1
            <4>2. After(U, names)[id] = U[i].secret /\ After(U, asked)[id] = U[i].secret
                BY <4>1, <1>1, AfterUpdate
            <4>3. ~disturbed => vault[id] = U[i].secret BY <4>1, <1>0, <1>1 DEF Written
            <4> QED BY <4>2, <4>3, <1>4
        <3>2. CASE \A i \in DOMAIN U : U[i].id # id
      BY <1>0, <1>1, <1>4, <3>2, AfterOther DEF FileFollows, Nothing, Progress, Untouched
        <3> QED BY <3>1, <3>2
    <2>6. FileFollows' BY <1>4, <2>5 DEF FileFollows
    <2>7. Untouched' BY <1>2, <2>5 DEF Untouched
    <2> QED BY <2>1, <2>4, <2>6, <2>7 DEF Progress, Noted, Written
<1> QED BY <1>3, <1>4 DEF SaveFile

LEMMA RestoreProof == ASSUME VaultInv, Restore PROVE VaultInv'
<1> USE DEF VaultInv
<1> DEFINE n == Len(operation.previous)  old == operation.previous[n]
<1>0. operation.at = "restore" /\ Working /\ operation.previous # <<>>
    BY DEF VaultTypeOK, Resting, Restore
<1>1. /\ operation.previous \in Seq(UpdateSet) /\ n \in Nat /\ n > 0
      /\ old \in UpdateSet /\ old.id \in Ids /\ old.secret \in Nat
    <2>1. operation.previous \in Seq(UpdateSet) BY <1>0 DEF Working
    <2>2. n \in Nat /\ n > 0 /\ old \in UpdateSet BY <2>1, <1>0
    <2> QED BY <2>1, <2>2 DEF UpdateSet
<1>2. /\ operation'.at = "restore"
      /\ operation'.previous = SubSeq(operation.previous, 1, n - 1)
      /\ operation' \in [at : {"secrets", "restore"}, updates : Seq(UpdateSet),
                         left : Seq(UpdateSet), previous : Seq(UpdateSet)]
    <2>1. operation' = [operation EXCEPT !.previous = SubSeq(operation.previous, 1, n - 1)]
        BY DEF Restore
    <2>2. SubSeq(operation.previous, 1, n - 1) \in Seq(UpdateSet) BY <1>1
    <2> HIDE DEF n
    <2> QED BY <2>1, <2>2, <1>0 DEF Working
<1>3. /\ Len(operation'.previous) = n - 1
      /\ \A i \in 1..(n - 1) : operation'.previous[i] = operation.previous[i]
    BY <1>1, <1>2
<1>4. UNCHANGED <<referenced, asked, made>> BY DEF Restore
<1>5. \/ vault' = [vault EXCEPT ![old.id] = old.secret] /\ UNCHANGED disturbed
      \/ UNCHANGED vault /\ disturbed' = TRUE
    BY DEF Restore
<1> HIDE DEF n, old
<1>6. VaultTypeOK' BY <1>1, <1>2, <1>4, <1>5 DEF VaultTypeOK, Working
<1>7. Noted'
    <2>1. EachOnce(operation'.previous)
        <3>1. DOMAIN operation'.previous = 1..(n - 1) /\ DOMAIN operation.previous = 1..n
            BY <1>1, <1>2, <1>3 DEF n
        <3>2. 1..(n - 1) \subseteq 1..n BY <1>1
        <3> QED BY <3>1, <3>2, <1>0, <1>3 DEF Noted, EachOnce
    <2>2. disturbed' = FALSE => ~disturbed BY <1>5 DEF VaultTypeOK
    <2>3. ~disturbed' => \A i \in 1..(n - 1) :
              operation'.previous[i].secret = asked'[operation'.previous[i].id]
        BY SMTT(30), <1>0, <1>1, <1>3, <1>4, <1>5 DEF Noted, n
    <2> QED BY <2>1, <2>3, <1>1, <1>3 DEF Noted
<1>8. Untouched'
    <2> SUFFICES ASSUME ~disturbed, vault' = [vault EXCEPT ![old.id] = old.secret],
                        NEW id \in Ids
                 PROVE  \/ vault'[id] = asked[id]
                        \/ \E i \in 1..(n - 1) : operation.previous[i].id = id
    BY <1>1, <1>2, <1>3, <1>4, <1>5 DEF Untouched
    <2>1. CASE id = old.id
        <3>1. n \in 1..n BY <1>1
        <3>2. old.secret = asked[old.id] BY <3>1, <1>0 DEF Noted, n, old
        <3> QED BY <2>1, <3>2, <1>1 DEF VaultTypeOK
    <2>2. CASE id # old.id BY <1>1, <2>2 DEF VaultTypeOK, Untouched, n, old
    <2> QED BY <2>1, <2>2
<1> QED BY <1>2, <1>4, <1>6, <1>7, <1>8 DEF FileFollows, Progress, Written

LEMMA GiveUpProof == ASSUME VaultInv, GiveUp PROVE VaultInv'
<1> USE DEF GiveUp, VaultInv
<1>1. operation'.at = "idle" /\ Len(operation.previous) = 0 BY DEF Resting
<1>2. VaultTypeOK' BY DEF VaultTypeOK
<1> QED BY <1>1, <1>2 DEF FileFollows, Progress, Noted, Untouched, Written

----------------------------------------
LEMMA VaultNextProof ==
    ASSUME IsFiniteSet(Headers), VaultInv, [VaultNext]_vaultVars
    PROVE  VaultInv'
<1>1. CASE VaultNext
    BY <1>1, ChangeProof, SaveConnectionProof, WriteSecretProof, FailProof, SaveFileProof,
       RestoreProof, GiveUpProof DEF VaultNext
<1>2. CASE UNCHANGED vaultVars
    BY <1>2 DEF vaultVars, VaultInv, VaultTypeOK, Working, FileFollows, Progress, Noted,
       Untouched, Written
<1> QED BY <1>1, <1>2

LEMMA SecretsProof == VaultInv => SecretsFollowSettings
<1> SUFFICES ASSUME VaultInv, operation = Resting, ~disturbed
             PROVE  vault = asked /\ referenced = {id \in Ids : vault[id] # Nothing}
    BY DEF SecretsFollowSettings
<1>1. \A id \in Ids : vault[id] = asked[id] BY DEF VaultInv, Untouched, Resting
<1>2. vault = asked BY <1>1 DEF VaultInv, VaultTypeOK
<1> QED BY <1>2 DEF VaultInv, FileFollows

\* The secrets of the credential store and the references in the file change together or not at
\* all (controller.rs: persist_credential, llm_credentials.rs: save_connection): between
\* operations the store holds what the accepted ones left, whichever call failed, unless a
\* restoring call failed.
THEOREM SecretsSafe ==
    ASSUME IsFiniteSet(Headers)
    PROVE  VaultSpec => []SecretsFollowSettings
<1>1. VaultInit => VaultInv BY VaultInitProof
<1>2. VaultInv /\ [VaultNext]_vaultVars => VaultInv' BY VaultNextProof
<1>3. VaultInv => SecretsFollowSettings BY SecretsProof
<1> QED BY <1>1, <1>2, <1>3, PTL DEF VaultSpec

----------------------------------------
(* AnnotationExport: the export of a picture and the button that waits.      *)

States  == [last : Nat, session : Nat, request : Nat, completed : Nat]
Ats     == {"capture", "compose", "dialog", "encode", "write", "check", "rename", "done"}
Results == {"none", "saved", "failed", "cancelled"}
Workers == [session : Nat, request : Nat \ {0}, at : Ats, result : Results]

ExportTypeOK ==
    /\ export \in States /\ posted \in Seq(States)
    /\ workers \subseteq Workers
    /\ button \in [generation : Nat, open : BOOLEAN, request : Nat, pending : BOOLEAN]
    /\ closings \subseteq Nat

\* The job is the one of the state, and every other worker was cancelled.
JobKept ==
    /\ job # NoJob => job = <<export.session, export.request>>
    /\ \A w \in workers : JobOf(w) \in cancelled \/ job = JobOf(w)

\* What the state waits for is at work.
RequestAtWork ==
    export.request # 0 => \E w \in workers : JobOf(w) = <<export.session, export.request>>

\* Old sessions are behind the view.
SessionsBehind ==
    /\ export.session <= export.last /\ export.last <= button.generation
    /\ \A c \in closings : c < button.generation
    /\ \A i \in 1..Len(posted) : posted[i].session <= button.generation

\* The state is about the open view, never ahead of its button, and no snapshot is ahead of
\* the state.
ViewFollowed ==
    button.open =>
        /\ export.session = button.generation
        /\ export.completed <= button.request /\ export.request <= button.request
        /\ export.request = 0 \/ export.request > export.completed
        /\ \A i \in 1..Len(posted) :
              posted[i].session = button.generation => posted[i].completed <= export.completed
        /\ ~button.pending => export.request = 0

\* A button that waits is open, and its export is asked for or was completed and told.
Awaited ==
    button.pending =>
        /\ button.open
        /\ \/ export.request = button.request /\ button.request # 0
           \/ \E i \in 1..Len(posted) : posted[i].session = button.generation
                                        /\ posted[i].completed = button.request

ExportInv == ExportTypeOK /\ JobKept /\ RequestAtWork /\ SessionsBehind /\ ViewFollowed /\ Awaited

----------------------------------------
(* A dispatch.                                                               *)

LEMMA DispatchPosts ==
    ASSUME ExportTypeOK, NEW state \in States, Dispatch(state)
    PROVE  /\ export' = state /\ posted' \in Seq(States) /\ Len(posted) \in Nat
           /\ Len(posted') = Len(posted) + 1 /\ posted'[Len(posted) + 1] = state
           /\ \A i \in 1..Len(posted) : posted'[i] = posted[i]
           /\ \A i \in 1..(Len(posted) + 1) : i \in 1..Len(posted) \/ i = Len(posted) + 1
BY DEF Dispatch, ExportTypeOK

\* The job that does not fit the new state is cancelled and forgotten.
LEMMA DispatchKeeps ==
    ASSUME JobKept, NEW state, Dispatch(state), job' = KeepJob(state), workers' \subseteq workers
    PROVE  JobKept'
  BY DEF Dispatch, KeepJob, JobKept, JobOf, Unwanted

LEMMA ReducerTypes ==
    ASSUME ExportTypeOK, NEW session \in Nat, NEW need \in Nat
    PROVE  /\ Opened(session) \in States /\ Requested(session, need) \in States
           /\ Closed(session) \in States
           /\ \A w \in workers : Completed(w) \in States
BY DEF ExportTypeOK, Opened, Requested, Closed, Completed, States, Workers

----------------------------------------
LEMMA ExportInitProof == ExportInit => ExportInv
BY DEF ExportInit, ExportInv, ExportTypeOK, States, JobKept, RequestAtWork, SessionsBehind,
   ViewFollowed, Awaited,
       NoJob

LEMMA OpenProof == ASSUME ExportInv, OpenAnnotation PROVE ExportInv'
<1> DEFINE session == button.generation + 1
<1>1. /\ ~button.open /\ UNCHANGED <<workers, closings>> /\ session \in Nat
      /\ button' = [button EXCEPT !.open = TRUE, !.generation = session]
      /\ Dispatch(Opened(session)) /\ job' = KeepJob(export')
    BY DEF OpenAnnotation, ExportInv, ExportTypeOK
<1>2. session > export.last BY DEF ExportInv, ExportTypeOK, States, SessionsBehind
<1>3. Opened(session) = [last |-> session, session |-> session, request |-> 0, completed |-> 0]
    BY <1>1, <1>2 DEF Opened, ExportInv, ExportTypeOK, States
<1>4. Opened(session) \in States BY <1>1, ReducerTypes DEF ExportInv
<1>5. /\ export' = Opened(session) /\ posted' \in Seq(States) /\ Len(posted) \in Nat
      /\ Len(posted') = Len(posted) + 1 /\ posted'[Len(posted) + 1] = Opened(session)
      /\ \A i \in 1..Len(posted) : posted'[i] = posted[i]
      /\ \A i \in 1..(Len(posted) + 1) : i \in 1..Len(posted) \/ i = Len(posted) + 1
    BY <1>1, <1>4, DispatchPosts DEF ExportInv
<1>6. /\ button'.open = TRUE /\ button'.generation = session /\ button'.pending = FALSE
      /\ button' \in [generation : Nat, open : BOOLEAN, request : Nat, pending : BOOLEAN]
      /\ button'.request \in Nat /\ button.generation \in Nat
    BY <1>1 DEF ExportInv, ExportTypeOK, Awaited
<1>7. ExportTypeOK' BY <1>1, <1>4, <1>5, <1>6 DEF ExportInv, ExportTypeOK
<1>8. JobKept' BY <1>1, <1>5, DispatchKeeps DEF ExportInv
<1>9. RequestAtWork' BY <1>3, <1>5 DEF RequestAtWork
<1>10. SessionsBehind' /\ ViewFollowed'
    <2>1. \A i \in 1..Len(posted) : posted[i].session \in Nat /\ posted[i].session < session
        <3> SUFFICES ASSUME NEW i \in 1..Len(posted)
                     PROVE  posted[i].session \in Nat /\ posted[i].session < session
            OBVIOUS
        <3>1. posted[i] \in States BY <1>5 DEF ExportInv, ExportTypeOK
        <3>2. posted[i].session <= button.generation BY DEF ExportInv, SessionsBehind
        <3> QED BY <3>1, <3>2, <1>6 DEF States
    <2>2. \A c \in closings : c < session
        <3> SUFFICES ASSUME NEW c \in closings PROVE c < session OBVIOUS
        <3>1. c \in Nat /\ c < button.generation BY DEF ExportInv, SessionsBehind, ExportTypeOK
        <3> QED BY <3>1, <1>6
    <2>3. \A i \in 1..Len(posted') : posted'[i].session <= session
              /\ (posted'[i].session = session => posted'[i].completed <= 0)
        BY <1>3, <1>5, <2>1, <1>1
    <2> HIDE DEF session
    <2>4. SessionsBehind' BY <1>1, <1>3, <1>5, <1>6, <2>2, <2>3 DEF SessionsBehind
    <2>5. ViewFollowed' BY <1>1, <1>3, <1>5, <1>6, <2>3 DEF ViewFollowed
    <2> QED BY <2>4, <2>5
<1>11. Awaited' BY <1>6 DEF Awaited
<1> QED BY <1>7, <1>8, <1>9, <1>10, <1>11 DEF ExportInv

LEMMA SeqElements == \A S, s : s \in Seq(S) => \A i \in 1..Len(s) : s[i] \in S
OBVIOUS

\* Closing a view leaves nothing that waits; its session stays until it is told.
LEMMA CloseProof ==
    ASSUME ExportInv, Retire, export' = export \/ export' = Closed(button.generation),
           Len(posted') \in Nat, posted' \in Seq(States),
           \A i \in 1..Len(posted') : posted'[i].session <= button.generation, JobKept'
    PROVE  ExportInv'
<1>1. /\ UNCHANGED workers /\ closings' = closings \cup {button.generation}
      /\ button' = [button EXCEPT !.open = FALSE, !.generation = @ + 1, !.pending = FALSE]
    BY DEF Retire
<1>2. /\ button'.open = FALSE /\ button'.pending = FALSE
      /\ button'.generation = button.generation + 1 /\ button.generation \in Nat
      /\ button' \in [generation : Nat, open : BOOLEAN, request : Nat, pending : BOOLEAN]
    <2>1. button \in [generation : Nat, open : BOOLEAN, request : Nat, pending : BOOLEAN]
        BY DEF ExportInv, ExportTypeOK
    <2>2. button.generation \in Nat /\ button.generation + 1 \in Nat BY <2>1
    <2> QED BY <1>1, <2>1, <2>2
<1>3. export' \in States BY <1>2, ReducerTypes DEF ExportInv, ExportTypeOK
<1>4. ExportTypeOK' BY <1>1, <1>2, <1>3 DEF ExportInv, ExportTypeOK
<1>5. RequestAtWork' BY <1>1 DEF ExportInv, ExportTypeOK, States, RequestAtWork, Closed
<1>6. SessionsBehind'
    <2>1. export'.last = export.last /\ export.last \in Nat /\ export.last <= button.generation
        BY DEF ExportInv, ExportTypeOK, States, Closed, SessionsBehind
    <2>2. export'.last <= button'.generation /\ export'.session <= export'.last
        <3>1. export'.session = export.session \/ export'.session = 0
            BY DEF ExportInv, ExportTypeOK, States, Closed
        <3>2. export.session <= export.last BY DEF ExportInv, SessionsBehind
        <3> QED BY <1>2, <2>1, <3>1, <3>2
    <2>3. \A c \in closings' : c < button'.generation
        BY <1>1, <1>2 DEF ExportInv, ExportTypeOK, SessionsBehind
    <2>4. \A i \in 1..Len(posted') : posted'[i].session <= button'.generation
        <3> SUFFICES ASSUME NEW i \in 1..Len(posted') PROVE posted'[i].session <= button'.generation
            OBVIOUS
        <3>1. posted'[i] \in States BY SeqElements
        <3>2. posted'[i].session <= button.generation OBVIOUS
        <3>3. posted'[i].session \in Nat BY <3>1 DEF States
        <3>4. \A m, n \in Nat : m <= n => m <= n + 1 OBVIOUS
        <3>5. button'.generation = button.generation + 1 /\ button.generation \in Nat BY <1>2
        <3> QED BY ONLY <3>2, <3>3, <3>4, <3>5
    <2> QED BY <2>2, <2>3, <2>4 DEF SessionsBehind
<1> QED BY <1>2, <1>4, <1>5, <1>6 DEF ExportInv, ViewFollowed, Awaited

LEMMA ViewFailsProof == ASSUME ExportInv, ViewFails PROVE ExportInv'
  BY CloseProof DEF ViewFails, Retire, ExportInv, JobKept, JobOf, ExportTypeOK, SessionsBehind

LEMMA CloseAnnotationProof == ASSUME ExportInv, CloseAnnotation PROVE ExportInv'
<1> DEFINE state == Closed(button.generation)
<1>1. Retire /\ Dispatch(state) /\ job' = KeepJob(export') /\ workers' = workers
    BY DEF CloseAnnotation, Retire
<1>2. state \in States /\ (state.session = export.session \/ state.session = 0)
    BY ReducerTypes DEF ExportInv, ExportTypeOK, Closed, States
<1> HIDE DEF state
<1>3. /\ export' = state /\ posted' \in Seq(States) /\ Len(posted) \in Nat
      /\ Len(posted') = Len(posted) + 1 /\ posted'[Len(posted) + 1] = state
      /\ \A i \in 1..Len(posted) : posted'[i] = posted[i]
      /\ \A i \in 1..(Len(posted) + 1) : i \in 1..Len(posted) \/ i = Len(posted) + 1
    BY <1>1, <1>2, DispatchPosts DEF ExportInv
<1>4. JobKept' BY <1>1, <1>3, DispatchKeeps DEF ExportInv
<1>5. button.open /\ button.generation \in Nat BY <1>1 DEF Retire, ExportInv, ExportTypeOK
<1>6. state.session <= button.generation BY <1>2, <1>5 DEF ExportInv, ViewFollowed
<1>7. \A i \in 1..Len(posted') : posted'[i].session <= button.generation
    BY <1>3, <1>6 DEF ExportInv, SessionsBehind
<1> QED BY <1>1, <1>3, <1>4, <1>7, CloseProof DEF state

----------------------------------------
(* Steps that leave the view alone.                                          *)

\* A dispatch that ends the request of the state for good, or changes nothing of an open view.
LEMMA QuietDispatch ==
    ASSUME ExportInv, NEW state \in States, Dispatch(state), job' = KeepJob(export'),
           UNCHANGED button, closings' \subseteq closings, workers' \subseteq workers,
           state.last = export.last,
           state.session = export.session \/ state.session = 0,
           state.request = 0 \/ state = export,
           button.open => /\ state.session = export.session
                          /\ \/ state = export
                             \/ state.completed = export.request /\ export.request # 0,
           state.request # 0 => \E w \in workers' : JobOf(w) = <<state.session, state.request>>
    PROVE  ExportInv'
<1>1. /\ export' = state /\ posted' \in Seq(States) /\ Len(posted) \in Nat
      /\ Len(posted') = Len(posted) + 1 /\ posted'[Len(posted) + 1] = state
      /\ \A i \in 1..Len(posted) : posted'[i] = posted[i]
      /\ \A i \in 1..(Len(posted) + 1) : i \in 1..Len(posted) \/ i = Len(posted) + 1
    BY DispatchPosts DEF ExportInv
<1>2. ExportTypeOK' BY <1>1 DEF ExportInv, ExportTypeOK
<1>3. JobKept' BY <1>1, DispatchKeeps DEF ExportInv
<1>4. RequestAtWork' BY <1>1 DEF RequestAtWork
<1>5. /\ button.generation \in Nat /\ button.request \in Nat /\ export.session \in Nat
      /\ export.request \in Nat /\ export.completed \in Nat /\ export.last \in Nat
    BY DEF ExportInv, ExportTypeOK, States
<1>6. export.session <= export.last /\ export.last <= button.generation
    BY DEF ExportInv, SessionsBehind
<1>7. SessionsBehind'
    <2>1. state.session <= export.last /\ state.session <= button.generation BY <1>5, <1>6
    <2>2. \A i \in 1..Len(posted') : posted'[i].session <= button.generation
        BY <1>1, <2>1 DEF ExportInv, SessionsBehind
    <2> QED BY <1>1, <1>6, <2>1, <2>2 DEF ExportInv, SessionsBehind
<1>8. ViewFollowed'
    <2> SUFFICES ASSUME button.open PROVE ViewFollowed' BY DEF ViewFollowed
    <2>1. /\ export.session = button.generation
          /\ export.completed <= button.request /\ export.request <= button.request
          /\ export.request = 0 \/ export.request > export.completed
          /\ ~button.pending => export.request = 0
          /\ \A i \in 1..Len(posted) :
              posted[i].session = button.generation => posted[i].completed <= export.completed
        BY DEF ExportInv, ViewFollowed
    <2>2. /\ state.completed <= button.request /\ state.request <= button.request
          /\ export.completed <= state.completed /\ state.completed \in Nat
          /\ state.request = 0 \/ state.request > state.completed
          /\ ~button.pending => state.request = 0
        BY <1>5, <2>1 DEF States
    <2>3. \A i \in 1..Len(posted') :
             posted'[i].session = button.generation => posted'[i].completed <= state.completed
        <3> SUFFICES ASSUME NEW i \in 1..Len(posted'), posted'[i].session = button.generation
                     PROVE  posted'[i].completed <= state.completed
            OBVIOUS
        <3>1. CASE i \in 1..Len(posted)
            <4>1. posted[i] = posted'[i] /\ posted[i] \in States
                BY <1>1, <3>1 DEF ExportInv, ExportTypeOK
            <4>2. posted[i].completed <= export.completed /\ posted[i].completed \in Nat
                BY <2>1, <3>1, <4>1 DEF States
            <4> QED BY <1>5, <2>2, <4>1, <4>2
        <3>2. CASE i = Len(posted) + 1 BY <1>1, <2>2, <3>2
        <3> QED BY <1>1, <3>1, <3>2
    <2> QED BY <1>1, <2>1, <2>2, <2>3 DEF ViewFollowed
<1>9. Awaited'
    <2> SUFFICES ASSUME button.pending PROVE Awaited' BY DEF Awaited
    <2>1. button.open /\ export.session = button.generation BY DEF ExportInv, Awaited, ViewFollowed
    <2>2. CASE state = export BY <1>1, <2>1, <2>2 DEF ExportInv, Awaited
    <2>3. CASE state # export
        <3>1. state.completed = export.request /\ export.request # 0 BY <2>1, <2>3
        <3>2. CASE export.request = button.request BY <1>1, <2>1, <3>1, <3>2 DEF Awaited
        <3>3. CASE export.request # button.request
            <4>1. PICK i \in 1..Len(posted) : posted[i].session = button.generation
                                              /\ posted[i].completed = button.request
                BY <3>3 DEF ExportInv, Awaited
            <4>2. i \in 1..Len(posted') /\ posted'[i] = posted[i] BY <1>1
            <4> QED BY <2>1, <4>1, <4>2 DEF Awaited
        <3> QED BY <3>2, <3>3
    <2> QED BY <2>2, <2>3
<1> QED BY <1>2, <1>3, <1>4, <1>7, <1>8, <1>9 DEF ExportInv

LEMMA TellClosedProof ==
    ASSUME ExportInv, NEW session \in closings, TellClosed(session)
    PROVE  ExportInv'
<1>1. /\ UNCHANGED <<workers, button>> /\ closings' \subseteq closings
      /\ Dispatch(Closed(session)) /\ job' = KeepJob(export')
    BY DEF TellClosed
<1>2. session \in Nat /\ session < button.generation /\ button.generation \in Nat
    BY DEF ExportInv, ExportTypeOK, SessionsBehind
<1>3. button.open => export.session # session BY <1>2 DEF ExportInv, ViewFollowed
<1>4. Closed(session) \in States BY <1>2, ReducerTypes DEF ExportInv
<1>5. \/ Closed(session) = export
      \/ /\ Closed(session) = [export EXCEPT !.session = 0, !.request = 0, !.completed = 0]
         /\ ~button.open
    BY <1>3 DEF Closed
<1> DEFINE state == Closed(session)
<1>6. /\ state.last = export.last
      /\ state.session = export.session \/ state.session = 0
      /\ state.request = 0 \/ state = export
      /\ button.open => state = export
      /\ state.request # 0 => state = export
    BY <1>5 DEF ExportInv, ExportTypeOK, States
<1>7. state.request # 0 => \E w \in workers' : JobOf(w) = <<state.session, state.request>>
    BY <1>1, <1>6 DEF ExportInv, RequestAtWork
<1>8. button.open => /\ state.session = export.session
                     /\ \/ state = export
                        \/ state.completed = export.request /\ export.request # 0
    BY <1>6
<1>9. workers' \subseteq workers /\ UNCHANGED button BY <1>1
<1>10. Dispatch(state) /\ job' = KeepJob(export') /\ closings' \subseteq closings BY <1>1
<1>11. state \in States BY <1>4
<1>12. /\ state.last = export.last /\ (state.session = export.session \/ state.session = 0)
       /\ (state.request = 0 \/ state = export)
    BY <1>6
<1> HIDE DEF state
<1> QED BY <1>7, <1>8, <1>9, <1>10, <1>11, <1>12, QuietDispatch

LEMMA ReportProof == ASSUME ExportInv, NEW w \in workers, Report(w) PROVE ExportInv'
<1> DEFINE state == Completed(w)
<1>1. /\ UNCHANGED <<button, closings>> /\ workers' = workers \ {w}
      /\ Dispatch(state) /\ job' = KeepJob(export')
    BY DEF Report
<1>2. state \in States BY ReducerTypes DEF ExportInv
<1>3. \/ state = export /\ <<export.session, export.request>> # JobOf(w)
      \/ /\ state = [export EXCEPT !.request = 0, !.completed = w.request]
         /\ export.request = w.request /\ w.request # 0
  BY DEF ExportInv, ExportTypeOK, Workers, Completed, JobOf
<1>4. /\ state.last = export.last /\ state.session = export.session
      /\ state.request = 0 \/ state = export
      /\ state = export \/ (state.completed = export.request /\ export.request # 0)
    BY <1>3 DEF ExportInv, ExportTypeOK, States
<1>5. state.request # 0 => \E v \in workers' : JobOf(v) = <<state.session, state.request>>
    <2> SUFFICES ASSUME state.request # 0
                 PROVE  \E v \in workers' : JobOf(v) = <<state.session, state.request>>
        OBVIOUS
    <2>1. state = export /\ <<export.session, export.request>> # JobOf(w)
        BY <1>3 DEF ExportInv, ExportTypeOK, States
    <2>2. PICK v \in workers : JobOf(v) = <<export.session, export.request>>
        BY <2>1 DEF ExportInv, RequestAtWork
    <2> HIDE DEF state
    <2> QED BY <1>1, <2>1, <2>2
<1>6. button.open => /\ state.session = export.session
                     /\ \/ state = export
                        \/ state.completed = export.request /\ export.request # 0
    BY <1>4
<1>7. state.session = export.session \/ state.session = 0 BY <1>4
<1>8. state.last = export.last /\ (state.request = 0 \/ state = export) BY <1>4
<1>9. closings' \subseteq closings /\ workers' \subseteq workers /\ UNCHANGED button BY <1>1
<1>10. Dispatch(state) /\ job' = KeepJob(export') BY <1>1
<1> HIDE DEF state
<1> QED BY <1>2, <1>5, <1>6, <1>7, <1>8, <1>9, <1>10, QuietDispatch

\* A worker that goes on keeps its job.
LEMMA WorkProof == ASSUME ExportInv, NEW w \in workers, Work(w) PROVE ExportInv'
<1>1. UNCHANGED <<export, job, cancelled, button, posted, closings>> BY DEF Work
<1>2. PICK at \in Ats, result \in Results :
          \/ workers' = (workers \ {w}) \cup {[w EXCEPT !.at = at]}
          \/ workers' = (workers \ {w}) \cup {[w EXCEPT !.at = at, !.result = result]}
    BY DEF Work, Capture, Compose, Dialog, Encode, WriteTemporary, CheckOnce, Rename, Guarded,
           Moved, Ended, Ats, Results
<1>3. PICK new \in Workers : /\ workers' = (workers \ {w}) \cup {new}
                             /\ new.session = w.session /\ new.request = w.request
    <2>1. w \in Workers BY DEF ExportInv, ExportTypeOK
    <2>2. /\ [w EXCEPT !.at = at] \in Workers
          /\ [w EXCEPT !.at = at].session = w.session /\ [w EXCEPT !.at = at].request = w.request
        BY <2>1 DEF Workers
    <2>3. /\ [w EXCEPT !.at = at, !.result = result] \in Workers
          /\ [w EXCEPT !.at = at, !.result = result].session = w.session
          /\ [w EXCEPT !.at = at, !.result = result].request = w.request
        BY <2>1 DEF Workers
    <2> QED BY <1>2, <2>2, <2>3
<1>4. JobOf(new) = JobOf(w) BY <1>3 DEF JobOf
<1>5. ExportTypeOK' BY <1>1, <1>3 DEF ExportInv, ExportTypeOK
<1>6. JobKept' /\ RequestAtWork' BY <1>1, <1>3, <1>4 DEF ExportInv, JobKept, RequestAtWork, JobOf
<1> QED BY <1>1, <1>5, <1>6 DEF ExportInv, SessionsBehind, ViewFollowed, Awaited

----------------------------------------
(* The view asks and is answered.                                            *)

LEMMA StartExportProof == ASSUME ExportInv, StartExport PROVE ExportInv'
<1> DEFINE need == button.request + 1
           state == Requested(button.generation, need)
           worker == [session |-> button.generation, request |-> need, at |-> "capture",
                      result |-> "none"]
<1>1. /\ button.open /\ ~button.pending /\ UNCHANGED closings
      /\ button' = [button EXCEPT !.request = need, !.pending = TRUE]
      /\ Dispatch(state) /\ Run(export', button.generation, need)
    BY DEF StartExport
<1>2. /\ button.generation \in Nat /\ button.request \in Nat
      /\ need \in Nat /\ need # 0 /\ need > button.request
    BY DEF ExportInv, ExportTypeOK
<1>3. /\ button' \in [generation : Nat, open : BOOLEAN, request : Nat, pending : BOOLEAN]
      /\ button'.open /\ button'.pending /\ button'.request = need
      /\ button'.generation = button.generation
    <2> HIDE DEF need
    <2> QED BY <1>1, <1>2 DEF ExportInv, ExportTypeOK
<1>4. /\ export.session = button.generation /\ export.request = 0
      /\ export.completed <= button.request /\ export.completed \in Nat
      /\ \A i \in 1..Len(posted) :
            posted[i].session = button.generation => posted[i].completed <= export.completed
    BY <1>1 DEF ExportInv, ViewFollowed, ExportTypeOK, States
<1>5. need > export.completed BY <1>2, <1>4
<1>6. state = [export EXCEPT !.request = need] BY <1>4, <1>5 DEF Requested
<1>7. /\ state \in States /\ state.session = button.generation /\ state.request = need
      /\ state.completed = export.completed /\ state.last = export.last
    BY <1>2, <1>4, <1>6 DEF ExportInv, ExportTypeOK, States
<1>8. worker \in Workers /\ JobOf(worker) = <<button.generation, need>>
    BY <1>2 DEF Workers, Ats, Results, JobOf
<1> HIDE DEF state, need, worker
<1>9. /\ export' = state /\ posted' \in Seq(States) /\ Len(posted) \in Nat
      /\ Len(posted') = Len(posted) + 1 /\ posted'[Len(posted) + 1] = state
      /\ \A i \in 1..Len(posted) : posted'[i] = posted[i]
      /\ \A i \in 1..(Len(posted) + 1) : i \in 1..Len(posted) \/ i = Len(posted) + 1
    BY <1>1, <1>7, DispatchPosts DEF ExportInv
<1>10. job' = <<button.generation, need>> /\ workers' = workers \cup {worker}
    BY <1>1, <1>7, <1>9 DEF Run, worker
<1>11. ExportTypeOK' BY <1>1, <1>3, <1>7, <1>8, <1>9, <1>10 DEF ExportInv, ExportTypeOK
<1>12. JobKept'
    <2>1. job' # NoJob => job' = <<export'.session, export'.request>> BY <1>7, <1>9, <1>10
    <2>2. ASSUME NEW w \in workers
          PROVE  JobOf(w) \in cancelled' \/ job' = JobOf(w)
        <3>1. cancelled \subseteq cancelled' /\ (Unwanted(state) => job \in cancelled')
            BY <1>1 DEF Dispatch
        <3>2. JobOf(w) \in cancelled \/ job = JobOf(w) BY DEF ExportInv, JobKept
        <3>3. JobOf(w) # NoJob BY DEF JobOf, NoJob, ExportInv, ExportTypeOK, Workers
        <3>4. job = JobOf(w) /\ ~Unwanted(state) => job = <<state.session, state.request>>
            BY <3>3 DEF Unwanted
        <3> QED BY <3>1, <3>2, <3>4, <1>7, <1>10
    <2> QED BY <2>1, <2>2, <1>8, <1>10 DEF JobKept, JobOf
<1>13. RequestAtWork' BY <1>7, <1>8, <1>9, <1>10 DEF RequestAtWork, JobOf
<1>14. SessionsBehind'
    <2>1. \A i \in 1..Len(posted') : posted'[i].session <= button.generation
    BY <1>2, <1>7, <1>9 DEF ExportInv, SessionsBehind
    <2>2. state.session = export.session BY <1>4, <1>7
    <2> QED BY <1>1, <1>3, <1>7, <1>9, <2>1, <2>2 DEF ExportInv, SessionsBehind
<1>15. ViewFollowed' BY <1>2, <1>3, <1>4, <1>5, <1>7, <1>9 DEF ViewFollowed
<1>16. Awaited' BY <1>2, <1>3, <1>7, <1>9 DEF Awaited
<1> QED BY <1>11, <1>12, <1>13, <1>14, <1>15, <1>16 DEF ExportInv

LEMMA ShowSnapshotProof == ASSUME ExportInv, ShowSnapshot PROVE ExportInv'
<1> DEFINE state == Head(posted)
           answered == state.session = button.generation /\ state.completed = button.request
<1>1. /\ posted # <<>> /\ posted' = Tail(posted)
      /\ UNCHANGED <<export, job, cancelled, workers, closings>>
      /\ button' = IF answered THEN [button EXCEPT !.pending = FALSE] ELSE button
    BY DEF ShowSnapshot
<1>2. /\ posted \in Seq(States) /\ Len(posted) \in Nat /\ state = posted[1]
      /\ posted' \in Seq(States) /\ Len(posted') = Len(posted) - 1
      /\ \A i \in 1..Len(posted') : posted'[i] = posted[i + 1]
    BY <1>1 DEF ExportInv, ExportTypeOK
<1>3. Len(posted) # 0 BY <1>1, <1>2
<1>4. /\ 1 \in 1..Len(posted)
      /\ \A i \in 1..Len(posted') : i + 1 \in 1..Len(posted)
      /\ \A i \in 1..Len(posted) : i = 1 \/ (i - 1 \in 1..Len(posted') /\ (i - 1) + 1 = i)
    BY <1>2, <1>3
<1>5. /\ button' \in [generation : Nat, open : BOOLEAN, request : Nat, pending : BOOLEAN]
      /\ button'.generation = button.generation /\ button'.open = button.open
      /\ button'.request = button.request
      /\ button'.pending = (button.pending /\ ~answered)
    BY <1>1 DEF ExportInv, ExportTypeOK
<1> HIDE DEF state
<1>6. ExportTypeOK' /\ JobKept' /\ RequestAtWork'
    BY <1>1, <1>2, <1>5 DEF ExportInv, ExportTypeOK, JobKept, RequestAtWork, JobOf
<1>7. \A i \in 1..Len(posted') : \E k \in 1..Len(posted) : posted'[i] = posted[k] BY <1>2, <1>4
<1>8. SessionsBehind' BY <1>1, <1>5, <1>7 DEF ExportInv, SessionsBehind
\* The snapshot that gives the button back says that nothing is asked for.
<1>9. ASSUME button.open, button.pending, answered
      PROVE  export.request = 0
    <2>1. /\ state.completed <= export.completed /\ export.completed <= button.request
          /\ export.request <= button.request
          /\ export.request = 0 \/ export.request > export.completed
        BY <1>2, <1>4, <1>9 DEF ExportInv, ViewFollowed
    <2>2. export.request \in Nat /\ export.completed \in Nat /\ button.request \in Nat
        BY DEF ExportInv, ExportTypeOK, States
    <2> QED BY <2>1, <2>2, <1>9
<1>10. ViewFollowed' BY <1>1, <1>5, <1>7, <1>9 DEF ExportInv, ViewFollowed
<1>11. Awaited'
    <2> SUFFICES ASSUME button.pending, ~answered PROVE Awaited' BY <1>5 DEF Awaited
    <2>1. CASE export.request = button.request /\ button.request # 0
        BY <1>1, <1>5, <2>1 DEF ExportInv, Awaited
    <2>2. CASE \E i \in 1..Len(posted) : posted[i].session = button.generation
                                          /\ posted[i].completed = button.request
        <3>1. PICK i \in 1..Len(posted) : posted[i].session = button.generation
                                          /\ posted[i].completed = button.request
            BY <2>2
        <3>2. i # 1 BY <3>1, <1>2
        <3>3. i - 1 \in 1..Len(posted') /\ posted'[i - 1] = posted[i] BY <3>2, <1>2, <1>4
        <3> QED BY <3>1, <3>3, <1>5 DEF ExportInv, Awaited
    <2> QED BY <2>1, <2>2 DEF ExportInv, Awaited
<1> QED BY <1>6, <1>8, <1>10, <1>11 DEF ExportInv

----------------------------------------
LEMMA ExportNextProof == ASSUME ExportInv, [ExportNext]_exportVars PROVE ExportInv'
<1>1. CASE ExportNext
    BY <1>1, OpenProof, CloseAnnotationProof, ViewFailsProof, StartExportProof,
       ShowSnapshotProof, TellClosedProof, WorkProof, ReportProof DEF ExportNext
<1>2. CASE UNCHANGED exportVars
    BY <1>2 DEF exportVars, ExportInv, ExportTypeOK, JobKept, RequestAtWork, SessionsBehind,
       ViewFollowed,
                Awaited, JobOf
<1> QED BY <1>1, <1>2

LEMMA AccountedProof == ExportInv => ExportAccounted
<1> SUFFICES ASSUME ExportInv PROVE OneExportAtWork /\ ButtonReturns BY DEF ExportAccounted
<1>1. OneExportAtWork
    <2> SUFFICES ASSUME NEW w \in workers, ~Cancelled(w)
                 PROVE  job = JobOf(w) /\ JobOf(w) = <<export.session, export.request>>
        BY DEF OneExportAtWork
    <2>1. job = JobOf(w) BY DEF ExportInv, JobKept, Cancelled
    <2>2. JobOf(w) # NoJob BY DEF JobOf, NoJob, ExportInv, ExportTypeOK, Workers
    <2> QED BY <2>1, <2>2 DEF ExportInv, JobKept
<1>2. ButtonReturns
    <2> SUFFICES ASSUME button.pending PROVE ButtonReturns BY DEF ButtonReturns
    <2>1. CASE export.request = button.request /\ button.request # 0
    BY <2>1 DEF ExportInv, Awaited, ViewFollowed, RequestAtWork, ButtonReturns
    <2>2. CASE \E i \in 1..Len(posted) : posted[i].session = button.generation
                                          /\ posted[i].completed = button.request
    BY <2>2 DEF ExportInv, ExportTypeOK, ButtonReturns
    <2> QED BY <2>1, <2>2 DEF ExportInv, Awaited
<1> QED BY <1>1, <1>2

\* At most one export that nobody cancelled is at work, the one of the state, and the button
\* that waits for its export gets its answer (annotation_export.rs: sync, complete; export.rs).
THEOREM ExportsAccounted == ExportSpec => []ExportAccounted
<1>1. ExportInit => ExportInv BY ExportInitProof
<1>2. ExportInv /\ [ExportNext]_exportVars => ExportInv' BY ExportNextProof
<1> QED BY <1>1, <1>2, AccountedProof, PTL DEF ExportSpec

----------------------------------------
(* ProviderPage: the drafts of the connections.                              *)

Drafts == [address : Int, header : Int]
Pages  == [service : Services \cup {Plain}, address : Int, header : Int]

PageTypeOK ==
    /\ stored \in [Services -> Drafts] /\ wanted \in [Services -> Drafts]
    /\ page \in Pages
    /\ dormant \in [Services -> Drafts \cup {Empty}]
    /\ dialog \in Drafts \cup {Empty}
    /\ awaiting = Empty \/ awaiting \in [service : Services, header : Int]
    /\ applying = Empty \/ applying \in Pages
    /\ lapsed \in [Services -> {Nobody, "dialog", "submission"}]

\* What is awaited is being applied; a dialog belongs to a connection.
Submitted ==
    /\ awaiting = Empty <=> applying = Empty
    /\ awaiting # Empty =>
          applying.service = awaiting.service /\ applying.header = awaiting.header
    /\ dialog # Empty => page.service # Plain

\* The draft that counts for a service.
DraftOf(service) ==
    IF page.service = service THEN IF dialog # Empty THEN dialog ELSE Draft(page)
    ELSE Restored(service, dormant)

\* While a connection is saved a draft of it is kept, and a header that is saved is still
\* pending in it: the end of the submission takes it out.
Follows(draft) == draft \in Drafts /\ (awaiting.header # Same => draft.header # Same)

SubmissionKept ==
    \A service \in Services : Saving(service) /\ lapsed[service] = Nobody =>
        IF page.service = service
        THEN Follows(Draft(page)) /\ (dialog # Empty => Follows(dialog))
        ELSE Follows(dormant[service])

PageInv == PageTypeOK /\ Submitted /\ SubmissionKept /\ EditsKept

LEMMA DraftsExist == Empty \notin Drafts
BY DEF Empty, Drafts

LEMMA KeptDraft ==
    ASSUME NEW service PROVE Kept(service) <=> Seen(DraftOf(service), service) = wanted[service]
BY DEF Kept, DraftOf, Restored

LEMMA DraftTypes ==
    ASSUME PageTypeOK
    PROVE  /\ Draft(page) \in Drafts
           /\ \A service \in Services : DraftOf(service) \in Drafts /\ Clean(service) \in Drafts
  BY DEF PageTypeOK, Pages, Draft, Drafts, Clean, Same, DraftOf, Restored

LEMMA PageInitProof == PageInit => PageInv
<1> SUFFICES ASSUME PageInit PROVE PageInv OBVIOUS
<1>1. /\ page = [service |-> Plain, address |-> 0, header |-> Same] /\ page.service = Plain
      /\ dialog = Empty /\ awaiting = Empty /\ applying = Empty /\ wanted = stored
      /\ \A service \in Services : /\ dormant[service] = Empty
                                   /\ stored[service] = [address |-> 0, header |-> Removed]
  BY DEF PageInit
<1>2. PageTypeOK BY <1>1 DEF Drafts, Removed, Pages, Same, PageInit, PageTypeOK
<1>3. EditsKept
  <2> SUFFICES ASSUME NEW service \in Services PROVE Kept(service) BY DEF EditsKept
  <2>1. DraftOf(service) = Clean(service) BY <1>1, ServicesAssumption DEF DraftOf, Restored
  <2> QED BY <1>1, <2>1, KeptDraft DEF Clean, Seen, Overlay
<1> QED BY <1>1, <1>2, <1>3 DEF PageInv, Submitted, SubmissionKept, Saving

\* A step that leaves drafts, settings and submission alone keeps the invariant.
LEMMA PageUntouched ==
    ASSUME PageInv,
           UNCHANGED <<stored, page, dormant, dialog, awaiting, applying, wanted, lapsed>>
    PROVE  PageInv'
BY DEF PageInv, PageTypeOK, Submitted, SubmissionKept, Saving, Follows, EditsKept, Kept, Seen,
       Draft, Clean

LEMMA EditAddressProof ==
    ASSUME PageInv, NEW value \in Int, EditAddress(value)
    PROVE  PageInv'
<1>1. /\ page.service \in Services /\ page' \in Pages /\ page'.service = page.service
      /\ page'.address = value /\ page'.header = page.header
  BY DEF PageInv, PageTypeOK, Pages, EditAddress
<1>2. /\ UNCHANGED <<stored, dormant, dialog, awaiting, applying, lapsed>>
      /\ dialog # Empty => wanted' = wanted
      /\ dialog = Empty => wanted' = [wanted EXCEPT ![page.service].address = value]
  BY DEF EditAddress
<1>3. wanted' \in [Services -> Drafts] BY <1>1, <1>2 DEF PageInv, PageTypeOK, Drafts
<1>4. PageTypeOK' /\ Submitted' BY <1>1, <1>2, <1>3 DEF PageInv, PageTypeOK, Submitted
<1>5. SubmissionKept'
  BY <1>1, <1>2 DEF Pages, Draft, Drafts, PageInv, SubmissionKept, Saving, Follows
<1>6. EditsKept'
  <2> SUFFICES ASSUME NEW service \in Services, lapsed[service] = Nobody PROVE Kept(service)'
    BY <1>2 DEF EditsKept
  <2>1. Kept(service) BY DEF PageInv, EditsKept
  <2>2. CASE page.service # service \/ dialog # Empty
    BY <1>1, <1>2, <2>1, <2>2 DEF PageInv, PageTypeOK, Kept, Seen, Clean
  <2>3. CASE page.service = service /\ dialog = Empty
    BY <1>1, <1>2, <2>1, <2>3 DEF PageInv, PageTypeOK, Kept, Seen, Draft
  <2> QED BY <2>2, <2>3
<1> QED BY <1>4, <1>5, <1>6 DEF PageInv

LEMMA EditHeaderProof ==
    ASSUME PageInv, NEW value \in Int, value # Same, EditHeader(value)
    PROVE  PageInv'
  BY DEF PageInv, PageTypeOK, Pages, EditHeader, Submitted, Draft, Drafts, SubmissionKept,
     Saving, Follows, EditsKept, Kept, Seen, Clean

LEMMA OpenDialogProof == ASSUME PageInv, OpenDialog PROVE PageInv'
<1>1. /\ UNCHANGED <<stored, page, dormant, awaiting, applying, lapsed, wanted>>
      /\ dialog = Empty /\ dialog' = Draft(page) /\ page.service # Plain
  BY DEF OpenDialog, Modal
<1>2. Draft(page) \in Drafts /\ Draft(page) # Empty BY DraftTypes, DraftsExist DEF PageInv
<1>3. PageTypeOK' /\ Submitted' BY <1>1, <1>2 DEF PageInv, PageTypeOK, Submitted
<1>4. SubmissionKept' BY <1>1, <1>2 DEF PageInv, SubmissionKept, Saving, Follows, Draft
<1>5. EditsKept' BY <1>1, <1>2 DEF PageInv, EditsKept, Kept, Seen, Clean
<1> QED BY <1>3, <1>4, <1>5 DEF PageInv

LEMMA CloseDialogProof ==
    ASSUME PageInv, NEW confirm \in BOOLEAN, CloseDialog(confirm)
    PROVE  PageInv'
<1>1. /\ UNCHANGED <<stored, dormant, awaiting, applying, lapsed>>
      /\ dialog \in Drafts /\ dialog # Empty /\ dialog' = Empty /\ page.service \in Services
  BY DEF CloseDialog, PageInv, PageTypeOK, Submitted, Pages
<1>2. CASE confirm
  <2>1. page' = page /\ wanted' = [wanted EXCEPT ![page.service] = Seen(page, page.service)]
    BY <1>2 DEF CloseDialog
  <2>2. Seen(page, page.service) \in Drafts
    BY <1>1 DEF PageInv, PageTypeOK, Pages, Drafts, Seen, Overlay
  <2>3. PageTypeOK' /\ Submitted' BY <1>1, <2>1, <2>2 DEF PageInv, PageTypeOK, Submitted
  <2>4. SubmissionKept' BY <1>1, <2>1 DEF PageInv, SubmissionKept, Saving, Follows, Draft
  <2>5. EditsKept'
    <3> SUFFICES ASSUME NEW service \in Services, lapsed[service] = Nobody PROVE Kept(service)'
      BY <1>1 DEF EditsKept
    <3>1. Kept(service) BY DEF PageInv, EditsKept
    <3>2. CASE page.service # service
      BY <1>1, <2>1, <3>1, <3>2 DEF PageInv, PageTypeOK, Kept, Seen, Clean
    <3>3. CASE page.service = service BY <1>1, <2>1, <3>3 DEF PageInv, PageTypeOK, Kept, Seen, Draft
    <3> QED BY <3>2, <3>3
  <2> QED BY <2>3, <2>4, <2>5 DEF PageInv
<1>3. CASE ~confirm
  <2>1. wanted' = wanted BY <1>3 DEF CloseDialog
  <2>2. /\ page' \in Pages /\ page'.service = page.service
        /\ page'.address = dialog.address /\ page'.header = dialog.header
    <3>1. page' = [page EXCEPT !.address = dialog.address, !.header = dialog.header]
      BY <1>3 DEF CloseDialog
    <3>2. dialog.address \in Int /\ dialog.header \in Int BY <1>1 DEF Drafts
    <3> QED BY <3>1, <3>2 DEF PageInv, PageTypeOK, Pages
  <2>3. Draft(page)' = dialog BY <1>1, <2>2 DEF Draft, Drafts
  <2>4. PageTypeOK' /\ Submitted' BY <1>1, <2>1, <2>2 DEF PageInv, PageTypeOK, Submitted
  <2>5. SubmissionKept' BY <1>1, <2>2, <2>3 DEF PageInv, SubmissionKept, Saving, Follows
  <2>6. EditsKept' BY <1>1, <2>1, <2>2, <2>3 DEF PageInv, EditsKept, Kept, Seen, Clean
  <2> QED BY <2>4, <2>5, <2>6 DEF PageInv
<1> QED BY <1>2, <1>3

\* What remember keeps of a service, unless it takes a confirmed draft for a clean one, is the
\* draft that counts, and the one a submission needs.
LEMMA Remembering ==
    ASSUME PageInv, NEW service \in Services, Lapsing[service] = Nobody
    PROVE  /\ lapsed[service] = Nobody
           /\ Restored(service, Remembered) = DraftOf(service)
           /\ Saving(service) => Follows(Remembered[service])
<1>1. lapsed[service] = Nobody BY DEF PageInv, PageTypeOK, Pages, Lapsing, Nobody
<1>2. Draft(page) \in Drafts /\ Draft(page) # Empty BY DraftTypes, DraftsExist DEF PageInv
<1>3. Saving(service) =>
         IF page.service = service
         THEN Follows(Draft(page)) /\ (dialog # Empty => Follows(dialog))
         ELSE Follows(dormant[service])
  BY <1>1 DEF PageInv, SubmissionKept
<1>4. CASE page.service # service
  BY <1>1, <1>3, <1>4 DEF PageInv, PageTypeOK, Pages, Remembered, Restored, DraftOf
<1>5. CASE page.service = service /\ Dirty
  BY <1>1, <1>2, <1>3, <1>5, ServicesAssumption DEF PageInv, PageTypeOK, Remembered, Restored,
     DraftOf
<1>6. CASE page.service = service /\ ~Dirty
  BY <1>1, <1>6, ServicesAssumption DEF Dirty, PageInv, PageTypeOK, Remembered, Lapsing, Nobody,
     Restored, DraftOf
<1> QED BY <1>4, <1>5, <1>6

LEMMA RememberedType == ASSUME PageTypeOK PROVE Remembered \in [Services -> Drafts \cup {Empty}]
  BY DraftTypes DEF PageTypeOK, Remembered

\* Loading a service makes the draft that was kept, or the settings, the one that counts.
LEMMA Loading ==
    ASSUME PageTypeOK, NEW target \in Services \cup {Plain},
           NEW drafts \in [Services -> Drafts \cup {Empty}], Load(target, drafts),
           UNCHANGED stored
    PROVE  /\ page' \in Pages /\ page'.service = target /\ dialog' = Empty
           /\ dormant' \in [Services -> Drafts \cup {Empty}]
           /\ target \in Services => Draft(page)' = Restored(target, drafts)
           /\ \A service \in Services : service # target => dormant'[service] = drafts[service]
           /\ \A service \in Services : DraftOf(service)' = Restored(service, drafts)
<1>1. ASSUME NEW service \in Services PROVE Restored(service, drafts) \in Drafts
  BY DraftTypes DEF Restored
<1>2. page' \in Pages /\ page'.service = target BY <1>1 DEF Load, Pages, Same, Drafts
<1>3. target \in Services => Draft(page)' = Restored(target, drafts)
  <2> SUFFICES ASSUME target \in Services PROVE Draft(page)' = Restored(target, drafts) OBVIOUS
  <2>1. /\ page'.address = Restored(target, drafts).address
        /\ page'.header = Restored(target, drafts).header
    BY ServicesAssumption DEF Load
  <2> QED BY <1>1, <2>1 DEF Draft, Drafts
<1>4. dialog' = Empty /\ dormant' \in [Services -> Drafts \cup {Empty}] BY DEF Load
<1>5. ASSUME NEW service \in Services, service # target PROVE dormant'[service] = drafts[service]
  BY <1>5 DEF Load
<1>6. ASSUME NEW service \in Services PROVE DraftOf(service)' = Restored(service, drafts)
  BY <1>2, <1>3, <1>4, <1>5 DEF DraftOf, Restored, Clean
<1> QED BY <1>2, <1>3, <1>4, <1>5, <1>6

LEMMA ShowServiceProof ==
    ASSUME PageInv, NEW target \in Services \cup {Plain}, ShowService(target)
    PROVE  PageInv'
<1>1. /\ Load(target, Remembered) /\ lapsed' = Lapsing
      /\ UNCHANGED <<stored, awaiting, applying, translator, wanted>>
  BY DEF ShowService
<1>2. Remembered \in [Services -> Drafts \cup {Empty}] BY RememberedType DEF PageInv
<1>3. /\ page' \in Pages /\ page'.service = target /\ dialog' = Empty
      /\ dormant' \in [Services -> Drafts \cup {Empty}]
      /\ target \in Services => Draft(page)' = Restored(target, Remembered)
      /\ \A service \in Services : service # target => dormant'[service] = Remembered[service]
      /\ \A service \in Services : DraftOf(service)' = Restored(service, Remembered)
  BY <1>1, <1>2, Loading DEF PageInv
<1>4. lapsed' \in [Services -> {Nobody, "dialog", "submission"}]
  BY <1>1 DEF PageInv, PageTypeOK, Lapsing
<1>5. PageTypeOK' /\ Submitted' BY <1>1, <1>3, <1>4 DEF PageInv, PageTypeOK, Submitted
<1>6. SubmissionKept'
  <2> SUFFICES ASSUME NEW service \in Services, Saving(service)', lapsed'[service] = Nobody
               PROVE  IF page'.service = service
                      THEN Follows(Draft(page))' /\ (dialog' # Empty => Follows(dialog)')
                      ELSE Follows(dormant[service])'
    BY DEF SubmissionKept
  <2>1. Follows(Remembered[service]) BY <1>1, Remembering DEF Saving
  <2>2. Restored(service, Remembered) = Remembered[service]
    BY <2>1, DraftsExist DEF Restored, Follows
  <2> QED BY <1>1, <1>3, <2>1, <2>2 DEF Follows
<1>7. EditsKept'
  <2> SUFFICES ASSUME NEW service \in Services, lapsed'[service] = Nobody PROVE Kept(service)'
    BY DEF EditsKept
  <2>1. lapsed[service] = Nobody /\ DraftOf(service)' = DraftOf(service) BY <1>1, <1>3, Remembering
  <2>2. Seen(DraftOf(service), service) = wanted[service] BY <2>1, KeptDraft DEF PageInv, EditsKept
  <2>3. (Seen(DraftOf(service), service) = wanted[service])' BY <1>1, <2>1, <2>2 DEF Seen
  <2> QED BY <2>3 DEF Kept, DraftOf, Restored
<1> QED BY <1>5, <1>6, <1>7 DEF PageInv

LEMMA CancelConnectionProof == ASSUME PageInv, CancelConnection PROVE PageInv'
<1> DEFINE shown  == page.service
           drafts == [dormant EXCEPT ![shown] = Empty]
<1>1. /\ shown \in Services /\ ~Saving(shown) /\ Load(shown, drafts)
      /\ wanted' = [wanted EXCEPT ![shown] = stored[shown]]
      /\ lapsed' = [lapsed EXCEPT ![shown] = Nobody]
      /\ UNCHANGED <<stored, awaiting, applying>>
  BY DEF CancelConnection, PageInv, PageTypeOK, Pages
<1>2. drafts \in [Services -> Drafts \cup {Empty}] BY <1>1 DEF PageInv, PageTypeOK
<1>3. /\ page' \in Pages /\ page'.service = shown /\ dialog' = Empty
      /\ dormant' \in [Services -> Drafts \cup {Empty}]
      /\ \A service \in Services : service # shown => dormant'[service] = drafts[service]
      /\ \A service \in Services : DraftOf(service)' = Restored(service, drafts)
  BY <1>1, <1>2, Loading DEF PageInv
<1>4. /\ wanted' \in [Services -> Drafts]
      /\ lapsed' \in [Services -> {Nobody, "dialog", "submission"}]
  BY <1>1 DEF PageInv, PageTypeOK
<1>5. PageTypeOK' /\ Submitted' BY <1>1, <1>3, <1>4 DEF PageInv, PageTypeOK, Submitted
<1>6. ASSUME NEW service \in Services, service # shown
      PROVE  /\ dormant'[service] = dormant[service] /\ wanted'[service] = wanted[service]
             /\ lapsed'[service] = lapsed[service]
  BY <1>1, <1>3, <1>6 DEF PageInv, PageTypeOK
<1>7. SubmissionKept' BY <1>1, <1>3, <1>6 DEF PageInv, SubmissionKept, Saving, Follows
<1>8. EditsKept'
  <2> SUFFICES ASSUME NEW service \in Services, lapsed'[service] = Nobody PROVE Kept(service)'
    BY DEF EditsKept
  <2>1. CASE service = shown
    <3>1. DraftOf(service)' = Clean(service) /\ wanted'[service] = stored[service]
      BY <1>1, <1>3, <2>1 DEF PageInv, PageTypeOK, Restored
    <3>2. Seen(Clean(service), service) = stored[service]
      BY DEF Seen, Clean, Overlay, Same, PageInv, PageTypeOK, Drafts
    <3>3. (Seen(DraftOf(service), service) = wanted[service])' BY <1>1, <3>1, <3>2 DEF Seen
    <3> QED BY <3>3 DEF Kept, DraftOf, Restored
  <2>2. CASE service # shown BY <1>1, <1>3, <1>6, <2>2 DEF PageInv, EditsKept, Kept, Seen, Clean
  <2> QED BY <2>1, <2>2
<1> QED BY <1>5, <1>7, <1>8 DEF PageInv

LEMMA SubmitConnectionProof == ASSUME PageInv, SubmitConnection PROVE PageInv'
<1>1. /\ page.service \in Services /\ dialog = Empty /\ applying' = page
      /\ awaiting' = [service |-> page.service, header |-> page.header]
      /\ UNCHANGED <<stored, page, dormant, dialog, wanted, lapsed>>
  BY DEF SubmitConnection, PageInv, PageTypeOK, Pages, Dirty, Modal
<1>2. /\ awaiting' \in [service : Services, header : Int] /\ awaiting' # Empty
      /\ awaiting'.service = page.service /\ awaiting'.header = page.header
  BY <1>1 DEF PageInv, PageTypeOK, Pages, Empty
<1>3. applying' \in Pages /\ applying' # Empty BY <1>1 DEF PageInv, PageTypeOK, Pages, Empty
<1>4. PageTypeOK' /\ Submitted' BY <1>1, <1>2, <1>3 DEF PageInv, PageTypeOK, Submitted
<1>5. SubmissionKept' BY <1>1, <1>2, DraftTypes DEF PageInv, Draft, SubmissionKept, Saving, Follows
<1>6. EditsKept' BY <1>1 DEF PageInv, EditsKept, Kept, Seen, Clean
<1> QED BY <1>4, <1>5, <1>6 DEF PageInv

LEMMA ConnectionRefusedProof == ASSUME PageInv, ConnectionRefused PROVE PageInv'
  BY DEF ConnectionRefused, PageInv, PageTypeOK, Submitted, SubmissionKept, Saving, EditsKept,
     Kept, Seen, Clean

\* What was submitted is saved; a draft that follows it says the same of the new settings once
\* its header is no longer pending.
LEMMA Applying ==
    ASSUME NEW draft \in Drafts, NEW header \in Int,
           awaiting.header # Same => draft.header # Same
    PROVE  Overlay(Less(draft.header), Overlay(awaiting.header, header))
              = Overlay(draft.header, header)
BY DEF Overlay, Less

LEMMA ConnectionAppliedProof == ASSUME PageInv, ConnectionApplied PROVE PageInv'
<1> DEFINE saved == awaiting.service
<1>1. /\ applying # Empty /\ awaiting # Empty /\ saved \in Services /\ awaiting.header \in Int
      /\ applying \in Pages /\ applying.service = saved /\ applying.header = awaiting.header
  BY DEF ConnectionApplied, PageInv, PageTypeOK, Submitted
<1>2. /\ stored' = [stored EXCEPT ![saved] = [address |-> applying.address,
                                             header |-> Overlay(awaiting.header, @.header)]]
      /\ applying' = Empty /\ awaiting' = Empty /\ UNCHANGED <<wanted, lapsed>>
  BY <1>1 DEF ConnectionApplied
<1>3. stored' \in [Services -> Drafts] BY <1>1, <1>2 DEF PageInv, PageTypeOK, Drafts, Pages, Overlay
<1>4. /\ stored'[saved].header = Overlay(awaiting.header, stored[saved].header)
      /\ \A service \in Services : service # saved => stored'[service] = stored[service]
  BY <1>1, <1>2 DEF PageInv, PageTypeOK
<1>5. ASSUME NEW draft \in Drafts
      PROVE  /\ Without(draft) \in Drafts /\ Without(draft) # Empty
             /\ Without(draft).address = draft.address
             /\ Without(draft).header = Less(draft.header)
  BY DraftsExist DEF Without, Less, Same, Drafts
<1>6. Without(Empty) = Empty BY DEF Without
<1>7. /\ page' \in Pages /\ page'.service = page.service /\ page'.address = page.address
      /\ page'.header = IF page.service = saved THEN Less(page.header) ELSE page.header
      /\ dialog' = IF page.service = saved THEN Without(dialog) ELSE dialog
      /\ \A service \in Services :
            dormant'[service] = IF page.service # saved /\ service = saved
                                THEN Without(dormant[service]) ELSE dormant[service]
      /\ dormant' \in [Services -> Drafts \cup {Empty}]
  BY <1>1, <1>5, <1>6 DEF ConnectionApplied, Less, Same, PageInv, PageTypeOK, Pages
<1>8. dialog' \in Drafts \cup {Empty} /\ (dialog' = Empty <=> dialog = Empty)
  BY <1>5, <1>6, <1>7, DraftsExist DEF PageInv, PageTypeOK
<1>9. PageTypeOK' /\ Submitted' BY <1>2, <1>3, <1>7, <1>8 DEF PageInv, PageTypeOK, Submitted
<1>10. SubmissionKept' BY <1>2 DEF SubmissionKept, Saving
<1>11. EditsKept'
  <2> SUFFICES ASSUME NEW service \in Services, lapsed[service] = Nobody PROVE Kept(service)'
    BY <1>2 DEF EditsKept
  <2>1. Kept(service) BY DEF PageInv, EditsKept
  <2>2. CASE service # saved BY <1>2, <1>4, <1>7, <2>1, <2>2 DEF Kept, Seen, Clean, Draft
  <2>3. CASE service = saved
    <3>1. IF page.service = service
          THEN Follows(Draft(page)) /\ (dialog # Empty => Follows(dialog))
          ELSE Follows(dormant[service])
      BY <1>1, <2>3 DEF PageInv, SubmissionKept, Saving
    <3>2. PICK draft \in Drafts :
             /\ draft = IF page.service # service THEN dormant[service]
                        ELSE IF dialog # Empty THEN dialog ELSE Draft(page)
             /\ awaiting.header # Same => draft.header # Same
      BY <3>1 DEF Follows
    <3>3. Seen(draft, service) = wanted[service] BY <2>1, <3>2, DraftsExist DEF Kept
    <3>4. stored[service].header \in Int BY DEF PageInv, PageTypeOK, Drafts
    <3>5. Overlay(Less(draft.header), stored'[service].header)
             = Overlay(draft.header, stored[service].header)
      BY <1>4, <2>3, <3>2, <3>4, Applying
    <3>6. CASE page.service = service /\ dialog = Empty
      BY <1>2, <1>7, <1>8, <2>3, <3>2, <3>3, <3>5, <3>6 DEF Draft, Kept, Seen
    <3>7. CASE page.service = service /\ dialog # Empty
      BY <1>2, <1>5, <1>7, <1>8, <2>3, <3>2, <3>3, <3>5, <3>7 DEF Kept, Seen
    <3>8. CASE page.service # service
      BY <1>2, <1>5, <1>7, <2>3, <3>2, <3>3, <3>5, <3>8 DEF Kept, Seen
    <3> QED BY <3>6, <3>7, <3>8
  <2> QED BY <2>2, <2>3
<1> QED BY <1>9, <1>10, <1>11 DEF PageInv

LEMMA PageNextProof == ASSUME PageInv, [PageNext]_pageVars PROVE PageInv'
<1>1. ASSUME NEW value \in 0..MaxEdits, EditAddress(value) \/ EditHeader(value) PROVE PageInv'
  BY <1>1, EditAddressProof, EditHeaderProof DEF Same
<1>2. ASSUME NEW service \in Services \cup {Plain}, SelectTranslator(service) PROVE PageInv'
  BY <1>2, PageUntouched DEF SelectTranslator
<1>3. CASE \/ TranslatorSaved \/ TranslatorRefused \/ OpenProbe \/ StartProbe \/ ProbeAnswered
           \/ CloseProbe \/ UNCHANGED pageVars
  BY <1>3, PageUntouched DEF TranslatorSaved, TranslatorRefused, OpenProbe, StartProbe,
     ProbeAnswered, CloseProbe, pageVars
<1> QED
  BY <1>1, <1>2, <1>3, OpenDialogProof, CloseDialogProof, ShowServiceProof,
     CancelConnectionProof, SubmitConnectionProof, ConnectionAppliedProof, ConnectionRefusedProof
     DEF PageNext

\* Whatever the user confirmed for a service is in its settings or in a draft that still says so,
\* through every order of editing, switching services, cancelling and submissions that end late
\* (remember, restore and completed of llm_settings/connection.rs).
THEOREM EditsAreKept == PageSpec => []EditsKept
<1>1. PageInit => PageInv BY PageInitProof
<1>2. PageInv /\ [PageNext]_pageVars => PageInv' BY PageNextProof
<1>3. PageInv => EditsKept BY DEF PageInv
<1> QED BY <1>1, <1>2, <1>3, PTL DEF PageSpec

----------------------------------------
(* MosaicMasks: what was sampled below the masks, and the effects shown.     *)

Regions   == SUBSET Nat
SampleReq == [revision : Nat, regions : Regions]
Frames    == [revision : Nat, serial : Nat, regions : Regions]
Pictures  == [objects : Regions, draft : Nat]
Tasks     == [content : Pictures, serial : Nat, regions : Regions]
Mosaics   == [regions : Regions, revision : Nat, floor : Nat, waiting : BOOLEAN,
              polling : BOOLEAN, pending : Regions, frame : Frames, effects : Tasks]
Samplers  == [request : SampleReq, generation : Nat, frame : Frames, error : BOOLEAN]
Filters   == [submitted : Tasks, job : Tasks, running : Tasks, context : Pictures,
              result : Tasks]

MaskTypeOK ==
    /\ maskCounts \in [gestures : Nat, failures : Nat]
    /\ objects \in Regions /\ undo \in Seq(Regions) /\ drawing \in Nat /\ dirty \in BOOLEAN
    /\ mosaic \in Mosaics /\ sampler \in Samplers /\ filter \in Filters
    /\ sampling \in [request : SampleReq, generation : Nat] /\ serial \in Nat

\* Masks are numbered as they are begun; the one being drawn is not in the document yet.
NewMask(mask) == mask \notin objects /\ \A i \in DOMAIN undo : mask \notin undo[i]
MasksNumbered ==
    /\ \A mask \in Nat : mask = 0 \/ mask > maskCounts.gestures => NewMask(mask)
    /\ drawing <= maskCounts.gestures
    /\ drawing # NoMask => NewMask(drawing)

\* A provisional mask stays in the snapshots after the one it came with.
Chained ==
    \A i \in DOMAIN undo :
        /\ mosaic.pending \cap undo[i] \subseteq objects \cup unconfirmed
        /\ \A j \in DOMAIN undo :
              i < j => mosaic.pending \cap undo[i] \subseteq undo[j] \cup unconfirmed

\* A sample of the last revision is one of the regions asked for last.
Recent(revision, regions) ==
    /\ revision \in 1..mosaic.revision
    /\ revision = mosaic.revision => regions = mosaic.regions
SamplesTrue ==
    /\ \A f \in {mosaic.frame, sampler.frame} : f # NoFrame => Recent(f.revision, f.regions)
    /\ mosaic.regions = {} => mosaic.frame = NoFrame
    /\ IF sampler.request = NoRequest
       THEN mosaic.regions = {} /\ sampler.frame = NoFrame /\ ~mosaic.polling
       ELSE /\ mosaic.regions # {} /\ mosaic.revision >= 1
            /\ sampler.request = [revision |-> mosaic.revision, regions |-> mosaic.regions]
    /\ sampling # NotSampling =>
          /\ sampling.generation <= sampler.generation
          /\ sampling.generation = sampler.generation =>
                /\ sampler.request # NoRequest
                /\ Recent(sampling.request.revision, sampling.request.regions)

\* What was submitted last is waiting, at work or done.
SubmittedDone ==
    /\ filter.submitted # NoTask => filter.context = filter.submitted.content
    /\ filter.job # NoTask => filter.job = filter.submitted
    /\ filter.job = NoTask /\ filter.running # NoTask => filter.running = filter.submitted
    /\ filter.job = NoTask /\ filter.running = NoTask =>
          \/ filter.result = filter.submitted
          \/ ~ (Masks(filter.submitted.content) \subseteq filter.submitted.regions)

\* The document was handed on with the sample at hand, or a render will.
TaskFor(content, frame) ==
    [content |-> content, serial |-> frame.serial, regions |-> frame.regions]
HandedOn ==
    \/ dirty
    \/ objects = {} /\ drawing = NoMask /\ sampler.request = NoRequest /\ ~mosaic.polling
    \/ /\ mosaic.polling
       /\ sampler.request = [revision |-> mosaic.revision, regions |-> Masks(MaskContent)]
       /\ \/ mosaic.frame.revision # mosaic.revision
          \/ filter.submitted = TaskFor(MaskContent, mosaic.frame)

MaskInv == /\ MaskTypeOK /\ MasksNumbered /\ Chained /\ MasksAccounted
           /\ SamplesTrue /\ SubmittedDone /\ HandedOn

LEMMA MaskInitProof == MaskInit => MaskInv
<1> SUFFICES ASSUME MaskInit PROVE MaskInv OBVIOUS
<1> USE DEF MaskInit
<1>1. /\ NoRequest \in SampleReq /\ NoFrame \in Frames /\ NoContent \in Pictures
      /\ NoTask \in Tasks /\ NoWorker \in Filters
    BY DEF NoRequest, SampleReq, NoFrame, Frames, NoContent, Pictures, NoTask, Tasks, NoWorker,
           Filters, NoMask, Regions
<1>2. DOMAIN undo = {} OBVIOUS
<1>3. MaskTypeOK
    <2>1. /\ mosaic \in Mosaics /\ sampler \in Samplers /\ filter \in Filters
          /\ sampling \in [request : SampleReq, generation : Nat] /\ serial \in Nat
        BY <1>1 DEF Mosaics, Samplers, NotSampling, Regions
    <2>2. /\ objects \in Regions /\ undo \in Seq(Regions) /\ drawing \in Nat /\ dirty \in BOOLEAN
          /\ maskCounts \in [gestures : Nat, failures : Nat]
        <3>1. <<>> \in Seq(Regions) /\ {} \in Regions BY DEF Regions
        <3> QED BY <3>1 DEF NoMask
    <2> QED BY <2>1, <2>2 DEF MaskTypeOK
<1>4. MasksNumbered /\ Chained /\ MasksAccounted
    BY <1>2 DEF MasksNumbered, NewMask, Chained, MasksAccounted, NoMask
<1>5. SamplesTrue /\ HandedOn BY DEF SamplesTrue, HandedOn
<1>6. SubmittedDone BY DEF SubmittedDone, NoWorker
<1> QED BY <1>3, <1>4, <1>5, <1>6 DEF MaskInv

\* The snapshots that are left of the history are old ones without the masks.
LEMMA Unhistoried ==
    ASSUME undo \in Seq(Regions), NEW ids, NEW u \in UndoWithout(ids)
    PROVE  /\ u \in Seq(Regions)
           /\ \A i \in DOMAIN u : \E j \in DOMAIN undo : u[i] = undo[j] \ ids
<1> DEFINE cleaned == [i \in DOMAIN undo |-> undo[i] \ ids]
           Later(i) == IF i = Len(undo) THEN objects \ ids ELSE cleaned[i + 1]
           kept == {i \in DOMAIN undo : cleaned[i] # Later(i)}
<1>1. PICK s \in InOrder(kept) : u = [i \in DOMAIN s |-> cleaned[s[i]]] BY DEF UndoWithout
<1>2. kept \subseteq 1..Len(undo) /\ Len(undo) \in Nat /\ DOMAIN undo = 1..Len(undo) OBVIOUS
<1> HIDE DEF kept
<1>3. Cardinality(kept) \in Nat
    <2>1. 0 \in Int /\ 1 \in Int /\ Len(undo) \in Int BY <1>2
    <2>2. IsFiniteSet(1..Len(undo)) BY <2>1, FS_Interval
    <2>3. IsFiniteSet(kept) BY <1>2, <2>2, FS_Subset
    <2> QED BY <2>3, FS_CardinalityType
<1>4. s \in [1..Cardinality(kept) -> kept] BY <1>1 DEF InOrder
<1>5. \A i \in DOMAIN s : s[i] \in DOMAIN undo /\ cleaned[s[i]] = undo[s[i]] \ ids BY <1>2, <1>4
<1>6. \A j \in DOMAIN undo : undo[j] \ ids \in Regions BY <1>2 DEF Regions
<1> HIDE DEF cleaned
<1>7. u \in [1..Cardinality(kept) -> Regions] BY <1>1, <1>4, <1>5, <1>6
<1> QED BY <1>1, <1>3, <1>4, <1>5, <1>7, SeqDef

\* A step on the document schedules a render and leaves the samples and the filter alone.
LEMMA DocumentChanges ==
    ASSUME MaskInv, dirty' = TRUE, NEW p \in Regions,
           mosaic' = [mosaic EXCEPT !.pending = p],
           UNCHANGED <<sampler, sampling, serial, filter>>
    PROVE  SamplesTrue' /\ SubmittedDone' /\ HandedOn' /\ mosaic' \in Mosaics
  BY DEF MaskInv, MaskTypeOK, Mosaics, SamplesTrue, Recent, SubmittedDone, HandedOn

LEMMA BeginDrawingProof == ASSUME MaskInv, BeginDrawing PROVE MaskInv'
<1>1. /\ UNCHANGED <<objects, undo, mosaic, unconfirmed, sampler, sampling, serial, filter,
                     covered>>
      /\ dirty' = TRUE /\ MaskTypeOK /\ MasksNumbered
    BY DEF MaskInv, BeginDrawing, Rest
<1>2. /\ maskCounts'.gestures = maskCounts.gestures + 1 /\ maskCounts.gestures \in Nat
      /\ maskCounts' \in [gestures : Nat, failures : Nat]
      /\ drawing' = maskCounts.gestures + 1
    BY DEF MaskInv, MaskTypeOK, BeginDrawing, MaskCount
<1>3. mosaic' = [mosaic EXCEPT !.pending = mosaic.pending] /\ mosaic.pending \in Regions
    BY <1>1 DEF MaskTypeOK, Mosaics
<1>4. SamplesTrue' /\ SubmittedDone' /\ HandedOn' BY <1>1, <1>3, DocumentChanges
<1>5. MaskTypeOK' BY <1>1, <1>2 DEF MaskTypeOK
<1>6. \A mask : NewMask(mask)' <=> NewMask(mask) BY <1>1 DEF NewMask
<1>7. MasksNumbered' BY <1>1, <1>2, <1>6 DEF MasksNumbered
<1>8. Chained' /\ MasksAccounted' BY <1>1 DEF MaskInv, Chained, MasksAccounted
<1> QED BY <1>4, <1>5, <1>7, <1>8 DEF MaskInv

LEMMA ReleaseMaskProof == ASSUME MaskInv, ReleaseMask PROVE MaskInv'
<1>1. /\ UNCHANGED <<unconfirmed, maskCounts, sampler, sampling, serial, filter, covered>>
      /\ drawing # NoMask /\ objects' = objects \cup {drawing} /\ undo' = Append(undo, objects)
      /\ mosaic' = [mosaic EXCEPT !.pending = mosaic.pending \cup {drawing}]
      /\ drawing' = NoMask /\ dirty' = TRUE
    BY DEF ReleaseMask, Rest
<1>2. MaskTypeOK /\ MasksNumbered /\ Chained /\ MasksAccounted BY DEF MaskInv
<1>3. mosaic.pending \cup {drawing} \in Regions /\ mosaic'.pending = mosaic.pending \cup {drawing}
    BY <1>1, <1>2 DEF MaskTypeOK, Mosaics, Regions
<1>4. SamplesTrue' /\ SubmittedDone' /\ HandedOn' /\ mosaic' \in Mosaics
    BY <1>1, <1>3, DocumentChanges
<1>5. /\ undo' \in Seq(Regions) /\ Len(undo) \in Nat
      /\ DOMAIN undo = 1..Len(undo) /\ DOMAIN undo' = 1..(Len(undo) + 1)
      /\ \A i \in DOMAIN undo : undo'[i] = undo[i]
      /\ undo'[Len(undo) + 1] = objects
    BY <1>1, <1>2 DEF MaskTypeOK
<1>6. MaskTypeOK' BY <1>1, <1>2, <1>4, <1>5 DEF MaskTypeOK, NoMask, Regions
<1>7. NewMask(drawing) /\ drawing <= maskCounts.gestures /\ maskCounts.gestures \in Nat
      /\ drawing \in Nat /\ drawing # 0
    BY <1>1, <1>2 DEF MasksNumbered, MaskTypeOK, NoMask
<1>8. MasksNumbered'
    <2>1. \A mask : NewMask(mask) /\ mask # drawing => NewMask(mask)'
        <3> SUFFICES ASSUME NEW mask, NewMask(mask), mask # drawing, NEW i \in DOMAIN undo'
                     PROVE  mask \notin objects' /\ mask \notin undo'[i]
            BY <1>1 DEF NewMask
        <3>1. i \in DOMAIN undo \/ i = Len(undo) + 1 BY <1>5
        <3> QED BY <1>1, <1>5, <3>1 DEF NewMask
    <2> QED BY <1>1, <1>2, <1>7, <2>1 DEF MasksNumbered, NoMask
<1>9. Chained'
    <2> SUFFICES ASSUME NEW i \in DOMAIN undo'
                 PROVE  /\ mosaic'.pending \cap undo'[i] \subseteq objects' \cup unconfirmed
                        /\ \A j \in DOMAIN undo' :
                              i < j => mosaic'.pending \cap undo'[i]
                                           \subseteq undo'[j] \cup unconfirmed
        BY <1>1 DEF Chained
    <2>1. CASE i = Len(undo) + 1 BY <1>1, <1>5, <2>1
    <2>2. CASE i \in DOMAIN undo BY <1>1, <1>2, <1>3, <1>5, <1>7, <2>2 DEF NewMask, Chained
    <2> QED BY <1>5, <2>1, <2>2
<1>10. MasksAccounted' BY <1>1, <1>2, <1>3, <1>5 DEF MasksAccounted
<1> QED BY <1>4, <1>6, <1>8, <1>9, <1>10 DEF MaskInv

\* What is left of the document without the provisional masks was sampled, or was deleted.
LEMMA Discarding ==
    ASSUME MaskInv, Discard
    PROVE  /\ objects' \in Regions /\ undo' \in Seq(Regions) /\ drawing' = NoMask
           /\ \A mask : NewMask(mask) => NewMask(mask)'
           /\ objects' \cup UNION {undo'[i] : i \in DOMAIN undo'} \subseteq covered \cup unconfirmed
<1>1. /\ objects' = objects \ mosaic.pending /\ drawing' = NoMask
      /\ undo' \in UndoWithout(mosaic.pending) /\ undo \in Seq(Regions) /\ objects \in Regions
    BY DEF MaskInv, MaskTypeOK, Discard
<1>2. /\ undo' \in Seq(Regions)
      /\ \A i \in DOMAIN undo' : \E j \in DOMAIN undo : undo'[i] = undo[j] \ mosaic.pending
    BY <1>1, Unhistoried
<1>3. \A mask : NewMask(mask) => NewMask(mask)' BY <1>1, <1>2 DEF NewMask
<1>4. \A j \in DOMAIN undo : undo[j] \ mosaic.pending \subseteq covered \cup unconfirmed
    BY DEF MaskInv, MasksAccounted
<1>5. objects' \subseteq covered \cup unconfirmed BY <1>1 DEF MaskInv, MasksAccounted
<1>6. \A i \in DOMAIN undo' : undo'[i] \subseteq covered \cup unconfirmed BY <1>2, <1>4
<1>7. objects' \in Regions BY <1>1 DEF Regions
<1> QED BY <1>1, <1>2, <1>3, <1>5, <1>6, <1>7

\* After it nothing is provisional.
LEMMA Discarded ==
    ASSUME MaskInv, Discard, mosaic'.pending = {}, covered \subseteq covered',
           unconfirmed' = unconfirmed, maskCounts'.gestures = maskCounts.gestures
    PROVE  MasksNumbered' /\ Chained' /\ MasksAccounted'
<1>1. /\ drawing' = NoMask /\ \A mask : NewMask(mask) => NewMask(mask)'
      /\ objects' \cup UNION {undo'[i] : i \in DOMAIN undo'} \subseteq covered \cup unconfirmed
    BY Discarding
<1>2. MasksNumbered' BY <1>1 DEF MaskInv, MaskTypeOK, MasksNumbered, NoMask
<1>3. Chained' BY DEF Chained
<1>4. MasksAccounted' BY <1>1 DEF MasksAccounted
<1> QED BY <1>2, <1>3, <1>4

LEMMA AbandonProof == ASSUME MaskInv, Abandon PROVE MaskInv'
<1>1. /\ UNCHANGED <<unconfirmed, maskCounts, sampler, sampling, serial, filter, covered>>
      /\ Discard /\ mosaic' = [mosaic EXCEPT !.pending = {}] /\ dirty' = TRUE /\ MaskTypeOK
    BY DEF Abandon, Rest, MaskInv
<1>2. mosaic'.pending = {} /\ {} \in Regions BY <1>1 DEF MaskTypeOK, Mosaics, Regions
<1>3. SamplesTrue' /\ SubmittedDone' /\ HandedOn' /\ mosaic' \in Mosaics
    BY <1>1, <1>2, DocumentChanges
<1>4. MasksNumbered' /\ Chained' /\ MasksAccounted' BY <1>1, <1>2, Discarded
<1>5. MaskTypeOK' BY <1>1, <1>3, Discarding DEF MaskTypeOK, NoMask
<1> QED BY <1>3, <1>4, <1>5 DEF MaskInv

LEMMA UndoMaskProof == ASSUME MaskInv, UndoMask PROVE MaskInv'
<1>1. /\ UNCHANGED <<mosaic, unconfirmed, maskCounts, sampler, sampling, serial, filter, covered>>
      /\ drawing' = NoMask /\ dirty' = TRUE
      /\ \/ UNCHANGED <<objects, undo>>
         \/ /\ undo # <<>>
            /\ objects' = undo[Len(undo)] /\ undo' = SubSeq(undo, 1, Len(undo) - 1)
    BY DEF UndoMask, Rest
<1>2. MaskTypeOK /\ MasksNumbered /\ Chained /\ MasksAccounted BY DEF MaskInv
<1>3. mosaic' = [mosaic EXCEPT !.pending = mosaic.pending] /\ mosaic.pending \in Regions
    BY <1>1, <1>2 DEF MaskTypeOK, Mosaics
<1>4. SamplesTrue' /\ SubmittedDone' /\ HandedOn' /\ mosaic' \in Mosaics
    BY <1>1, <1>3, DocumentChanges
<1>5. CASE UNCHANGED <<objects, undo>>
  BY <1>1, <1>2, <1>4, <1>5 DEF MaskTypeOK, NoMask, MasksNumbered, NewMask, Chained,
     MasksAccounted, MaskInv
<1>6. CASE undo # <<>> /\ objects' = undo[Len(undo)] /\ undo' = SubSeq(undo, 1, Len(undo) - 1)
    <2>1. undo \in Seq(Regions) /\ Len(undo) \in Nat \ {0} /\ DOMAIN undo = 1..Len(undo)
        BY <1>2, <1>6, EmptySeq DEF MaskTypeOK
    <2>2. /\ undo' \in Seq(Regions) /\ DOMAIN undo' = 1..(Len(undo) - 1)
          /\ \A i \in DOMAIN undo' : undo'[i] = undo[i] /\ i \in DOMAIN undo /\ i < Len(undo)
          /\ Len(undo) \in DOMAIN undo
        BY <1>6, <2>1
    <2>3. MaskTypeOK'
        <3>1. objects' \in Regions BY <1>6, <2>1, <2>2
        <3> QED BY <1>1, <1>2, <2>2, <3>1 DEF MaskTypeOK, NoMask
    <2>4. \A mask : NewMask(mask) => NewMask(mask)' BY <1>6, <2>2 DEF NewMask
    <2>5. MasksNumbered' BY <1>1, <1>2, <2>4 DEF MasksNumbered, NoMask, MaskTypeOK
    <2>6. Chained' BY <1>1, <1>2, <1>6, <2>2 DEF Chained
    <2>7. MasksAccounted' BY <1>1, <1>2, <1>6, <2>2 DEF MasksAccounted
    <2> QED BY <1>4, <2>3, <2>5, <2>6, <2>7 DEF MaskInv
<1> QED BY <1>1, <1>5, <1>6

LEMMA DeleteMaskProof ==
    ASSUME MaskInv, NEW ids \in SUBSET objects, Delete(ids) PROVE MaskInv'
<1>1. /\ UNCHANGED <<mosaic, sampler, sampling, serial, filter, covered>>
      /\ objects' = objects \ ids /\ undo' = Append(undo, objects) /\ drawing' = NoMask
      /\ unconfirmed' = unconfirmed \cup (ids \cap mosaic.pending) /\ dirty' = TRUE
      /\ maskCounts' = [maskCounts EXCEPT !["gestures"] = @ + 1]
    BY DEF Delete, Rest, MaskCount
<1>2. MaskTypeOK /\ MasksNumbered /\ Chained /\ MasksAccounted BY DEF MaskInv
<1>3. mosaic' = [mosaic EXCEPT !.pending = mosaic.pending] /\ mosaic.pending \in Regions
    BY <1>1, <1>2 DEF MaskTypeOK, Mosaics
<1>4. SamplesTrue' /\ SubmittedDone' /\ HandedOn' /\ mosaic' \in Mosaics
    BY <1>1, <1>3, DocumentChanges
<1>5. /\ undo' \in Seq(Regions) /\ Len(undo) \in Nat
      /\ DOMAIN undo = 1..Len(undo) /\ DOMAIN undo' = 1..(Len(undo) + 1)
      /\ \A i \in DOMAIN undo : undo'[i] = undo[i]
      /\ undo'[Len(undo) + 1] = objects
    BY <1>1, <1>2 DEF MaskTypeOK
<1>6. /\ maskCounts' \in [gestures : Nat, failures : Nat] /\ maskCounts.gestures \in Nat
      /\ maskCounts'.gestures = maskCounts.gestures + 1
    BY <1>1, <1>2 DEF MaskTypeOK
<1>7. MaskTypeOK' BY <1>1, <1>2, <1>4, <1>5, <1>6 DEF MaskTypeOK, NoMask, Regions
<1>8. MasksNumbered'
    <2>1. \A mask : NewMask(mask) => NewMask(mask)'
        <3> SUFFICES ASSUME NEW mask, NewMask(mask), NEW i \in DOMAIN undo'
                     PROVE  mask \notin objects' /\ mask \notin undo'[i]
            BY <1>1 DEF NewMask
        <3>1. i \in DOMAIN undo \/ i = Len(undo) + 1 BY <1>5
        <3> QED BY <1>1, <1>5, <3>1 DEF NewMask
    <2> QED BY <1>1, <1>2, <1>6, <2>1 DEF MasksNumbered, NoMask
<1>9. Chained'
    <2> SUFFICES ASSUME NEW i \in DOMAIN undo'
                 PROVE  /\ mosaic.pending \cap undo'[i] \subseteq objects' \cup unconfirmed'
                        /\ \A j \in DOMAIN undo' :
                              i < j => mosaic.pending \cap undo'[i]
                                           \subseteq undo'[j] \cup unconfirmed'
        BY <1>1 DEF Chained
    <2>1. CASE i = Len(undo) + 1 BY <1>1, <1>5, <2>1
    <2>2. CASE i \in DOMAIN undo BY <1>1, <1>2, <1>5, <2>2 DEF Chained
    <2> QED BY <1>5, <2>1, <2>2
<1>10. MasksAccounted' BY <1>1, <1>2, <1>5 DEF MasksAccounted
<1> QED BY <1>4, <1>7, <1>8, <1>9, <1>10 DEF MaskInv

----------------------------------------
(* The samples and the filter.                                               *)

\* What synchronising the regions does: they are none, those asked for, or asked for now.
SyncedTo(m, p, regions) ==
    /\ m \in Mosaics /\ p \in Samplers /\ regions \in Regions
    /\ m.pending = mosaic.pending /\ m.regions = regions
    /\ m.frame = (IF regions = {} THEN NoFrame ELSE mosaic.frame)
    /\ (m.polling <=> regions # {})
    /\ m.revision >= mosaic.revision
    /\ regions # {} /\ regions # mosaic.regions => m.revision > mosaic.revision
    /\ regions # {} /\ regions = mosaic.regions => m.revision = mosaic.revision
    /\ regions = {} => p.request = NoRequest /\ p.frame = NoFrame
    /\ regions # {} => /\ p.frame = sampler.frame
                       /\ p.request = [revision |-> m.revision, regions |-> regions]
    /\ p.generation >= sampler.generation
    /\ \/ p.generation > sampler.generation
       \/ p.request = NoRequest /\ sampler.request = NoRequest
       \/ p.request # NoRequest /\ sampler.request # NoRequest

LEMMA MosaicCleared ==
    ASSUME mosaic \in Mosaics, NEW m, NEW floor \in Nat, NEW regions \in Regions,
           NEW frame \in Frames, NEW effects \in Tasks,
           m = [mosaic EXCEPT !.regions = regions, !.polling = FALSE, !.waiting = FALSE,
                              !.frame = frame, !.floor = floor, !.effects = effects]
    PROVE  /\ m \in Mosaics /\ m.pending = mosaic.pending /\ m.regions = regions
           /\ m.frame = frame /\ ~m.polling /\ m.revision = mosaic.revision
  BY DEF Mosaics

LEMMA SamplerAsked ==
    ASSUME sampler \in Samplers, NEW p, NEW need \in SampleReq, NEW generation \in Nat,
           p = [sampler EXCEPT !.request = need, !.generation = generation, !.error = FALSE]
    PROVE  /\ p \in Samplers /\ p.frame = sampler.frame /\ p.request = need
           /\ p.generation = generation
BY DEF Samplers

LEMMA Syncing ==
    ASSUME MaskInv, NEW m, NEW p, NEW regions, m = Synced(MaskContent),
           p = PortSynced(MaskContent), regions = Masks(MaskContent)
    PROVE  SyncedTo(m, p, regions)
<1>1. MaskTypeOK /\ SamplesTrue BY DEF MaskInv
<1>2. regions \in Regions /\ mosaic.regions \in Regions
    BY <1>1 DEF MaskTypeOK, Masks, MaskContent, Regions, Mosaics
<1>3. /\ mosaic \in Mosaics /\ sampler \in Samplers /\ mosaic.revision \in Nat
      /\ sampler.generation \in Nat /\ mosaic.waiting \in BOOLEAN
    BY <1>1 DEF MaskTypeOK, Mosaics, Samplers
<1>4. NoRequest \in SampleReq /\ NoFrame \in Frames /\ NoTask \in Tasks /\ {} \in Regions
    BY DEF NoRequest, SampleReq, NoFrame, Frames, NoTask, Tasks, NoContent, Pictures, NoMask,
           Regions
<1>5. Differs(MaskContent) <=> regions # mosaic.regions BY DEF Differs
<1>6. IF sampler.request = NoRequest
      THEN mosaic.regions = {} /\ sampler.frame = NoFrame
      ELSE /\ mosaic.regions # {}
           /\ sampler.request = [revision |-> mosaic.revision, regions |-> mosaic.regions]
    BY <1>1 DEF SamplesTrue
<1>7. CASE regions = {} /\ mosaic.regions = {}
    <2>1. p = sampler BY <1>7 DEF PortSynced
    <2>2. m = [mosaic EXCEPT !.regions = {}, !.polling = FALSE, !.waiting = FALSE,
                             !.frame = NoFrame, !.floor = mosaic.revision + 1,
                             !.effects = NoTask]
        BY <1>7 DEF Synced
    <2>3. /\ m \in Mosaics /\ m.pending = mosaic.pending /\ m.regions = {}
          /\ m.frame = NoFrame /\ ~m.polling /\ m.revision = mosaic.revision
        <3> DEFINE floor == mosaic.revision + 1
        <3>1. floor \in Nat BY <1>3
        <3> HIDE DEF floor
        <3>2. m = [mosaic EXCEPT !.regions = {}, !.polling = FALSE, !.waiting = FALSE,
                                 !.frame = NoFrame, !.floor = floor, !.effects = NoTask]
            BY <2>2 DEF floor
        <3> QED BY ZenonT(60), <1>3, <1>4, <3>1, <3>2, MosaicCleared
    <2> QED BY <1>2, <1>3, <1>6, <1>7, <2>1, <2>3 DEF SyncedTo
<1>8. CASE regions = {} /\ mosaic.regions # {}
    <2>1. p = [request |-> NoRequest, generation |-> sampler.generation + 1,
               frame |-> NoFrame, error |-> FALSE]
        BY <1>8 DEF PortSynced
    <2>2. m = [mosaic EXCEPT !.regions = {}, !.polling = FALSE, !.waiting = FALSE,
                             !.frame = NoFrame, !.floor = mosaic.revision + 1,
                             !.effects = NoTask]
        BY <1>8 DEF Synced
    <2>3. /\ m \in Mosaics /\ m.pending = mosaic.pending /\ m.regions = {}
          /\ m.frame = NoFrame /\ ~m.polling /\ m.revision = mosaic.revision
        <3> DEFINE floor == mosaic.revision + 1
        <3>1. floor \in Nat BY <1>3
        <3> HIDE DEF floor
        <3>2. m = [mosaic EXCEPT !.regions = {}, !.polling = FALSE, !.waiting = FALSE,
                                 !.frame = NoFrame, !.floor = floor, !.effects = NoTask]
            BY <2>2 DEF floor
        <3> QED BY ZenonT(60), <1>3, <1>4, <3>1, <3>2, MosaicCleared
    <2>4. p \in Samplers /\ p.request = NoRequest /\ p.frame = NoFrame
          /\ p.generation = sampler.generation + 1
        BY <1>3, <1>4, <2>1 DEF Samplers
    <2> QED BY <1>2, <1>3, <1>8, <2>3, <2>4 DEF SyncedTo
<1>9. CASE regions # {}
    <2> DEFINE step == IF regions # mosaic.regions THEN 1 ELSE 0
    <2>2. step \in {0, 1} /\ (step = 0 <=> regions = mosaic.regions) OBVIOUS
    <2>0. (mosaic.waiting \/ regions # mosaic.regions) \in BOOLEAN OBVIOUS
    <2>1. PICK waiting \in BOOLEAN :
              m = [mosaic EXCEPT !.regions = regions, !.polling = TRUE,
                                 !.revision = mosaic.revision + step, !.waiting = waiting]
    BY <1>5, <1>9, <2>0 DEF Synced
    <2> HIDE DEF step
    <2>3. /\ m \in Mosaics /\ m.pending = mosaic.pending /\ m.regions = regions
          /\ m.frame = mosaic.frame /\ m.polling /\ m.revision = mosaic.revision + step
        <3> DEFINE next == mosaic.revision + step
        <3>1. next \in Nat BY <1>3, <2>2
        <3> HIDE DEF next
        <3>2. m = [mosaic EXCEPT !.regions = regions, !.polling = TRUE, !.revision = next,
                                 !.waiting = waiting]
            BY <2>1 DEF next
        <3>3. m \in Mosaics BY <1>2, <1>3, <3>1, <3>2 DEF Mosaics
        <3>4. /\ m.pending = mosaic.pending /\ m.regions = regions
              /\ m.frame = mosaic.frame /\ m.revision = next
            BY <1>3, <3>2 DEF Mosaics
        <3>5. m.polling BY <1>3, <3>2 DEF Mosaics
        <3> QED BY <3>3, <3>4, <3>5 DEF next
    <2>4. CASE regions = mosaic.regions
    BY <1>2, <1>3, <1>5, <1>6, <1>9, <2>2, <2>3, <2>4 DEF PortSynced, SyncedTo
    <2>5. CASE regions # mosaic.regions
        <3> DEFINE more == IF sampler.request = NoRequest THEN 1 ELSE 0
        <3>1. p = [sampler EXCEPT !.request = [revision |-> mosaic.revision + 1,
                                               regions |-> regions],
                                  !.generation = sampler.generation + more, !.error = FALSE]
            BY <1>5, <1>9, <2>5 DEF PortSynced
        <3>2. more \in {0, 1} /\ (more = 1 <=> sampler.request = NoRequest) OBVIOUS
        <3> HIDE DEF more
        <3>3. /\ p \in Samplers /\ p.frame = sampler.frame
              /\ p.request = [revision |-> mosaic.revision + 1, regions |-> regions]
              /\ p.generation = sampler.generation + more
            <4> DEFINE need == [revision |-> mosaic.revision + 1, regions |-> regions]
                       generation == sampler.generation + more
            <4>1. need \in SampleReq /\ generation \in Nat BY <1>2, <1>3, <3>2 DEF SampleReq
            <4> HIDE DEF need, generation
            <4>2. p = [sampler EXCEPT !.request = need, !.generation = generation,
                                      !.error = FALSE]
                BY <3>1 DEF need, generation
            <4>3. /\ p \in Samplers /\ p.frame = sampler.frame /\ p.request = need
                  /\ p.generation = generation
                BY ZenonT(60), <1>3, <4>1, <4>2, SamplerAsked
            <4> QED BY <4>3 DEF need, generation
        <3>4. m.revision = mosaic.revision + 1 BY <2>2, <2>3, <2>5
        <3>5. p.request # NoRequest BY <1>9, <3>3 DEF NoRequest
        <3> QED BY <1>2, <1>3, <1>9, <2>3, <2>5, <3>2, <3>3, <3>4, <3>5 DEF SyncedTo
    <2> QED BY <2>4, <2>5
<1> QED BY <1>7, <1>8, <1>9

\* Samples stay true when the regions are synchronised.
LEMMA SamplesSynced ==
    ASSUME MaskInv, sampler' = PortSynced(MaskContent), sampling' = sampling,
           mosaic'.regions = Masks(MaskContent), mosaic'.polling <=> Masks(MaskContent) # {},
           mosaic'.revision = Synced(MaskContent).revision,
           \/ mosaic'.frame = Synced(MaskContent).frame
           \/ mosaic'.frame = sampler.frame /\ Masks(MaskContent) # {}
    PROVE  SamplesTrue'
<1> DEFINE m == Synced(MaskContent)
           regions == Masks(MaskContent)
<1>0. SyncedTo(m, sampler', regions) BY Syncing
<1>1. /\ m \in Mosaics /\ sampler' \in Samplers /\ regions \in Regions
      /\ m.frame = (IF regions = {} THEN NoFrame ELSE mosaic.frame)
      /\ m.revision >= mosaic.revision
      /\ regions # {} /\ regions # mosaic.regions => m.revision > mosaic.revision
      /\ regions # {} /\ regions = mosaic.regions => m.revision = mosaic.revision
      /\ regions = {} => sampler'.request = NoRequest /\ sampler'.frame = NoFrame
      /\ regions # {} => /\ sampler'.frame = sampler.frame
                         /\ sampler'.request = [revision |-> m.revision, regions |-> regions]
      /\ sampler'.generation >= sampler.generation
      /\ \/ sampler'.generation > sampler.generation
         \/ sampler'.request = NoRequest /\ sampler.request = NoRequest
         \/ sampler'.request # NoRequest /\ sampler.request # NoRequest
    BY <1>0 DEF SyncedTo
<1>2. MaskTypeOK /\ SamplesTrue BY DEF MaskInv
<1>3. /\ mosaic.revision \in Nat /\ m.revision \in Nat /\ sampler.generation \in Nat
      /\ sampler'.generation \in Nat /\ sampling.generation \in Nat
    BY <1>1, <1>2 DEF MaskTypeOK, Mosaics, Samplers
<1> HIDE DEF m, regions
<1>4. /\ mosaic'.regions = regions /\ mosaic'.revision = m.revision
      /\ (mosaic'.polling <=> regions # {})
    BY DEF m, regions
<1>5. ASSUME NEW revision, NEW area, Recent(revision, area), regions # {}
      PROVE  Recent(revision, area)'
    BY <1>1, <1>3, <1>4, <1>5 DEF Recent
<1>6. \A f \in {mosaic'.frame, sampler'.frame} : f # NoFrame => Recent(f.revision, f.regions)'
  BY <1>1, <1>2, <1>5 DEF m, regions, SamplesTrue
<1>7. regions = {} => mosaic'.frame = NoFrame BY <1>1 DEF m, regions
<1>8. ASSUME sampling # NotSampling
      PROVE  /\ sampling.generation <= sampler'.generation
             /\ sampling.generation = sampler'.generation =>
                   /\ sampler'.request # NoRequest
                   /\ Recent(sampling.request.revision, sampling.request.regions)'
  BY <1>1, <1>2, <1>3, <1>5, <1>8 DEF SamplesTrue
<1>9. IF sampler'.request = NoRequest
      THEN mosaic'.regions = {} /\ sampler'.frame = NoFrame /\ ~mosaic'.polling
      ELSE /\ mosaic'.regions # {} /\ mosaic'.revision >= 1
           /\ sampler'.request = [revision |-> mosaic'.revision, regions |-> mosaic'.regions]
  BY <1>1, <1>2, <1>3, <1>4 DEF NoRequest, SamplesTrue
<1> QED BY <1>4, <1>6, <1>7, <1>8, <1>9 DEF SamplesTrue

LEMMA RenderProof == ASSUME MaskInv, Render PROVE MaskInv'
<1> DEFINE m == Synced(MaskContent)
           regions == Masks(MaskContent)
           order == TaskFor(MaskContent, mosaic.frame)
<1>1. /\ UNCHANGED <<objects, undo, drawing, unconfirmed, maskCounts, sampling, serial, covered>>
      /\ mosaic' = m /\ sampler' = PortSynced(MaskContent) /\ dirty' = FALSE
      /\ filter' = IF regions = {} THEN NoWorker
                   ELSE IF mosaic.frame = NoFrame \/ filter.submitted = order THEN filter
                   ELSE [filter EXCEPT !.submitted = order, !.job = order, !.context = MaskContent]
    BY DEF Render, NeedsSubmission, TaskFor
<1>2. SyncedTo(m, sampler', regions) BY <1>1, Syncing
<1>3. /\ m \in Mosaics /\ sampler' \in Samplers /\ regions \in Regions
      /\ m.pending = mosaic.pending /\ m.regions = regions
      /\ m.frame = (IF regions = {} THEN NoFrame ELSE mosaic.frame)
      /\ (m.polling <=> regions # {})
      /\ regions = {} => sampler'.request = NoRequest
      /\ regions # {} => sampler'.request = [revision |-> m.revision, regions |-> regions]
    BY <1>2 DEF SyncedTo
<1>4. MaskTypeOK /\ SamplesTrue /\ SubmittedDone BY DEF MaskInv
<1>5. SamplesTrue' BY <1>1, <1>3, SamplesSynced
<1>6. MasksNumbered' /\ Chained' /\ MasksAccounted'
    BY <1>1, <1>3 DEF MaskInv, MasksNumbered, NewMask, Chained, MasksAccounted
<1>7. MaskContent' = MaskContent /\ MaskContent \in Pictures /\ order \in Tasks
  BY <1>1, <1>4 DEF MaskTypeOK, MaskContent, Pictures, Mosaics, Frames, TaskFor, Tasks
<1> HIDE DEF m, order
<1>8. CASE regions = {}
    <2>1. filter' = NoWorker /\ mosaic' = m BY <1>1, <1>8
    <2>2. NoWorker \in Filters
        BY DEF NoWorker, Filters, NoTask, Tasks, NoContent, Pictures, NoMask, Regions
    <2>3. SubmittedDone' BY <2>1 DEF SubmittedDone, NoWorker
    <2>4. objects = {} /\ drawing = NoMask BY <1>8 DEF Masks, MaskContent
    <2>5. HandedOn' BY <1>1, <1>3, <1>8, <2>4 DEF HandedOn
    <2>6. MaskTypeOK' BY <1>1, <1>3, <1>4, <2>1, <2>2 DEF MaskTypeOK
    <2> QED BY <1>5, <1>6, <2>3, <2>5, <2>6 DEF MaskInv
<1>9. CASE regions # {} /\ (mosaic.frame = NoFrame \/ filter.submitted = order)
    <2>1. filter' = filter BY <1>1, <1>9
    <2>2. SubmittedDone' BY <1>4, <2>1 DEF SubmittedDone
    <2>3. MaskTypeOK' BY <1>1, <1>3, <1>4, <2>1 DEF MaskTypeOK
    <2>4. mosaic'.frame = mosaic.frame /\ mosaic'.revision = m.revision /\ mosaic'.polling
        BY <1>1, <1>3, <1>9
    <2>5. mosaic.frame = NoFrame => mosaic'.frame.revision # mosaic'.revision
    BY <1>1, <1>3, <1>5, <1>9, <2>4 DEF NoRequest, SamplesTrue, Mosaics, NoFrame
    <2>6. HandedOn' BY <1>3, <1>7, <1>9, <2>1, <2>4, <2>5 DEF HandedOn, order
    <2> QED BY <1>5, <1>6, <2>2, <2>3, <2>6 DEF MaskInv
<1>10. CASE regions # {} /\ ~ (mosaic.frame = NoFrame \/ filter.submitted = order)
    <2>1. filter' = [filter EXCEPT !.submitted = order, !.job = order, !.context = MaskContent]
        BY <1>1, <1>10
    <2>2. /\ filter' \in Filters /\ filter'.submitted = order /\ filter'.job = order
          /\ filter'.context = MaskContent
        BY <1>4, <1>7, <2>1 DEF MaskTypeOK, Filters
    <2>3. order # NoTask /\ order.content = MaskContent
    BY <1>10 DEF NoContent, Masks, NoMask, order, TaskFor, NoTask
    <2>4. SubmittedDone' BY <2>2, <2>3 DEF SubmittedDone
    <2>5. MaskTypeOK' BY <1>1, <1>3, <1>4, <2>2 DEF MaskTypeOK
    <2>6. HandedOn' BY <1>1, <1>3, <1>7, <1>10, <2>2 DEF HandedOn, order
    <2> QED BY <1>5, <1>6, <2>4, <2>5, <2>6 DEF MaskInv
<1> QED BY <1>8, <1>9, <1>10

\* A poll takes the last sample or not, which confirms the masks or not, and the last effects.
PollTakes(m, u) ==
    /\ u \in Mosaics /\ u.regions = m.regions /\ u.revision = m.revision
    /\ (u.polling <=> m.polling)
    /\ u.frame = m.frame \/ (Accepted(m) /\ u.frame = sampler.frame)

LEMMA Updating ==
    ASSUME sampler \in Samplers, NEW m \in Mosaics, NEW u, u = Updated(m)
    PROVE  /\ PollTakes(m, u)
           /\ \/ u.pending = m.pending
              \/ u.pending = {} /\ Accepted(m) /\ sampler.frame.revision = m.revision
<1>1. sampler.frame \in Frames /\ {} \in Regions BY DEF Samplers, Regions
<1>2. CASE ~Accepted(m) BY <1>2 DEF Updated, PollTakes
<1>3. CASE Accepted(m) /\ sampler.frame.revision = m.revision
  BY <1>1, <1>3 DEF Updated, Mosaics, PollTakes
<1>4. CASE Accepted(m) /\ sampler.frame.revision # m.revision
    <2>1. (m.waiting \/ sampler.frame # m.frame) \in BOOLEAN OBVIOUS
    <2>2. PICK waiting \in BOOLEAN : u = [m EXCEPT !.frame = sampler.frame, !.waiting = waiting]
    BY <1>4, <2>1 DEF Updated
    <2>3. u \in Mosaics BY <1>1, <2>2 DEF Mosaics
    <2>4. /\ u.regions = m.regions /\ u.revision = m.revision /\ u.frame = sampler.frame
          /\ u.pending = m.pending
        BY <2>2 DEF Mosaics
    <2>5. u.polling <=> m.polling BY <2>2 DEF Mosaics
    <2> QED BY <1>4, <2>3, <2>4, <2>5 DEF PollTakes
<1> QED BY <1>2, <1>3, <1>4

LEMMA TakingEffects ==
    ASSUME filter \in Filters, NEW m \in Mosaics, NEW u, u = Latest(m)
    PROVE  /\ u \in Mosaics /\ u.regions = m.regions /\ u.revision = m.revision
           /\ u.frame = m.frame /\ u.pending = m.pending /\ (u.polling <=> m.polling)
  BY DEF Filters, Mosaics, Latest

LEMMA GivingUp ==
    ASSUME NEW m \in Mosaics, NEW u, u = Failed(m)
    PROVE  /\ u \in Mosaics /\ u.regions = m.regions /\ u.revision = m.revision
           /\ u.frame = m.frame /\ u.pending = {} /\ (u.polling <=> m.polling)
  BY DEF Failed, Regions, Mosaics

LEMMA PollProof == ASSUME MaskInv, Poll PROVE MaskInv'
<1> DEFINE m == Synced(MaskContent)
           u == Updated(m)
           v == Latest(u)
           w == Latest(Failed(u))
           regions == Masks(MaskContent)
<1>1. /\ sampler' = PortSynced(MaskContent) /\ UNCHANGED <<sampling, serial>> /\ mosaic.polling
      /\ \/ /\ regions = {} /\ mosaic' = m /\ filter' = NoWorker
            /\ UNCHANGED <<document, covered>>
         \/ /\ regions # {} /\ UNCHANGED <<unconfirmed, filter>>
            /\ covered' = covered \cup (IF Accepted(m) THEN sampler.frame.regions ELSE {})
            /\ \/ /\ mosaic' = v
                  /\ (dirty' <=> dirty \/ v.frame # m.frame \/ v.effects # m.effects)
                  /\ dirty' \in BOOLEAN
                  /\ UNCHANGED <<objects, undo, drawing, maskCounts>>
               \/ /\ mosaic' = w /\ Discard /\ dirty' = TRUE
                  /\ UNCHANGED maskCounts \/ MaskCount("failures")
    BY DEF Poll
<1>2. MaskTypeOK /\ SamplesTrue /\ SubmittedDone /\ HandedOn BY DEF MaskInv
<1>3. SyncedTo(m, sampler', regions) BY <1>1, Syncing
<1>4. /\ m \in Mosaics /\ sampler' \in Samplers /\ regions \in Regions
      /\ m.pending = mosaic.pending /\ m.regions = regions
      /\ m.frame = (IF regions = {} THEN NoFrame ELSE mosaic.frame)
      /\ (m.polling <=> regions # {})
      /\ m.revision >= mosaic.revision
      /\ regions # {} /\ regions # mosaic.regions => m.revision > mosaic.revision
      /\ regions # {} /\ regions = mosaic.regions => m.revision = mosaic.revision
      /\ regions = {} => sampler'.request = NoRequest
      /\ regions # {} => sampler'.request = [revision |-> m.revision, regions |-> regions]
    BY <1>3 DEF SyncedTo
<1>5. sampler \in Samplers /\ filter \in Filters BY <1>2 DEF MaskTypeOK
<1>6. /\ PollTakes(m, u)
      /\ \/ u.pending = m.pending
         \/ u.pending = {} /\ Accepted(m) /\ sampler.frame.revision = m.revision
    BY <1>4, <1>5, Updating
<1>7. /\ v \in Mosaics /\ v.regions = u.regions /\ v.revision = u.revision
      /\ v.frame = u.frame /\ v.pending = u.pending /\ (v.polling <=> u.polling)
    BY <1>5, <1>6, TakingEffects DEF PollTakes
<1>8. /\ w \in Mosaics /\ w.regions = u.regions /\ w.revision = u.revision
      /\ w.frame = u.frame /\ w.pending = {} /\ (w.polling <=> u.polling)
    <2>1. u \in Mosaics BY <1>6 DEF PollTakes
    <2> DEFINE f == Failed(u)
    <2>2. /\ f \in Mosaics /\ f.regions = u.regions /\ f.revision = u.revision
          /\ f.frame = u.frame /\ f.pending = {} /\ (f.polling <=> u.polling)
        BY <2>1, GivingUp
    <2>3. /\ w \in Mosaics /\ w.regions = f.regions /\ w.revision = f.revision
          /\ w.frame = f.frame /\ w.pending = f.pending /\ (w.polling <=> f.polling)
        BY <1>5, <2>2, TakingEffects
    <2> HIDE DEF f, u, w
    <2> QED BY <2>2, <2>3
<1> HIDE DEF m, u, v, w
<1>9. /\ u.regions = m.regions /\ u.revision = m.revision /\ (u.polling <=> m.polling)
      /\ u.frame = m.frame \/ (Accepted(m) /\ u.frame = sampler.frame)
    BY <1>6 DEF PollTakes
<1>10. CASE regions = {}
    <2>1. /\ UNCHANGED <<objects, undo, drawing, dirty, unconfirmed, maskCounts, covered>>
          /\ mosaic' = m /\ filter' = NoWorker
        BY <1>1, <1>10 DEF document
    <2>2. SamplesTrue' BY <1>1, <1>4, <1>10, <2>1, SamplesSynced DEF m
    <2>3. NoWorker \in Filters
        BY DEF NoWorker, Filters, NoTask, Tasks, NoContent, Pictures, NoMask, Regions
    <2>4. MaskTypeOK' /\ SubmittedDone'
        BY <1>1, <1>2, <1>4, <2>1, <2>3 DEF MaskTypeOK, SubmittedDone, NoWorker
    <2>5. objects = {} /\ drawing = NoMask BY <1>10 DEF Masks, MaskContent
    <2>6. HandedOn' BY <1>4, <1>10, <2>1, <2>5 DEF HandedOn
    <2>7. MasksNumbered' /\ Chained' /\ MasksAccounted'
        BY <1>4, <2>1 DEF MaskInv, MasksNumbered, NewMask, Chained, MasksAccounted
    <2> QED BY <2>2, <2>4, <2>6, <2>7 DEF MaskInv
<1>11. ASSUME regions # {}, mosaic' \in {v, w}
       PROVE  /\ SamplesTrue' /\ SubmittedDone' /\ mosaic' \in Mosaics /\ mosaic'.polling
              /\ mosaic'.revision = m.revision
  BY <1>1, <1>2, <1>4, <1>7, <1>8, <1>9, <1>11, SamplesSynced DEF m, SubmittedDone
<1>12. CASE /\ regions # {} /\ mosaic' = v /\ UNCHANGED <<objects, undo, drawing, maskCounts>>
            /\ (dirty' <=> dirty \/ v.frame # m.frame \/ v.effects # m.effects)
            /\ dirty' \in BOOLEAN
    <2>1. /\ UNCHANGED <<unconfirmed, filter>>
          /\ covered' = covered \cup (IF Accepted(m) THEN sampler.frame.regions ELSE {})
        BY <1>1, <1>12
    <2>2. MaskTypeOK' BY <1>1, <1>2, <1>4, <1>11, <1>12, <2>1 DEF MaskTypeOK
    <2>3. mosaic'.pending \subseteq mosaic.pending BY <1>4, <1>6, <1>7, <1>12
    <2>4. MasksNumbered' /\ Chained'
        BY <1>12, <2>1, <2>3 DEF MaskInv, MasksNumbered, NewMask, Chained
    <2>5. MasksAccounted'
        <3>1. MasksAccounted /\ Chained BY DEF MaskInv
        <3>2. CASE mosaic'.pending = mosaic.pending BY <1>12, <2>1, <3>1, <3>2 DEF MasksAccounted
        <3>3. CASE Accepted(m) /\ sampler.frame.revision = m.revision
            <4>1. sampler.frame # NoFrame BY <3>3 DEF Accepted
            <4>2. /\ sampler.frame.revision \in 1..mosaic.revision
                  /\ sampler.frame.revision = mosaic.revision
                        => sampler.frame.regions = mosaic.regions
                BY <1>2, <4>1 DEF SamplesTrue, Recent
            <4>3. mosaic.revision \in Nat /\ m.revision \in Nat
                BY <1>2, <1>4 DEF MaskTypeOK, Mosaics
            <4>4. m.revision = mosaic.revision /\ regions = mosaic.regions
                BY <1>4, <1>12, <3>3, <4>2, <4>3
            <4>5. objects \subseteq covered' BY <2>1, <3>3, <4>2, <4>4 DEF Masks, MaskContent
            <4>6. \A i \in DOMAIN undo : undo[i] \subseteq covered' \cup unconfirmed
                <5> SUFFICES ASSUME NEW i \in DOMAIN undo
                             PROVE  undo[i] \subseteq covered' \cup unconfirmed
                    OBVIOUS
                <5>1. undo[i] \subseteq covered \cup mosaic.pending \cup unconfirmed
                    BY <3>1 DEF MasksAccounted
                <5>2. mosaic.pending \cap undo[i] \subseteq objects \cup unconfirmed
                    BY <3>1 DEF Chained
                <5> QED BY <2>1, <4>5, <5>1, <5>2
            <4> QED BY <1>12, <2>1, <4>5, <4>6 DEF MasksAccounted
        <3> QED BY <1>4, <1>6, <1>7, <1>12, <3>2, <3>3
    <2>6. HandedOn'
        <3> SUFFICES ASSUME ~dirty' PROVE HandedOn' BY DEF HandedOn
        <3>1. ~dirty /\ mosaic'.frame = mosaic.frame BY <1>4, <1>12
        <3>2. /\ sampler.request = [revision |-> mosaic.revision, regions |-> regions]
              /\ mosaic.frame.revision # mosaic.revision
                    \/ filter.submitted = TaskFor(MaskContent, mosaic.frame)
            BY <1>1, <1>2, <3>1 DEF HandedOn
        <3>3. regions = mosaic.regions BY <1>1, <1>2, <1>12, <3>2 DEF SamplesTrue, NoRequest
        <3>4. m.revision = mosaic.revision BY <1>4, <1>12, <3>3
        <3>5. MaskContent' = MaskContent BY <1>12 DEF MaskContent
        <3> QED BY <1>4, <1>11, <1>12, <2>1, <3>1, <3>2, <3>4, <3>5 DEF HandedOn
    <2> QED BY <1>11, <1>12, <2>2, <2>4, <2>5, <2>6 DEF MaskInv
<1>13. CASE /\ regions # {} /\ mosaic' = w /\ Discard /\ dirty' = TRUE
            /\ UNCHANGED maskCounts \/ MaskCount("failures")
  BY <1>1, <1>2, <1>4, <1>8, <1>11, <1>13, Discarded, Discarding DEF MaskTypeOK, MaskCount,
     NoMask, MaskInv, HandedOn
<1> QED BY <1>1, <1>10, <1>12, <1>13

----------------------------------------
(* The threads.                                                              *)

\* A step of the thread that samples.
LEMMA ThreadSamples ==
    ASSUME MaskInv, MaskTypeOK', SamplesTrue', sampler'.request = sampler.request,
           UNCHANGED <<objects, undo, drawing, dirty, unconfirmed, mosaic, filter, covered>>,
           maskCounts'.gestures = maskCounts.gestures
    PROVE  MaskInv'
  BY DEF MaskInv, MasksNumbered, NewMask, Chained, MasksAccounted, SubmittedDone, HandedOn,
     MaskContent

LEMMA TakeSampleProof == ASSUME MaskInv, TakeSample PROVE MaskInv'
  BY ThreadSamples DEF TakeSample, document, MaskInv, MaskTypeOK, Samplers, Mosaics, SamplesTrue,
     Recent

LEMMA SampleEndsProof == ASSUME MaskInv, SampleEnds PROVE MaskInv'
<1> DEFINE need == sampling.request
           f == [revision |-> need.revision, serial |-> serial', regions |-> need.regions]
<1>1. /\ UNCHANGED <<objects, undo, drawing, dirty, unconfirmed, maskCounts, mosaic, filter,
                     covered>>
      /\ sampling # NotSampling /\ sampling' = NotSampling
      /\ \/ UNCHANGED <<sampler, serial>>
         \/ /\ sampling.generation = sampler.generation
            /\ serial' = serial \/ serial' = serial + 1
            /\ sampler' = [sampler EXCEPT !.error = FALSE, !.frame = f]
  BY DEF MaskInv, MaskTypeOK, SampleEnds, document
<1>2. MaskTypeOK /\ SamplesTrue BY DEF MaskInv
<1>3. NotSampling \in [request : SampleReq, generation : Nat]
    BY DEF NotSampling, NoRequest, SampleReq, Regions
<1>4. CASE UNCHANGED <<sampler, serial>>
  BY <1>1, <1>2, <1>3, <1>4, ThreadSamples DEF MaskTypeOK, SamplesTrue, Recent
<1>5. CASE /\ sampling.generation = sampler.generation
           /\ serial' = serial \/ serial' = serial + 1
           /\ sampler' = [sampler EXCEPT !.error = FALSE, !.frame = f]
    <2>1. serial' \in Nat /\ need \in SampleReq /\ f \in Frames
    BY <1>2, <1>5 DEF MaskTypeOK, SampleReq, Frames
    <2> HIDE DEF f
    <2>2. /\ sampler' \in Samplers /\ sampler'.frame = f /\ sampler'.request = sampler.request
          /\ sampler'.generation = sampler.generation
        BY <1>2, <1>5, <2>1 DEF MaskTypeOK, Samplers
    <2>3. MaskTypeOK' BY <1>1, <1>2, <1>3, <2>1, <2>2 DEF MaskTypeOK
    <2>4. sampler.request # NoRequest /\ Recent(need.revision, need.regions)
        BY <1>1, <1>2, <1>5 DEF SamplesTrue
    <2>5. Recent(f.revision, f.regions) BY <2>4 DEF f
    <2>6. SamplesTrue' BY <1>1, <1>2, <2>2, <2>4, <2>5 DEF SamplesTrue, Recent
    <2> QED BY <1>1, <2>2, <2>3, <2>6, ThreadSamples
<1> QED BY <1>1, <1>4, <1>5

LEMMA SampleFailsProof == ASSUME MaskInv, SampleFails PROVE MaskInv'
<1>1. /\ UNCHANGED <<objects, undo, drawing, dirty, unconfirmed, mosaic, serial, filter, covered>>
      /\ sampling' = NotSampling /\ maskCounts' = [maskCounts EXCEPT !["failures"] = @ + 1]
    BY DEF SampleFails, MaskCount
<1>2. MaskTypeOK /\ SamplesTrue BY DEF MaskInv
<1>3. PICK error \in BOOLEAN : sampler' = [sampler EXCEPT !.error = error] BY DEF SampleFails
<1>4. /\ sampler' \in Samplers /\ sampler'.frame = sampler.frame
      /\ sampler'.request = sampler.request /\ sampler'.generation = sampler.generation
    BY <1>2, <1>3 DEF MaskTypeOK, Samplers
<1>5. /\ maskCounts' \in [gestures : Nat, failures : Nat]
      /\ maskCounts'.gestures = maskCounts.gestures
    BY <1>1, <1>2 DEF MaskTypeOK
<1>6. NotSampling \in [request : SampleReq, generation : Nat]
    BY DEF NotSampling, NoRequest, SampleReq, Regions
<1>7. MaskTypeOK' BY <1>1, <1>2, <1>4, <1>5, <1>6 DEF MaskTypeOK
<1>8. SamplesTrue' BY <1>1, <1>2, <1>4 DEF SamplesTrue, Recent
<1> QED BY <1>1, <1>4, <1>5, <1>7, <1>8, ThreadSamples

\* A step of the thread that filters.
LEMMA ThreadFilters ==
    ASSUME MaskInv, filter' \in Filters, SubmittedDone', filter'.submitted = filter.submitted,
           UNCHANGED <<objects, undo, drawing, dirty, unconfirmed, maskCounts, mosaic, sampler,
                       sampling, serial, covered>>
    PROVE  MaskInv'
  BY DEF MaskInv, MasksNumbered, NewMask, Chained, MasksAccounted, SamplesTrue, Recent,
     MaskTypeOK, HandedOn, MaskContent

LEMMA TakeProof == ASSUME MaskInv, Take PROVE MaskInv'
  BY ThreadFilters DEF Take, document, MaskInv, MaskTypeOK, NoTask, Tasks, NoContent, Pictures,
     NoMask, Regions, Filters, SubmittedDone

LEMMA FilterProof == ASSUME MaskInv, Filter PROVE MaskInv'
<1> DEFINE result == IF /\ filter.running.content = filter.context
                        /\ Masks(filter.running.content) \subseteq filter.running.regions
                     THEN filter.running ELSE filter.result
<1>1. /\ UNCHANGED <<objects, undo, drawing, dirty, unconfirmed, maskCounts, mosaic, sampler,
                     sampling, serial, covered>>
      /\ filter.running # NoTask
      /\ filter' = [filter EXCEPT !.running = NoTask, !.result = result]
    BY DEF Filter, document
<1>2. filter \in Filters /\ SubmittedDone /\ NoTask \in Tasks
    BY DEF MaskInv, MaskTypeOK, NoTask, Tasks, NoContent, Pictures, NoMask, Regions
<1>3. result \in Tasks BY <1>2 DEF Filters
<1> HIDE DEF result
<1>4. /\ filter' \in Filters /\ filter'.running = NoTask /\ filter'.job = filter.job
      /\ filter'.submitted = filter.submitted /\ filter'.context = filter.context
      /\ filter'.result = result
    BY <1>1, <1>2, <1>3 DEF Filters
<1>5. filter.job = NoTask =>
         \/ result = filter.submitted
         \/ ~ (Masks(filter.submitted.content) \subseteq filter.submitted.regions)
    <2> SUFFICES ASSUME filter.job = NoTask
                 PROVE  \/ result = filter.submitted
                        \/ ~ (Masks(filter.submitted.content) \subseteq filter.submitted.regions)
        OBVIOUS
    <2>1. filter.running = filter.submitted /\ filter.context = filter.submitted.content
        BY <1>1, <1>2 DEF SubmittedDone
    <2> QED BY <2>1 DEF result
<1>6. SubmittedDone' BY <1>2, <1>4, <1>5 DEF SubmittedDone
<1> QED BY <1>1, <1>4, <1>6, ThreadFilters

LEMMA MaskNextProof == ASSUME MaskInv, [MaskNext]_maskVars PROVE MaskInv'
<1>1. CASE UNCHANGED maskVars
  BY <1>1, ThreadFilters DEF maskVars, MaskInv, MaskTypeOK, SubmittedDone
<1>2. ASSUME NEW ids \in {objects} \cup {{mask} : mask \in objects}, Delete(ids) PROVE MaskInv'
    BY <1>2, DeleteMaskProof
<1>3. CASE MaskUser
    BY <1>2, <1>3, BeginDrawingProof, ReleaseMaskProof, AbandonProof, UndoMaskProof DEF MaskUser
<1> QED
    BY <1>1, <1>3, RenderProof, PollProof, TakeSampleProof, SampleEndsProof, SampleFailsProof,
           TakeProof, FilterProof DEF MaskNext

LEMMA MaskConsequence == MaskInv => MasksTruthful
<1> SUFFICES ASSUME MaskInv PROVE EffectsFollow BY DEF MaskInv, MasksTruthful
<1>1. SamplesTrue /\ SubmittedDone /\ HandedOn BY DEF MaskInv
<1>2. CASE dirty BY <1>2 DEF EffectsFollow
<1>3. CASE objects = {} /\ drawing = NoMask /\ sampler.request = NoRequest /\ ~mosaic.polling
    BY <1>3 DEF EffectsFollow
<1>4. CASE /\ mosaic.polling
           /\ sampler.request = [revision |-> mosaic.revision, regions |-> Masks(MaskContent)]
           /\ \/ mosaic.frame.revision # mosaic.revision
              \/ filter.submitted = TaskFor(MaskContent, mosaic.frame)
    <2>1. /\ mosaic.regions # {} /\ mosaic.revision >= 1 /\ mosaic.regions = Masks(MaskContent)
        BY <1>1, <1>4 DEF SamplesTrue
    <2>2. SUFFICES ASSUME /\ mosaic.frame.revision = mosaic.revision
                          /\ filter.job = NoTask /\ filter.running = NoTask
                   PROVE  /\ filter.result.content = MaskContent
                          /\ filter.result.serial = mosaic.frame.serial
        BY <1>4 DEF EffectsFollow
    <2>3. filter.submitted = TaskFor(MaskContent, mosaic.frame) BY <1>4, <2>2
    <2>4. mosaic.frame # NoFrame BY <2>1, <2>2 DEF NoFrame
    <2>5. mosaic.frame.regions = mosaic.regions BY <1>1, <2>2, <2>4 DEF SamplesTrue, Recent
    <2>6. Masks(filter.submitted.content) \subseteq filter.submitted.regions
        BY <2>1, <2>3, <2>5 DEF TaskFor
    <2>7. filter.result = filter.submitted BY <1>1, <2>2, <2>6 DEF SubmittedDone
    <2> QED BY <2>3, <2>7 DEF TaskFor
<1> QED BY <1>1, <1>2, <1>3, <1>4 DEF HandedOn

\* A mask that no sample was taken below does not outlive a failed capture, in the document or the
\* undo history, unless it was deleted while it was provisional; and the effects shown are of the
\* document and the sample at hand, or something is under way that brings them.
THEOREM MasksAreTruthful == MaskSpec => []MasksTruthful
<1>1. MaskSpec => []MaskInv BY MaskInitProof, MaskNextProof, PTL DEF MaskSpec
<1> QED BY <1>1, MaskConsequence, PTL

----------------------------------------
(* PopupFeedback: the copies of a popup, their feedback and the voice.       *)

Wordings == Texts \cup {NoText}
Copies   == [request : Nat, pending : BOOLEAN, completed : Nat]
Popup    == [pinned : BOOLEAN, success : BOOLEAN, task : BOOLEAN,
             text : [Buttons -> Wordings], copy : [Buttons -> Copies],
             context : [Buttons -> Wordings], copied : [Buttons -> Wordings],
             speaking : SUBSET Buttons]
Numbers  == Nat \ {0}
Writers  == [popup : Numbers, button : Buttons, text : Wordings,
             at : {"write", "wrote", "failed"}, request : Nat]
Commands == [popup : Numbers, button : Buttons, on : BOOLEAN]
Things   == Numbers \X Buttons
Events   == [what : Things, on : BOOLEAN]

PopupTypeOK ==
    /\ popupCounts \in [popups : Nat, contents : Nat, copies : Nat, speeches : Nat]
    /\ DOMAIN popups \subseteq 1..popupCounts.popups
    /\ \A id \in DOMAIN popups : popups[id] \in Popup
    /\ writers \subseteq Writers
    /\ timers \subseteq Numbers \X Buttons \X Nat
    /\ outbox \in [Listeners -> {<<>>} \cup {<<c>> : c \in Commands}]
    /\ mailbox \in Seq(Commands)
    /\ voice \in [active : {Silence} \cup Things, events : Seq(Events)]

\* A writer that succeeded has written.
WritersTrue ==
    \A w \in writers : w.at = "wrote" => <<w.popup, w.button, w.request>> \in written

\* The last event tells what is read aloud, one before it what is no longer.
Settles(thing, event) == thing = IF event.on THEN event.what ELSE Silence
Consistent(heard) ==
    \/ heard.events = <<>>
    \/ \E e \in Events : heard.events = <<e>> /\ Settles(heard.active, e)
    \/ \E what \in Things, e \in Events :
          /\ heard.events = <<[what |-> what, on |-> FALSE], e>>
          /\ Settles(heard.active, e)
EventsTrue == Consistent(voice)

\* The commands on their way to the voice.
Coming == {mailbox[i] : i \in DOMAIN mailbox}
            \cup {c \in Commands : \E t \in Listeners : outbox[t] = <<c>>}

Announced(events, what, on) ==
    \E i \in DOMAIN events : events[i] = [what |-> what, on |-> on]

\* A button shows that its text is read where it is, was until an event on its way, or will be.
ShownIsRead ==
    \A id \in DOMAIN popups : \A b \in popups[id].speaking :
        \/ voice.active = <<id, b>>
        \/ \E on \in BOOLEAN : Announced(voice.events, <<id, b>>, on)
        \/ Speak(id, b) \in Coming

\* What is read is shown or announced, unless a command on its way ends it.
ReadIsShown ==
    \A id \in Numbers \ orphaned, b \in Buttons : voice.active = <<id, b>> =>
        \/ id \in DOMAIN popups
              /\ (b \in popups[id].speaking \/ Announced(voice.events, <<id, b>>, TRUE))
        \/ Hush(id) \in Coming
        \/ \E c \in Coming : c.on

\* The command to read a popup that is gone is followed by the one that stops it.
Stopped(box, out, i, id) ==
    \/ \E j \in DOMAIN box : j > i /\ box[j] = Hush(id)
    \/ \E t \in Listeners : out[t] = <<Hush(id)>>
ClosedIsStopped ==
    /\ \A i \in DOMAIN mailbox :
          mailbox[i].on /\ mailbox[i].popup \notin DOMAIN popups \cup orphaned
             => Stopped(mailbox, outbox, i, mailbox[i].popup)
    /\ \A c \in Commands : outbox["event loop"] = <<c>> /\ c.on
                              => c.popup \in DOMAIN popups \cup orphaned
    /\ \A c \in Commands : outbox["shortcut"] = <<c>> => ~c.on

SpeechInv == EventsTrue /\ ShownIsRead /\ ReadIsShown /\ ClosedIsStopped
PopupInv == PopupTypeOK /\ WritersTrue /\ CopiesShown /\ SpeechInv

----------------------------------------
(* Commands and popups.                                                      *)

LEMMA PopupInitProof == PopupInit => PopupInv
<1> SUFFICES ASSUME PopupInit PROVE PopupInv OBVIOUS
<1>1. DOMAIN popups = {} /\ DOMAIN mailbox = {} BY DEF PopupInit
<1>2. PopupTypeOK BY <1>1 DEF PopupInit, PopupTypeOK
<1>3. WritersTrue /\ CopiesShown BY <1>1 DEF PopupInit, WritersTrue, CopiesShown
<1>4. EventsTrue /\ ShownIsRead BY <1>1 DEF PopupInit, EventsTrue, Consistent, ShownIsRead
<1>5. ReadIsShown BY DEF PopupInit, ReadIsShown, Silence, Numbers
<1>6. ClosedIsStopped BY <1>1 DEF PopupInit, ClosedIsStopped, Listeners
<1> QED BY <1>2, <1>3, <1>4, <1>5, <1>6 DEF PopupInv, SpeechInv

LEMMA CommandsTyped ==
    /\ \A id \in Numbers : Hush(id) \in Commands /\ Hush(id).popup = id /\ ~Hush(id).on
    /\ \A id \in Numbers, b \in Buttons :
          /\ Speak(id, b) \in Commands /\ Speak(id, b).on
          /\ Speak(id, b).popup = id /\ Speak(id, b).button = b
BY DEF Hush, Speak, Commands, Buttons

LEMMA Single == (\A c, d : <<c>> = <<d>> => c = d) /\ (\A c : <<c>> # <<>>)
OBVIOUS

\* A command is sent by a thread that has nothing else to carry out.
LEMMA Sending ==
    ASSUME PopupTypeOK, NEW thread \in Listeners, NEW c \in Commands, Done(thread),
           outbox' = [outbox EXCEPT ![thread] = <<c>>], mailbox' = mailbox
    PROVE  /\ outbox' \in [Listeners -> {<<>>} \cup {<<d>> : d \in Commands}]
           /\ \A t \in Listeners : outbox'[t] = IF t = thread THEN <<c>> ELSE outbox[t]
           /\ Coming' = Coming \cup {c}
<1>1. outbox' \in [Listeners -> {<<>>} \cup {<<d>> : d \in Commands}] BY DEF PopupTypeOK
<1>2. \A t \in Listeners : outbox'[t] = IF t = thread THEN <<c>> ELSE outbox[t] BY DEF PopupTypeOK
<1>3. \A d \in Commands : (\E t \in Listeners : outbox'[t] = <<d>>)
                             <=> d = c \/ \E t \in Listeners : outbox[t] = <<d>>
  BY <1>2, Single DEF Done
<1> QED BY <1>1, <1>2, <1>3 DEF Coming

\* The contents of one popup change.
Revised(id, p) ==
    /\ DOMAIN popups' = DOMAIN popups
    /\ popups'[id] = p
    /\ \A i \in DOMAIN popups \ {id} : popups'[i] = popups[i]

LEMMA RevisedByExcept ==
    ASSUME NEW id \in DOMAIN popups, NEW p, popups' = [popups EXCEPT ![id] = p]
    PROVE  Revised(id, p)
BY DEF Revised

LEMMA NumbersOfPopups ==
    ASSUME PopupTypeOK, NEW id \in DOMAIN popups
    PROVE  id \in Numbers /\ id \in Nat /\ id # 0 /\ popups[id] \in Popup
BY DEF PopupTypeOK, Numbers

\* A step that leaves the voice and what the buttons say of it alone.
LEMMA SpeechSame ==
    ASSUME SpeechInv, DOMAIN popups' = DOMAIN popups,
           \A id \in DOMAIN popups : popups'[id].speaking = popups[id].speaking,
           UNCHANGED <<outbox, mailbox, voice, orphaned>>
    PROVE  SpeechInv'
<1>1. /\ Coming' = Coming
      /\ \A what, on : Announced(voice'.events, what, on) <=> Announced(voice.events, what, on)
  BY DEF Coming, Announced
<1>2. EventsTrue' BY DEF SpeechInv, EventsTrue
<1>3. ShownIsRead' BY <1>1 DEF SpeechInv, ShownIsRead
<1>4. ReadIsShown' BY <1>1 DEF SpeechInv, ReadIsShown
<1>5. ClosedIsStopped' BY DEF SpeechInv, ClosedIsStopped, Stopped
<1> QED BY <1>2, <1>3, <1>4, <1>5 DEF SpeechInv

----------------------------------------
(* Changes of the contents.                                                  *)

\* A step that changes one popup, and neither the voice nor the workers.
LEMMA RevisionKeeps ==
    ASSUME PopupInv, NEW id \in DOMAIN popups, NEW p \in Popup, Revised(id, p),
           p.speaking = popups[id].speaking, \A b \in Buttons : CopyShown(id, b, p),
           popupCounts'.popups = popupCounts.popups,
           popupCounts' \in [popups : Nat, contents : Nat, copies : Nat, speeches : Nat],
           UNCHANGED <<outbox, writers, timers, mailbox, voice, written, orphaned>>
    PROVE  PopupInv'
<1>1. PopupTypeOK' BY DEF PopupInv, PopupTypeOK, Revised
<1>2. WritersTrue' BY DEF PopupInv, WritersTrue
<1>3. CopiesShown'
  <2>1. \A i \in DOMAIN popups, b \in Buttons : CopyShown(i, b, popups'[i])
    BY DEF PopupInv, CopiesShown, Revised
  <2> SUFFICES ASSUME NEW i \in DOMAIN popups, NEW b \in Buttons
               PROVE  CopyShown(i, b, popups[i])'
    BY DEF CopiesShown, Revised
  <2> QED BY <2>1 DEF CopyShown
<1>4. SpeechInv' BY SpeechSame DEF PopupInv, Revised
<1> QED BY <1>1, <1>2, <1>3, <1>4 DEF PopupInv

\* A popup with a new content.
LEMMA ContentFacts ==
    ASSUME NEW popup \in Popup, NEW text \in Wordings, NEW task \in BOOLEAN
    PROVE  /\ Content(popup, text, task) \in Popup
           /\ Content(popup, text, task).speaking = popup.speaking
           /\ [Content(popup, text, task) EXCEPT !.speaking = {}] \in Popup
           /\ [Content(popup, text, task) EXCEPT !.speaking = {}].speaking = {}
           /\ \A id : \A b \in Buttons :
                 /\ CopyShown(id, b, Content(popup, text, task))
                 /\ CopyShown(id, b, [Content(popup, text, task) EXCEPT !.speaking = {}])
<1> DEFINE p == Content(popup, text, task)
           q == [p EXCEPT !.speaking = {}]
<1>1. /\ Reset(popup.copy) \in [Buttons -> Copies]
      /\ \A b \in Buttons : Reset(popup.copy)[b].completed = 0 /\ ~Reset(popup.copy)[b].pending
  BY DEF Popup, Copies, Reset, Voided
<1>2. [source |-> text, translation |-> NoText] \in [Buttons -> Wordings] BY DEF Buttons, Wordings
<1>3. /\ p \in Popup /\ p.speaking = popup.speaking /\ p.copy = Reset(popup.copy)
  BY <1>1, <1>2 DEF Content, Popup
<1>4. q \in Popup /\ q.speaking = {} /\ q.copy = Reset(popup.copy) BY <1>3 DEF Popup
<1>5. \A id : \A b \in Buttons : CopyShown(id, b, p) /\ CopyShown(id, b, q)
  BY <1>1, <1>3, <1>4 DEF CopyShown
<1> QED BY <1>3, <1>4, <1>5

LEMMA NewPopupTyped == NewPopup \in Popup
BY DEF NewPopup, Popup, Copies, Wordings, NoCopy, Buttons

LEMMA CountsTyped ==
    ASSUME PopupTypeOK, NEW what \in {"contents", "copies", "speeches"}, Tally(what)
    PROVE  /\ popupCounts' \in [popups : Nat, contents : Nat, copies : Nat, speeches : Nat]
           /\ popupCounts'.popups = popupCounts.popups
BY DEF PopupTypeOK, Tally

LEMMA RetranslateProof ==
    ASSUME PopupInv, NEW id \in DOMAIN popups, NEW text \in Wordings, Retranslate(id, text)
    PROVE  PopupInv'
<1>1. PopupTypeOK /\ popups[id] \in Popup BY DEF PopupInv, PopupTypeOK
<1>2. /\ popupCounts' \in [popups : Nat, contents : Nat, copies : Nat, speeches : Nat]
      /\ popupCounts'.popups = popupCounts.popups
  BY <1>1, CountsTyped DEF Retranslate
<1>3. UNCHANGED <<outbox, writers, timers, mailbox, voice, written, orphaned>>
  BY DEF Retranslate, copying, speech
<1>4. CASE text = NoText
  <2> DEFINE p == [popups[id] EXCEPT !.success = FALSE]
  <2>1. /\ p \in Popup /\ p.speaking = popups[id].speaking /\ p.copy = popups[id].copy
        /\ p.text = popups[id].text /\ p.context = popups[id].context
    BY <1>1 DEF Popup
  <2>2. Revised(id, p) BY <1>4, RevisedByExcept DEF Retranslate
  <2>3. \A b \in Buttons : CopyShown(id, b, p) BY <2>1 DEF PopupInv, CopiesShown, CopyShown
  <2> QED BY <1>2, <1>3, <2>1, <2>2, <2>3, RevisionKeeps
<1>5. CASE text # NoText
  <2> DEFINE p == Content(popups[id], text, TRUE)
  <2>1. Revised(id, p) BY <1>5, RevisedByExcept DEF Retranslate
  <2>2. p \in Popup /\ p.speaking = popups[id].speaking /\ \A b \in Buttons : CopyShown(id, b, p)
    BY <1>1, ContentFacts
  <2> QED BY <1>2, <1>3, <2>1, <2>2, RevisionKeeps
<1> QED BY <1>4, <1>5

LEMMA TranslatedProof ==
    ASSUME PopupInv, NEW id \in DOMAIN popups, NEW text \in Texts, Translated(id, text)
    PROVE  PopupInv'
<1>1. PopupTypeOK /\ popups[id] \in Popup /\ text \in Wordings
  BY DEF PopupInv, PopupTypeOK, Wordings
<1> DEFINE old == popups[id]
           copy == [old.copy EXCEPT !["translation"] = Voided(@)]
           p == TranslationShown(old, text)
<1>2. /\ old.text \in [Buttons -> Wordings] /\ old.copy \in [Buttons -> Copies]
      /\ "translation" \in Buttons
  BY <1>1 DEF Popup, Buttons
<1>3. /\ [old.text EXCEPT !["translation"] = text] \in [Buttons -> Wordings]
      /\ \A b \in Buttons : b # "translation" =>
            [old.text EXCEPT !["translation"] = text][b] = old.text[b]
  BY <1>1, <1>2
<1>4. /\ copy \in [Buttons -> Copies]
      /\ copy["translation"].completed = 0 /\ ~copy["translation"].pending
      /\ \A b \in Buttons : b # "translation" => copy[b] = old.copy[b]
  BY <1>2 DEF Copies, Voided
<1>5. /\ p \in Popup /\ p.speaking = old.speaking /\ p.copy = copy /\ p.context = old.context
      /\ p.text = [old.text EXCEPT !["translation"] = text]
  BY <1>1, <1>3, <1>4 DEF Popup, TranslationShown
<1>6. popups' = [popups EXCEPT ![id] = p] BY DEF Translated
<1>7. Revised(id, p) BY <1>6, RevisedByExcept
<1>8. \A b \in Buttons : CopyShown(id, b, p)
  <2> SUFFICES ASSUME NEW b \in Buttons PROVE CopyShown(id, b, p) OBVIOUS
  <2>1. CopyShown(id, b, old) BY DEF PopupInv, CopiesShown
  <2> HIDE DEF copy
  <2>2. CASE b = "translation" BY <1>4, <1>5, <2>2 DEF CopyShown
  <2>3. CASE b # "translation" BY <1>3, <1>4, <1>5, <2>1, <2>3 DEF CopyShown
  <2> QED BY <2>2, <2>3
<1>9. UNCHANGED <<outbox, writers, timers, mailbox, voice, written, orphaned, popupCounts>>
  BY DEF Translated, copying, speech
<1> QED BY <1>1, <1>5, <1>7, <1>8, <1>9, RevisionKeeps DEF PopupTypeOK

LEMMA TranslationFailsProof ==
    ASSUME PopupInv, NEW id \in DOMAIN popups, TranslationFails(id) PROVE PopupInv'
<1>1. PopupTypeOK /\ popups[id] \in Popup BY DEF PopupInv, PopupTypeOK
<1> DEFINE p == [popups[id] EXCEPT !.task = FALSE, !.success = FALSE]
<1>2. /\ p \in Popup /\ p.speaking = popups[id].speaking /\ p.copy = popups[id].copy
      /\ p.text = popups[id].text /\ p.context = popups[id].context
  BY <1>1 DEF Popup
<1>3. popups' = [popups EXCEPT ![id] = p] BY DEF TranslationFails
<1>4. Revised(id, p) BY <1>3, RevisedByExcept
<1>5. \A b \in Buttons : CopyShown(id, b, p) BY <1>2 DEF PopupInv, CopiesShown, CopyShown
<1>6. UNCHANGED <<outbox, writers, timers, mailbox, voice, written, orphaned, popupCounts>>
  BY DEF TranslationFails, copying, speech
<1> QED BY <1>1, <1>2, <1>4, <1>5, <1>6, RevisionKeeps DEF PopupTypeOK

LEMMA PinProof == ASSUME PopupInv, NEW id \in DOMAIN popups, Pin(id) PROVE PopupInv'
<1>1. PopupTypeOK /\ popups[id] \in Popup BY DEF PopupInv, PopupTypeOK
<1> DEFINE p == [popups[id] EXCEPT !.pinned = TRUE]
<1>2. /\ p \in Popup /\ p.speaking = popups[id].speaking /\ p.copy = popups[id].copy
      /\ p.text = popups[id].text /\ p.context = popups[id].context
  BY <1>1 DEF Popup
<1>3. popups' = [popups EXCEPT ![id] = p] BY DEF Pin
<1>4. Revised(id, p) BY <1>3, RevisedByExcept
<1>5. \A b \in Buttons : CopyShown(id, b, p) BY <1>2 DEF PopupInv, CopiesShown, CopyShown
<1>6. UNCHANGED <<outbox, writers, timers, mailbox, voice, written, orphaned, popupCounts>>
  BY DEF Pin, copying, speech
<1> QED BY <1>1, <1>2, <1>4, <1>5, <1>6, RevisionKeeps DEF PopupTypeOK

----------------------------------------
(* Copies.                                                                   *)

\* A step of the workers that copy, which may change the copies of one popup.
LEMMA CopyingKeeps ==
    ASSUME PopupInv, DOMAIN popups' = DOMAIN popups,
           \A id \in DOMAIN popups :
              popups'[id] \in Popup /\ popups'[id].speaking = popups[id].speaking,
           writers' \subseteq Writers, timers' \subseteq Numbers \X Buttons \X Nat,
           popupCounts'.popups = popupCounts.popups,
           popupCounts' \in [popups : Nat, contents : Nat, copies : Nat, speeches : Nat],
           UNCHANGED <<outbox, mailbox, voice, orphaned>>,
           WritersTrue', CopiesShown'
    PROVE  PopupInv'
  BY SpeechSame DEF PopupInv, PopupTypeOK

\* The popup with another copy on one of its buttons.
Recopied(id, b, c) == popups' = [popups EXCEPT ![id].copy[b] = c]

LEMMA CopyRevised ==
    ASSUME PopupTypeOK, NEW id \in DOMAIN popups, NEW b \in Buttons, NEW c \in Copies,
           Recopied(id, b, c)
    PROVE  /\ DOMAIN popups' = DOMAIN popups
           /\ \A i \in DOMAIN popups :
                 /\ popups'[i] \in Popup /\ popups'[i].speaking = popups[i].speaking
                 /\ popups'[i].text = popups[i].text /\ popups'[i].context = popups[i].context
                 /\ \A d \in Buttons : popups'[i].copy[d] = IF i = id /\ d = b THEN c
                                                            ELSE popups[i].copy[d]
<1>1. popups[id] \in Popup /\ popups[id].copy \in [Buttons -> Copies] BY DEF PopupTypeOK, Popup
<1> DEFINE copy == [popups[id].copy EXCEPT ![b] = c]
           p == [popups[id] EXCEPT !.copy = copy]
<1>2. /\ copy \in [Buttons -> Copies]
      /\ \A d \in Buttons : copy[d] = IF d = b THEN c ELSE popups[id].copy[d]
  BY <1>1
<1>3. p \in Popup /\ p.copy = copy /\ p.speaking = popups[id].speaking
      /\ p.text = popups[id].text /\ p.context = popups[id].context
  BY <1>1, <1>2 DEF Popup
<1>4. popups' = [popups EXCEPT ![id] = p] BY DEF Recopied
<1>5. Revised(id, p) BY <1>4, RevisedByExcept
<1> HIDE DEF p
<1>6. \A i \in DOMAIN popups : popups[i] \in Popup BY DEF PopupTypeOK
<1> QED BY <1>2, <1>3, <1>5, <1>6 DEF Revised

LEMMA CopyProof ==
    ASSUME PopupInv, NEW id \in DOMAIN popups, NEW b \in Buttons, NEW text \in Texts,
           Copy(id, b, text)
    PROVE  PopupInv'
<1>1. PopupTypeOK /\ popups[id] \in Popup /\ text \in Wordings /\ id \in Numbers
  BY NumbersOfPopups DEF PopupInv, Wordings
<1> DEFINE old == popups[id]
           copy == [old.copy EXCEPT ![b] = Begun(@)]
           p == [old EXCEPT !.copy = copy, !.copied = [old.copied EXCEPT ![b] = text],
                            !.context = [old.context EXCEPT ![b] = old.text[b]]]
           w == [popup |-> id, button |-> b, text |-> text, at |-> "write",
                 request |-> old.copy[b].request + 1]
<1>2. /\ old.text \in [Buttons -> Wordings] /\ old.copy \in [Buttons -> Copies]
      /\ old.copied \in [Buttons -> Wordings] /\ old.context \in [Buttons -> Wordings]
  BY <1>1 DEF Popup
<1>3. /\ old.copy[b].request + 1 \in Nat /\ old.copy[b].request \in Nat
      /\ Begun(old.copy[b]) \in Copies
      /\ Begun(old.copy[b]).completed = 0
      /\ Begun(old.copy[b]).request = old.copy[b].request + 1
  BY <1>2 DEF Copies, Begun
<1>4. /\ copy \in [Buttons -> Copies] /\ copy[b] = Begun(old.copy[b])
      /\ \A d \in Buttons : d # b => copy[d] = old.copy[d]
  BY <1>2, <1>3
<1>5. /\ [old.copied EXCEPT ![b] = text] \in [Buttons -> Wordings]
      /\ [old.context EXCEPT ![b] = old.text[b]] \in [Buttons -> Wordings]
      /\ \A d \in Buttons : d # b => [old.context EXCEPT ![b] = old.text[b]][d] = old.context[d]
  BY <1>1, <1>2
<1>6. /\ p \in Popup /\ p.speaking = old.speaking /\ p.copy = copy /\ p.text = old.text
      /\ p.context = [old.context EXCEPT ![b] = old.text[b]]
  BY <1>1, <1>4, <1>5 DEF Popup
<1>7. popups' = [popups EXCEPT ![id] = p] BY DEF Copy
<1>8. Revised(id, p) BY <1>7, RevisedByExcept
<1>9. w \in Writers /\ writers' = writers \cup {w} BY <1>1, <1>3 DEF Copy, Writers
<1>10. UNCHANGED <<outbox, timers, mailbox, voice, written, orphaned>> BY DEF Copy, speech
<1>11. WritersTrue' BY <1>9, <1>10 DEF PopupInv, WritersTrue
<1>12. CopiesShown'
  <2> SUFFICES ASSUME NEW i \in DOMAIN popups, NEW d \in Buttons
               PROVE  CopyShown(i, d, popups[i])'
    BY <1>8 DEF CopiesShown, Revised
  <2>1. CopyShown(i, d, popups[i]) BY DEF PopupInv, CopiesShown
  <2> HIDE DEF copy, p
  <2>2. CASE i = id /\ d = b
    <3>1. popups'[i].copy[d] = Begun(old.copy[b]) BY <1>4, <1>6, <1>8, <2>2 DEF Revised
    <3>2. w \in writers' /\ w.popup = i /\ w.button = d
          /\ w.request = popups'[i].copy[d].request
      BY <1>3, <1>9, <2>2, <3>1
    <3> HIDE DEF w
    <3> QED BY <1>3, <3>1, <3>2 DEF CopyShown
  <2>3. CASE i = id /\ d # b
    BY <1>4, <1>5, <1>6, <1>8, <1>9, <1>10, <2>1, <2>3 DEF Revised, CopyShown
  <2>4. CASE i # id BY <1>8, <1>9, <1>10, <2>1, <2>4 DEF CopyShown, Revised
  <2> QED BY <2>2, <2>3, <2>4
<1>13. /\ popupCounts' \in [popups : Nat, contents : Nat, copies : Nat, speeches : Nat]
       /\ popupCounts'.popups = popupCounts.popups
  BY <1>1, CountsTyped DEF Copy
<1>14. \A i \in DOMAIN popups :
          popups'[i] \in Popup /\ popups'[i].speaking = popups[i].speaking
  BY <1>1, <1>6, <1>8 DEF Revised, PopupTypeOK
<1> QED
  BY <1>1, <1>8, <1>9, <1>10, <1>11, <1>12, <1>13, <1>14, CopyingKeeps DEF Revised, PopupTypeOK

LEMMA WriteTextProof ==
    ASSUME PopupInv, NEW w \in writers, NEW success \in BOOLEAN, WriteText(w, success)
    PROVE  PopupInv'
<1> DEFINE done == [w EXCEPT !.at = IF success THEN "wrote" ELSE "failed"]
<1>1. PopupTypeOK /\ w \in Writers BY DEF PopupInv, PopupTypeOK
<1>2. /\ done \in Writers /\ done.popup = w.popup /\ done.button = w.button
      /\ done.request = w.request /\ (done.at = "wrote" => success)
  BY <1>1 DEF Writers
<1>3. /\ writers' = (writers \ {w}) \cup {done}
      /\ written' = written \cup (IF success THEN {<<w.popup, w.button, w.request>>} ELSE {})
      /\ UNCHANGED <<popups, timers, outbox, mailbox, voice, orphaned, popupCounts>>
  BY DEF WriteText, speech
<1> HIDE DEF done
<1>4. WritersTrue' BY <1>2, <1>3 DEF PopupInv, WritersTrue
<1>5. CopiesShown'
  <2> SUFFICES ASSUME NEW i \in DOMAIN popups, NEW d \in Buttons
               PROVE  CopyShown(i, d, popups[i])'
    BY <1>3 DEF CopiesShown
  <2>1. CopyShown(i, d, popups[i]) BY DEF PopupInv, CopiesShown
  <2>2. ASSUME NEW v \in writers
        PROVE  \E u \in writers' : u.popup = v.popup /\ u.button = v.button
                                   /\ u.request = v.request
    BY <1>2, <1>3
  <2> QED BY <1>3, <2>1, <2>2 DEF CopyShown
<1>6. writers' \subseteq Writers BY <1>1, <1>2, <1>3 DEF PopupTypeOK
<1> QED BY <1>1, <1>3, <1>4, <1>5, <1>6, CopyingKeeps DEF PopupTypeOK

LEMMA ReportCopyProof == ASSUME PopupInv, NEW w \in writers, ReportCopy(w) PROVE PopupInv'
<1>1. PopupTypeOK /\ w \in Writers BY SMTT(30) DEF PopupInv, PopupTypeOK
<1>2. w.popup \in Numbers /\ w.button \in Buttons /\ w.request \in Nat BY SMTT(30), <1>1 DEF Writers
<1>3. /\ writers' = writers \ {w} /\ writers' \subseteq Writers
      /\ UNCHANGED <<written, outbox, mailbox, voice, orphaned, popupCounts>>
  BY <1>1 DEF ReportCopy, speech, PopupTypeOK
<1>4. WritersTrue' BY <1>3 DEF PopupInv, WritersTrue
<1>5. CASE w.popup \notin DOMAIN popups
  <2>1. UNCHANGED <<popups, timers>> BY <1>5 DEF ReportCopy
  <2>2. CopiesShown'
    <3> SUFFICES ASSUME NEW i \in DOMAIN popups, NEW d \in Buttons
                 PROVE  CopyShown(i, d, popups[i])'
      BY <2>1 DEF CopiesShown
    <3>1. CopyShown(i, d, popups[i]) /\ i # w.popup BY <1>5 DEF PopupInv, CopiesShown
    <3> QED BY <1>3, <2>1, <3>1 DEF CopyShown
  <2> QED BY <1>1, <1>3, <1>4, <2>1, <2>2, CopyingKeeps DEF PopupTypeOK
<1>6. CASE w.popup \in DOMAIN popups
  <2> DEFINE popup == popups[w.popup]
             c == popup.copy[w.button]
             valid == /\ popup.text[w.button] = popup.context[w.button]
                      /\ w.text = popup.copied[w.button]
             success == valid /\ w.at = "wrote"
             next == Finished(c, w.request, success)
  <2>1. /\ Recopied(w.popup, w.button, next)
        /\ timers' = timers \cup (IF next.completed = 0 THEN {}
                                  ELSE {<<w.popup, w.button, next.completed>>})
    BY <1>6 DEF ReportCopy, Recopied
  <2>2. c \in Copies BY <1>1, <1>2, <1>6 DEF PopupTypeOK, Popup
  <2> HIDE DEF c
  <2>3. /\ next \in Copies /\ next.completed \in Nat /\ next.request = c.request
        /\ (next.pending => c.pending /\ c.request # w.request)
        /\ (next.completed # 0 => next.completed = c.completed
                                  \/ (next.completed = w.request /\ success))
    BY <1>2, <2>2 DEF Copies, Finished
  <2> HIDE DEF next, success
  <2>4. /\ DOMAIN popups' = DOMAIN popups
        /\ \A i \in DOMAIN popups :
              /\ popups'[i] \in Popup /\ popups'[i].speaking = popups[i].speaking
              /\ popups'[i].text = popups[i].text /\ popups'[i].context = popups[i].context
              /\ \A d \in Buttons :
                    popups'[i].copy[d] = IF i = w.popup /\ d = w.button THEN next
                                         ELSE popups[i].copy[d]
    BY <1>1, <1>2, <1>6, <2>1, <2>3, CopyRevised
  <2>5. timers' \subseteq Numbers \X Buttons \X Nat BY <1>1, <1>2, <2>1, <2>3 DEF PopupTypeOK
  <2>6. CopiesShown'
    <3> SUFFICES ASSUME NEW i \in DOMAIN popups, NEW d \in Buttons
                 PROVE  CopyShown(i, d, popups[i])'
      BY <2>4 DEF CopiesShown
    <3>1. CopyShown(i, d, popups[i]) BY DEF PopupInv, CopiesShown
    <3>2. CASE i = w.popup /\ d = w.button
      <4>1. popups'[i].copy[d] = next /\ popups[i].copy[d] = c BY <2>4, <3>2 DEF c
      <4>2. success => /\ <<i, d, w.request>> \in written
                       /\ popups[i].text[d] = popups[i].context[d]
        BY <3>2 DEF success, PopupInv, WritersTrue
      <4>3. next.completed # 0 => /\ <<i, d, next.completed>> \in written'
                                  /\ popups'[i].text[d] = popups'[i].context[d]
        BY <1>3, <2>3, <2>4, <3>1, <4>1, <4>2 DEF CopyShown
      <4>4. next.pending => \E u \in writers' : u.popup = i /\ u.button = d
                                                /\ u.request = next.request
        BY <1>3, <2>3, <3>1, <4>1 DEF CopyShown
      <4> QED BY <4>1, <4>3, <4>4 DEF CopyShown
    <3>3. CASE ~(i = w.popup /\ d = w.button) BY <1>3, <2>4, <3>1, <3>3 DEF CopyShown
    <3> QED BY <3>2, <3>3
  <2> QED BY SMTT(30), <1>1, <1>3, <1>4, <2>4, <2>5, <2>6, CopyingKeeps DEF PopupTypeOK
<1> QED BY <1>5, <1>6

LEMMA ExpireProof == ASSUME PopupInv, NEW timer \in timers, Expire(timer) PROVE PopupInv'
<1>1. PopupTypeOK /\ timer[2] \in Buttons BY DEF PopupInv, PopupTypeOK
<1>2. /\ UNCHANGED <<writers, written, outbox, mailbox, voice, orphaned, popupCounts>>
      /\ timers' \subseteq Numbers \X Buttons \X Nat
  BY <1>1 DEF Expire, speech, PopupTypeOK
<1>3. WritersTrue' BY <1>2 DEF PopupInv, WritersTrue
<1>4. CASE timer[1] \notin DOMAIN popups
  <2>1. popups' = popups BY <1>4 DEF Expire
  <2>2. CopiesShown'
    <3> SUFFICES ASSUME NEW i \in DOMAIN popups, NEW d \in Buttons
                 PROVE  CopyShown(i, d, popups[i])'
      BY <2>1 DEF CopiesShown
    <3> QED BY <1>2, <2>1 DEF CopyShown, PopupInv, CopiesShown
  <2> QED BY <1>1, <1>2, <1>3, <2>1, <2>2, CopyingKeeps DEF PopupTypeOK
<1>5. CASE timer[1] \in DOMAIN popups
  <2> DEFINE id == timer[1]
             b == timer[2]
             c == popups[id].copy[b]
             next == Cleared(c, timer[3])
  <2>1. Recopied(id, b, next) BY <1>5 DEF Expire, Recopied
  <2>2. c \in Copies BY <1>1, <1>5 DEF PopupTypeOK, Popup
  <2> HIDE DEF c
  <2>3. /\ next \in Copies /\ next.request = c.request /\ next.pending = c.pending
        /\ (next.completed # 0 => next.completed = c.completed)
    BY <2>2 DEF Copies, Cleared
  <2> HIDE DEF next
  <2>4. /\ DOMAIN popups' = DOMAIN popups
        /\ \A i \in DOMAIN popups :
              /\ popups'[i] \in Popup /\ popups'[i].speaking = popups[i].speaking
              /\ popups'[i].text = popups[i].text /\ popups'[i].context = popups[i].context
              /\ \A d \in Buttons : popups'[i].copy[d] = IF i = id /\ d = b THEN next
                                                         ELSE popups[i].copy[d]
    BY <1>1, <1>5, <2>1, <2>3, CopyRevised
  <2>5. CopiesShown'
    <3> SUFFICES ASSUME NEW i \in DOMAIN popups, NEW d \in Buttons
                 PROVE  CopyShown(i, d, popups[i])'
      BY <2>4 DEF CopiesShown
    <3>1. CopyShown(i, d, popups[i]) BY DEF PopupInv, CopiesShown
    <3>2. /\ popups'[i].copy[d].request = popups[i].copy[d].request
          /\ popups'[i].copy[d].pending = popups[i].copy[d].pending
          /\ (popups'[i].copy[d].completed # 0
                => popups'[i].copy[d].completed = popups[i].copy[d].completed)
      BY <2>3, <2>4 DEF c
    <3> QED BY <1>2, <2>4, <3>1, <3>2 DEF CopyShown
  <2> QED BY <1>1, <1>2, <1>3, <2>4, <2>5, CopyingKeeps DEF PopupTypeOK
<1> QED BY <1>4, <1>5

----------------------------------------
(* Popups that close.                                                        *)

\* A step that changes no contents, but may remove popups.
LEMMA ContentsKept ==
    ASSUME PopupInv, DOMAIN popups' \subseteq DOMAIN popups,
           \A i \in DOMAIN popups' :
              /\ popups'[i] \in Popup /\ popups'[i].copy = popups[i].copy
              /\ popups'[i].text = popups[i].text /\ popups'[i].context = popups[i].context,
           UNCHANGED <<writers, timers, written>>,
           popupCounts'.popups = popupCounts.popups,
           popupCounts' \in [popups : Nat, contents : Nat, copies : Nat, speeches : Nat],
           outbox' \in [Listeners -> {<<>>} \cup {<<c>> : c \in Commands}],
           mailbox' \in Seq(Commands),
           voice' \in [active : {Silence} \cup Things, events : Seq(Events)]
    PROVE  PopupTypeOK' /\ WritersTrue' /\ CopiesShown'
<1>1. PopupTypeOK' BY DEF PopupInv, PopupTypeOK
<1>2. WritersTrue' BY DEF PopupInv, WritersTrue
<1>3. CopiesShown'
  <2> SUFFICES ASSUME NEW i \in DOMAIN popups', NEW d \in Buttons
               PROVE  CopyShown(i, d, popups[i])'
    BY DEF CopiesShown
  <2>1. CopyShown(i, d, popups[i]) BY DEF PopupInv, CopiesShown
  <2> QED BY <2>1 DEF CopyShown
<1> QED BY <1>1, <1>2, <1>3

\* The popups without the one that closes, of which the voice is told.
Closes(thread, id) ==
    /\ DOMAIN popups' = DOMAIN popups \ {id}
    /\ \A i \in DOMAIN popups' :
          /\ popups'[i] \in Popup /\ popups'[i].copy = popups[i].copy
          /\ popups'[i].text = popups[i].text /\ popups'[i].context = popups[i].context
          /\ popups'[i].speaking = popups[i].speaking
    /\ outbox' = [outbox EXCEPT ![thread] = <<Hush(id)>>]
    /\ orphaned \subseteq orphaned'
    /\ thread = "shortcut" => Done("event loop") \/ id \in orphaned'
    /\ UNCHANGED <<writers, timers, mailbox, voice, written, popupCounts>>

LEMMA ClosesProof ==
    ASSUME PopupInv, NEW thread \in Listeners, NEW id \in DOMAIN popups, Done(thread),
           Closes(thread, id)
    PROVE  PopupInv'
<1>1. PopupTypeOK /\ id \in Numbers BY NumbersOfPopups DEF PopupInv
<1>2. Hush(id) \in Commands /\ ~Hush(id).on /\ Hush(id).popup = id BY <1>1, CommandsTyped
<1>3. /\ outbox' \in [Listeners -> {<<>>} \cup {<<c>> : c \in Commands}]
      /\ \A t \in Listeners : outbox'[t] = IF t = thread THEN <<Hush(id)>> ELSE outbox[t]
      /\ Coming' = Coming \cup {Hush(id)}
  BY <1>1, <1>2, Sending DEF Closes
<1>4. PopupTypeOK' /\ WritersTrue' /\ CopiesShown'
  BY <1>1, <1>3, ContentsKept DEF Closes, PopupTypeOK
<1>5. \A what, on : Announced(voice'.events, what, on) <=> Announced(voice.events, what, on)
  BY DEF Closes, Announced
<1>6. EventsTrue' BY DEF Closes, PopupInv, SpeechInv, EventsTrue
<1>7. ShownIsRead' BY <1>3, <1>5 DEF Closes, PopupInv, SpeechInv, ShownIsRead
<1>8. ReadIsShown'
  <2> SUFFICES ASSUME NEW i \in Numbers \ orphaned', NEW b \in Buttons, voice'.active = <<i, b>>
               PROVE  \/ i \in DOMAIN popups'
                            /\ (b \in popups'[i].speaking
                                   \/ Announced(voice'.events, <<i, b>>, TRUE))
                      \/ Hush(i) \in Coming'
                      \/ \E c \in Coming' : c.on
    BY DEF ReadIsShown
  <2>1. \/ i \in DOMAIN popups
              /\ (b \in popups[i].speaking \/ Announced(voice.events, <<i, b>>, TRUE))
        \/ Hush(i) \in Coming
        \/ \E c \in Coming : c.on
    BY DEF Closes, PopupInv, SpeechInv, ReadIsShown
  <2> QED BY <1>3, <1>5, <2>1 DEF Closes
<1>9. ClosedIsStopped'
  <2>1. \A i \in DOMAIN mailbox' :
           mailbox'[i].on /\ mailbox'[i].popup \notin DOMAIN popups' \cup orphaned'
              => Stopped(mailbox', outbox', i, mailbox'[i].popup)
    <3> SUFFICES ASSUME NEW i \in DOMAIN mailbox, mailbox[i].on,
                        mailbox[i].popup \notin DOMAIN popups' \cup orphaned'
                 PROVE  Stopped(mailbox, outbox', i, mailbox[i].popup)
      BY DEF Closes
    <3>1. CASE mailbox[i].popup = id BY <1>3, <3>1 DEF Stopped
    <3>2. CASE mailbox[i].popup # id
      <4>1. Stopped(mailbox, outbox, i, mailbox[i].popup)
        BY <3>2 DEF Closes, PopupInv, SpeechInv, ClosedIsStopped
      <4>2. ASSUME NEW t \in Listeners, outbox[t] = <<Hush(mailbox[i].popup)>>
            PROVE  outbox'[t] = outbox[t]
        BY <1>3, <4>2, Single DEF Done
      <4> QED BY <4>1, <4>2 DEF Stopped
    <3> QED BY <3>1, <3>2
  <2>2. ASSUME NEW c \in Commands, outbox'["event loop"] = <<c>>, c.on
        PROVE  c.popup \in DOMAIN popups' \cup orphaned'
    <3>1. thread # "event loop"
      <4> SUFFICES ASSUME thread = "event loop" PROVE FALSE OBVIOUS
      <4>1. <<Hush(id)>> = <<c>> BY <1>3, <2>2
      <4>2. c = Hush(id) BY <4>1, Single
      <4> QED BY <1>2, <2>2, <4>2
    <3>2. thread = "shortcut" /\ outbox["event loop"] = <<c>> BY <1>3, <2>2, <3>1 DEF Listeners
    <3>3. ~Done("event loop") BY <3>2, Single DEF Done
    <3>4. c.popup \in DOMAIN popups \cup orphaned
      BY <2>2, <3>2 DEF PopupInv, SpeechInv, ClosedIsStopped
    <3> QED BY <3>2, <3>3, <3>4 DEF Closes
  <2>3. ASSUME NEW c \in Commands, outbox'["shortcut"] = <<c>> PROVE ~c.on
    BY <1>2, <1>3, <2>3, Single DEF Listeners, PopupInv, SpeechInv, ClosedIsStopped
  <2> QED BY <2>1, <2>2, <2>3 DEF ClosedIsStopped
<1> QED BY <1>4, <1>6, <1>7, <1>8, <1>9 DEF PopupInv, SpeechInv

LEMMA CloseSessionFacts ==
    ASSUME PopupTypeOK, NEW thread \in Listeners, NEW id \in DOMAIN popups, CloseSession(thread, id)
    PROVE  /\ DOMAIN popups' = DOMAIN popups \ {id}
           /\ \A i \in DOMAIN popups' : popups'[i] = popups[i] /\ popups'[i] \in Popup
           /\ outbox' = [outbox EXCEPT ![thread] = <<Hush(id)>>]
BY DEF PopupTypeOK, CloseSession, WithoutPopup

LEMMA ClosePopupProof ==
    ASSUME PopupInv, NEW id \in DOMAIN popups, Done("event loop"), Close(id) PROVE PopupInv'
  BY CloseSessionFacts, ClosesProof DEF PopupInv, Listeners, Close, Closes, copying, speech

LEMMA ShortcutClosesProof ==
    ASSUME PopupInv, NEW id \in DOMAIN popups, ShortcutCloses(id) PROVE PopupInv'
  BY CloseSessionFacts, ClosesProof DEF PopupInv, Listeners, ShortcutCloses, Closes, copying,
     speech

LEMMA UnpinProof ==
    ASSUME PopupInv, NEW id \in DOMAIN popups, Done("event loop"), Unpin(id) PROVE PopupInv'
<1> DEFINE p == [popups[id] EXCEPT !.pinned = FALSE]
           unpinned == [popups EXCEPT ![id] = p]
           alone == active \notin DOMAIN popups \ {id} \/ unpinned[active].pinned
<1>1. PopupTypeOK /\ popups[id] \in Popup /\ "event loop" \in Listeners
  BY DEF PopupInv, PopupTypeOK, Listeners
<1>2. /\ p \in Popup /\ p.speaking = popups[id].speaking /\ p.copy = popups[id].copy
      /\ p.text = popups[id].text /\ p.context = popups[id].context
  BY <1>1 DEF Popup
<1>3. /\ IF alone THEN popups' = unpinned /\ UNCHANGED outbox
         ELSE /\ popups' = [i \in DOMAIN popups \ {active} |-> unpinned[i]]
              /\ outbox' = [outbox EXCEPT !["event loop"] = <<Hush(active)>>]
      /\ UNCHANGED <<writers, timers, mailbox, voice, written, orphaned, popupCounts>>
  BY DEF Unpin, copying, speech
<1> HIDE DEF p
<1>4. CASE alone
  <2>1. Revised(id, p) BY <1>3, <1>4, RevisedByExcept
  <2>2. \A b \in Buttons : CopyShown(id, b, p)
    <3> SUFFICES ASSUME NEW b \in Buttons PROVE CopyShown(id, b, p) OBVIOUS
    <3>1. CopyShown(id, b, popups[id]) BY DEF PopupInv, CopiesShown
    <3>2. p.copy[b] = popups[id].copy[b] /\ p.text[b] = popups[id].text[b]
          /\ p.context[b] = popups[id].context[b]
      BY <1>2
    <3> QED BY <3>1, <3>2 DEF CopyShown
  <2> QED BY <1>1, <1>2, <1>3, <1>4, <2>1, <2>2, RevisionKeeps DEF PopupTypeOK
<1>5. CASE ~alone BY <1>1, <1>2, <1>3, <1>5, ClosesProof DEF Closes, PopupTypeOK
<1> QED BY <1>4, <1>5

----------------------------------------
(* A popup that is made or reused.                                           *)

LEMMA PrepareProof ==
    ASSUME PopupInv, NEW text \in Wordings, NEW task \in BOOLEAN, Prepare(text, task)
    PROVE  PopupInv'
<1> DEFINE reused == active \in DOMAIN popups /\ ~popups[active].pinned
           id == IF reused THEN active ELSE popupCounts.popups + 1
           popup == IF reused THEN popups[id] ELSE NewPopup
           p == [Content(popup, text, task) EXCEPT !.speaking = {}]
<1>1. PopupTypeOK BY DEF PopupInv
<1>2. id \in 1..popupCounts'.popups /\ popupCounts.popups <= popupCounts'.popups
      /\ popupCounts' \in [popups : Nat, contents : Nat, copies : Nat, speeches : Nat]
      /\ (~reused => id \notin DOMAIN popups) /\ (reused => id \in DOMAIN popups)
  <2>1. /\ popupCounts \in [popups : Nat, contents : Nat, copies : Nat, speeches : Nat]
        /\ popupCounts.popups \in Nat /\ popupCounts.popups + 1 \in Nat
        /\ popupCounts.contents \in Nat /\ popupCounts.contents + 1 \in Nat
    BY <1>1 DEF PopupTypeOK
  <2>2. CASE reused
    <3>1. popupCounts' = [popupCounts EXCEPT !.contents = @ + 1, !.popups = @] BY <2>2 DEF Prepare
    <3>2. active \in 1..popupCounts.popups BY <1>1, <2>2 DEF PopupTypeOK
    <3>3. /\ popupCounts' \in [popups : Nat, contents : Nat, copies : Nat, speeches : Nat]
          /\ popupCounts'.popups = popupCounts.popups
      BY <2>1, <3>1
    <3>4. id = active BY <2>2
    <3> HIDE DEF id
    <3> QED BY <2>1, <2>2, <3>2, <3>3, <3>4
  <2>3. CASE ~reused
    <3>1. popupCounts' = [popupCounts EXCEPT !.contents = @ + 1, !.popups = @ + 1]
      BY <2>3 DEF Prepare
    <3>2. popupCounts.popups + 1 \notin DOMAIN popups BY <1>1, <2>1 DEF PopupTypeOK
    <3>3. /\ popupCounts' \in [popups : Nat, contents : Nat, copies : Nat, speeches : Nat]
          /\ popupCounts'.popups = popupCounts.popups + 1
      BY <2>1, <3>1
    <3>4. id = popupCounts.popups + 1 BY <2>3
    <3> HIDE DEF id
    <3> QED BY <2>1, <2>3, <3>2, <3>3, <3>4
  <2> QED BY <2>2, <2>3
<1>3. popup \in Popup BY <1>1, <1>2, NewPopupTyped DEF PopupTypeOK
<1>4. p \in Popup /\ p.speaking = {} /\ \A b \in Buttons : CopyShown(id, b, p) BY <1>3, ContentFacts
<1>5. popups' = [i \in DOMAIN popups \cup {id} |-> IF i = id THEN p ELSE popups[i]] BY DEF Prepare
<1>6. /\ orphaned' = orphaned \cup (IF reused /\ ReadAloud(id) THEN {id} ELSE {})
      /\ UNCHANGED <<outbox, writers, timers, mailbox, voice, written>>
  BY DEF Prepare, copying, speech
<1> HIDE DEF p
<1>7. /\ DOMAIN popups' = DOMAIN popups \cup {id} /\ popups'[id] = p
      /\ \A i \in DOMAIN popups : i # id => popups'[i] = popups[i]
  BY <1>5
<1>8. reused /\ voice.active[1] = id => id \in orphaned' BY <1>6 DEF ReadAloud
<1> HIDE DEF popup, reused, id
<1>9. PopupTypeOK' BY SMTT(30), <1>1, <1>2, <1>4, <1>6, <1>7 DEF PopupTypeOK
<1>10. WritersTrue' BY <1>6 DEF PopupInv, WritersTrue
<1>11. CopiesShown'
  <2> SUFFICES ASSUME NEW i \in DOMAIN popups', NEW d \in Buttons
               PROVE  CopyShown(i, d, popups[i])'
    BY DEF CopiesShown
  <2>1. CASE i = id BY <1>4, <1>6, <1>7, <2>1 DEF CopyShown
  <2>2. CASE i # id BY <1>6, <1>7, <2>2 DEF PopupInv, CopiesShown, CopyShown
  <2> QED BY <2>1, <2>2
<1>12. Coming' = Coming BY <1>6 DEF Coming
<1>13. EventsTrue' BY <1>6 DEF PopupInv, SpeechInv, EventsTrue
<1>14. ShownIsRead'
  <2> SUFFICES ASSUME NEW i \in DOMAIN popups', NEW b \in popups'[i].speaking
               PROVE  \/ voice'.active = <<i, b>>
                      \/ \E on \in BOOLEAN : Announced(voice'.events, <<i, b>>, on)
                      \/ Speak(i, b) \in Coming'
    BY DEF ShownIsRead
  <2>1. i # id BY <1>4, <1>7
  <2> QED BY <1>6, <1>7, <1>12, <2>1 DEF PopupInv, SpeechInv, ShownIsRead
<1>15. ReadIsShown'
  <2> SUFFICES ASSUME NEW i \in Numbers \ orphaned', NEW b \in Buttons, voice.active = <<i, b>>
               PROVE  \/ i \in DOMAIN popups'
                            /\ (b \in popups'[i].speaking
                                   \/ Announced(voice'.events, <<i, b>>, TRUE))
                      \/ Hush(i) \in Coming'
                      \/ \E c \in Coming' : c.on
    BY <1>6 DEF ReadIsShown
  <2>1. \/ i \in DOMAIN popups
              /\ (b \in popups[i].speaking \/ Announced(voice.events, <<i, b>>, TRUE))
        \/ Hush(i) \in Coming
        \/ \E c \in Coming : c.on
    BY <1>6 DEF PopupInv, SpeechInv, ReadIsShown
  <2>2. i \in DOMAIN popups => i # id BY <1>2, <1>8
  <2> QED BY <1>6, <1>7, <1>12, <2>1, <2>2
<1>16. ClosedIsStopped' BY <1>6, <1>7 DEF PopupInv, SpeechInv, ClosedIsStopped
<1> QED BY <1>9, <1>10, <1>11, <1>13, <1>14, <1>15, <1>16 DEF PopupInv, SpeechInv

----------------------------------------
(* Requests to read aloud.                                                   *)

\* A request changes what the buttons say and sends a command.
LEMMA RequestKeeps ==
    ASSUME PopupInv, NEW c \in Commands, Done("event loop"), DOMAIN popups' = DOMAIN popups,
           c.popup \in DOMAIN popups,
           \A i \in DOMAIN popups :
              /\ popups'[i] \in Popup /\ popups'[i].copy = popups[i].copy
              /\ popups'[i].text = popups[i].text /\ popups'[i].context = popups[i].context,
           outbox' = [outbox EXCEPT !["event loop"] = <<c>>],
           UNCHANGED <<writers, timers, mailbox, voice, written, orphaned>>,
           popupCounts'.popups = popupCounts.popups,
           popupCounts' \in [popups : Nat, contents : Nat, copies : Nat, speeches : Nat]
    PROVE  /\ PopupTypeOK' /\ WritersTrue' /\ CopiesShown' /\ EventsTrue' /\ ClosedIsStopped'
           /\ Coming' = Coming \cup {c}
<1>1. PopupTypeOK /\ "event loop" \in Listeners /\ "shortcut" \in Listeners
  BY DEF PopupInv, Listeners
<1>2. /\ outbox' \in [Listeners -> {<<>>} \cup {<<d>> : d \in Commands}]
      /\ \A t \in Listeners : outbox'[t] = IF t = "event loop" THEN <<c>> ELSE outbox[t]
      /\ Coming' = Coming \cup {c}
  BY <1>1, Sending
<1>3. PopupTypeOK' /\ WritersTrue' /\ CopiesShown' BY <1>1, <1>2, ContentsKept DEF PopupTypeOK
<1>4. EventsTrue' BY DEF PopupInv, SpeechInv, EventsTrue
<1>5. ClosedIsStopped'
  <2>1. \A i \in DOMAIN mailbox :
           mailbox[i].on /\ mailbox[i].popup \notin DOMAIN popups \cup orphaned
              => Stopped(mailbox, outbox', i, mailbox[i].popup)
    <3> SUFFICES ASSUME NEW i \in DOMAIN mailbox, mailbox[i].on,
                        mailbox[i].popup \notin DOMAIN popups \cup orphaned
                 PROVE  Stopped(mailbox, outbox', i, mailbox[i].popup)
      OBVIOUS
    <3>1. Stopped(mailbox, outbox, i, mailbox[i].popup) BY DEF PopupInv, SpeechInv, ClosedIsStopped
    <3>2. ASSUME NEW t \in Listeners, outbox[t] = <<Hush(mailbox[i].popup)>>
          PROVE  outbox'[t] = outbox[t]
      BY <1>2, <3>2, Single DEF Done
    <3> QED BY <3>1, <3>2 DEF Stopped
  <2>2. ASSUME NEW d \in Commands, outbox'["event loop"] = <<d>>, d.on
        PROVE  d.popup \in DOMAIN popups \cup orphaned
    BY <1>1, <1>2, <2>2, Single
  <2>3. ASSUME NEW d \in Commands, outbox'["shortcut"] = <<d>> PROVE ~d.on
    BY <1>1, <1>2, <2>3 DEF PopupInv, SpeechInv, ClosedIsStopped
  <2> QED BY <2>1, <2>2, <2>3 DEF ClosedIsStopped
<1> QED BY <1>2, <1>3, <1>4, <1>5

Telling(popup, words) == [popup EXCEPT !.speaking = words]

LEMMA TellingFacts ==
    ASSUME NEW popup \in Popup, NEW words, words \subseteq Buttons
    PROVE  /\ Telling(popup, words) \in Popup /\ Telling(popup, words).speaking = words
           /\ Telling(popup, words).copy = popup.copy
           /\ Telling(popup, words).text = popup.text
           /\ Telling(popup, words).context = popup.context
BY DEF Popup, Telling

LEMMA ListenProof ==
    ASSUME PopupInv, NEW id \in DOMAIN popups, NEW b \in Buttons, Done("event loop"), Listen(id, b)
    PROVE  PopupInv'
<1>1. PopupTypeOK /\ id \in Numbers /\ \A i \in DOMAIN popups : popups[i] \in Popup
  BY NumbersOfPopups DEF PopupInv
<1>2. /\ popupCounts' \in [popups : Nat, contents : Nat, copies : Nat, speeches : Nat]
      /\ popupCounts'.popups = popupCounts.popups
      /\ UNCHANGED <<writers, timers, mailbox, voice, written, orphaned>>
  BY <1>1, CountsTyped DEF Listen, copying, speech
<1>3. CASE b \in popups[id].speaking
  <2>1. /\ popups' = [popups EXCEPT ![id].speaking = {}]
        /\ outbox' = [outbox EXCEPT !["event loop"] = <<Hush(id)>>]
    BY <1>3 DEF Listen
  <2>2. /\ DOMAIN popups' = DOMAIN popups
        /\ popups'[id] = Telling(popups[id], {})
        /\ \A i \in DOMAIN popups : i # id => popups'[i] = popups[i]
    BY <2>1 DEF Telling
  <2>3. \A i \in DOMAIN popups :
           /\ popups'[i] \in Popup /\ popups'[i].copy = popups[i].copy
           /\ popups'[i].text = popups[i].text /\ popups'[i].context = popups[i].context
    <3>1. popups[id] \in Popup /\ {} \subseteq Buttons BY <1>1
    <3>2. LET p == Telling(popups[id], {})
          IN  /\ p \in Popup /\ p.copy = popups[id].copy
              /\ p.text = popups[id].text /\ p.context = popups[id].context
      BY <3>1, TellingFacts
    <3> QED BY <1>1, <2>2, <3>2
  <2>4. Hush(id) \in Commands /\ Hush(id).popup = id BY <1>1, CommandsTyped
  <2>5. /\ PopupTypeOK' /\ WritersTrue' /\ CopiesShown' /\ EventsTrue' /\ ClosedIsStopped'
        /\ Coming' = Coming \cup {Hush(id)}
    BY <1>2, <2>1, <2>2, <2>3, <2>4, RequestKeeps
  <2>6. popups'[id].speaking = {} BY <1>1, <2>2 DEF Telling, Popup
  <2>7. ShownIsRead' BY <1>2, <2>2, <2>5, <2>6 DEF PopupInv, SpeechInv, ShownIsRead
  <2>8. ReadIsShown' BY <1>2, <2>2, <2>5 DEF PopupInv, SpeechInv, ReadIsShown
  <2> QED BY <2>5, <2>7, <2>8 DEF PopupInv, SpeechInv
<1>4. CASE b \notin popups[id].speaking
  <2>1. /\ popups' = [i \in DOMAIN popups |->
                         [popups[i] EXCEPT !.speaking = IF i = id THEN {b} ELSE {}]]
        /\ outbox' = [outbox EXCEPT !["event loop"] = <<Speak(id, b)>>]
    BY <1>4 DEF Listen
  <2>2. DOMAIN popups' = DOMAIN popups BY <2>1
  <2>3. \A i \in DOMAIN popups :
           /\ popups'[i] \in Popup /\ popups'[i].copy = popups[i].copy
           /\ popups'[i].text = popups[i].text /\ popups'[i].context = popups[i].context
           /\ popups'[i].speaking = IF i = id THEN {b} ELSE {}
    <3> SUFFICES ASSUME NEW i \in DOMAIN popups
                 PROVE  /\ popups'[i] \in Popup /\ popups'[i].copy = popups[i].copy
                        /\ popups'[i].text = popups[i].text
                        /\ popups'[i].context = popups[i].context
                        /\ popups'[i].speaking = IF i = id THEN {b} ELSE {}
      OBVIOUS
    <3>1. popups'[i] = Telling(popups[i], IF i = id THEN {b} ELSE {}) BY <2>1 DEF Telling
    <3>2. popups[i] \in Popup BY <1>1
    <3> DEFINE words == IF i = id THEN {b} ELSE {}
               p == Telling(popups[i], words)
    <3>3. words \subseteq Buttons OBVIOUS
    <3> HIDE DEF words
    <3>4. /\ p \in Popup /\ p.copy = popups[i].copy /\ p.speaking = words
          /\ p.text = popups[i].text /\ p.context = popups[i].context
      BY <3>2, <3>3, TellingFacts
    <3> QED BY <3>1, <3>4 DEF words
  <2>4. Speak(id, b) \in Commands /\ Speak(id, b).popup = id /\ Speak(id, b).on
    BY <1>1, CommandsTyped
  <2>5. /\ PopupTypeOK' /\ WritersTrue' /\ CopiesShown' /\ EventsTrue' /\ ClosedIsStopped'
        /\ Coming' = Coming \cup {Speak(id, b)}
    BY <1>2, <2>1, <2>2, <2>3, <2>4, RequestKeeps
  <2>6. ShownIsRead' BY ZenonT(60), <2>2, <2>3, <2>5 DEF ShownIsRead
  <2>7. ReadIsShown' BY <2>4, <2>5 DEF ReadIsShown
  <2> QED BY <2>5, <2>6, <2>7 DEF PopupInv, SpeechInv
<1> QED BY <1>3, <1>4

----------------------------------------
(* The channel and the voice.                                                *)

\* A step that leaves the popups alone.
LEMMA PopupsKept ==
    ASSUME PopupInv, UNCHANGED <<popups, writers, timers, written, popupCounts>>,
           outbox' \in [Listeners -> {<<>>} \cup {<<c>> : c \in Commands}],
           mailbox' \in Seq(Commands),
           voice' \in [active : {Silence} \cup Things, events : Seq(Events)]
    PROVE  PopupTypeOK' /\ WritersTrue' /\ CopiesShown'
  BY ContentsKept DEF PopupInv, PopupTypeOK

LEMMA PostProof == ASSUME PopupInv, NEW thread \in Listeners, Post(thread) PROVE PopupInv'
<1>1. /\ PopupTypeOK /\ mailbox \in Seq(Commands)
      /\ outbox \in [Listeners -> {<<>>} \cup {<<c>> : c \in Commands}]
  BY DEF PopupInv, PopupTypeOK
<1>2. PICK c \in Commands : outbox[thread] = <<c>> BY <1>1 DEF Post, Done
<1>3. Head(<<c>>) = c /\ Tail(<<c>>) = <<>> OBVIOUS
<1>4. mailbox' = Append(mailbox, c) /\ outbox' = [outbox EXCEPT ![thread] = <<>>]
  BY <1>2, <1>3 DEF Post
<1>5. UNCHANGED <<popups, active, writers, timers, written, voice, orphaned, popupCounts>>
  BY DEF Post, copying
<1>6. \A t \in Listeners : outbox'[t] = IF t = thread THEN <<>> ELSE outbox[t] BY <1>1, <1>4
<1>7. outbox' \in [Listeners -> {<<>>} \cup {<<d>> : d \in Commands}] BY <1>1, <1>4
<1>8. /\ mailbox' \in Seq(Commands)
      /\ DOMAIN mailbox' = 1..(Len(mailbox) + 1) /\ DOMAIN mailbox = 1..Len(mailbox)
      /\ Len(mailbox) \in Nat
      /\ \A i \in 1..Len(mailbox) : mailbox'[i] = mailbox[i]
      /\ mailbox'[Len(mailbox) + 1] = c
  BY <1>1, <1>4
<1>9. \A d \in Commands : d \in Coming => d \in Coming'
  <2> SUFFICES ASSUME NEW d \in Commands, d \in Coming PROVE d \in Coming' OBVIOUS
  <2>1. CASE \E i \in DOMAIN mailbox : mailbox[i] = d BY <1>8, <2>1 DEF Coming
  <2>2. ASSUME NEW t \in Listeners, outbox[t] = <<d>> PROVE d \in Coming'
    BY <1>2, <1>6, <1>8, <2>2, Single DEF Coming
  <2> QED BY <2>1, <2>2 DEF Coming
<1>10. Coming \subseteq Commands BY <1>1, <1>8 DEF Coming
<1>11. PopupTypeOK' /\ WritersTrue' /\ CopiesShown'
  BY <1>1, <1>5, <1>7, <1>8, PopupsKept DEF PopupTypeOK
<1>12. EventsTrue' BY <1>5 DEF PopupInv, SpeechInv, EventsTrue
<1>13. ShownIsRead' BY <1>5, <1>9, <1>10 DEF PopupInv, SpeechInv, ShownIsRead
<1>14. ReadIsShown' BY <1>5, <1>9, <1>10 DEF PopupInv, SpeechInv, ReadIsShown
<1>15. ClosedIsStopped'
  <2>1. \A i \in DOMAIN mailbox' :
           mailbox'[i].on /\ mailbox'[i].popup \notin DOMAIN popups \cup orphaned
              => Stopped(mailbox', outbox', i, mailbox'[i].popup)
    <3> SUFFICES ASSUME NEW i \in DOMAIN mailbox', mailbox'[i].on,
                        mailbox'[i].popup \notin DOMAIN popups \cup orphaned
                 PROVE  Stopped(mailbox', outbox', i, mailbox'[i].popup)
      OBVIOUS
    <3>1. i # Len(mailbox) + 1
      <4> SUFFICES ASSUME i = Len(mailbox) + 1 PROVE FALSE OBVIOUS
      <4>1. c.on /\ c.popup \notin DOMAIN popups \cup orphaned BY <1>8
      <4>2. thread # "shortcut" BY <1>2, <4>1 DEF PopupInv, SpeechInv, ClosedIsStopped
      <4>3. outbox["event loop"] = <<c>> BY <1>2, <4>2 DEF Listeners
      <4> QED BY <4>1, <4>3 DEF PopupInv, SpeechInv, ClosedIsStopped
    <3>2. i \in DOMAIN mailbox /\ mailbox'[i] = mailbox[i] /\ i < Len(mailbox) + 1 BY <1>8, <3>1
    <3>3. Stopped(mailbox, outbox, i, mailbox[i].popup)
      BY <3>2 DEF PopupInv, SpeechInv, ClosedIsStopped
    <3> DEFINE stop == Hush(mailbox[i].popup)
    <3>4. CASE \E j \in DOMAIN mailbox : j > i /\ mailbox[j] = stop BY <1>8, <3>2, <3>4 DEF Stopped
    <3>5. ASSUME NEW t \in Listeners, outbox[t] = <<stop>>
          PROVE  Stopped(mailbox', outbox', i, mailbox'[i].popup)
      <4> HIDE DEF stop
      <4>1. CASE t = thread BY <1>2, <1>8, <3>2, <3>5, <4>1, Single DEF Stopped, stop
      <4>2. CASE t # thread BY <1>6, <3>2, <3>5, <4>2 DEF Stopped, stop
      <4> QED BY <4>1, <4>2
    <3> QED BY <3>3, <3>4, <3>5 DEF Stopped
  <2>2. ASSUME NEW t \in Listeners, NEW d \in Commands, outbox'[t] = <<d>>
        PROVE  outbox[t] = <<d>>
    BY <1>6, <2>2, Single
  <2> QED BY <1>5, <2>1, <2>2 DEF PopupInv, SpeechInv, ClosedIsStopped, Listeners
<1> QED BY <1>11, <1>12, <1>13, <1>14, <1>15 DEF PopupInv, SpeechInv

\* What the voice reports when something else begins or nothing more is read.
LEMMA EventLists ==
    ASSUME NEW what, NEW on, NEW d, NEW e, e = [what |-> what, on |-> on]
    PROVE  /\ Announced(<<e>>, what, on)
           /\ Announced(<<d, e>>, what, on)
           /\ Announced(<<e, d>>, what, on)
  BY DEF Announced

LEMMA NoEvents == \A what, on : ~Announced(<<>>, what, on)
BY DEF Announced

LEMMA Concatenated ==
    ASSUME NEW d \in Events, NEW e \in Events
    PROVE  /\ <<d>> \o <<e>> = <<d, e>> /\ <<>> \o <<e>> = <<e>>
           /\ <<e>> \in Seq(Events) /\ <<d, e>> \in Seq(Events)
<1>1. <<d>> \in Seq(Events) /\ <<e>> \in Seq(Events) /\ <<d, e>> \in Seq(Events) OBVIOUS
<1>2. <<>> \o <<e>> = <<e>> BY <1>1, ConcatEmptySeq
<1>3. /\ Len(<<d>>) = 1 /\ Len(<<e>>) = 1 /\ Len(<<d, e>>) = 2
      /\ <<d>>[1] = d /\ <<e>>[1] = e /\ <<d, e>>[1] = d /\ <<d, e>>[2] = e
  OBVIOUS
<1>4. /\ <<d>> \o <<e>> \in Seq(Events) /\ Len(<<d>> \o <<e>>) = 2
      /\ \A i \in 1..2 : (<<d>> \o <<e>>)[i] = <<d, e>>[i]
  BY <1>1, <1>3, ConcatProperties
<1>5. <<d>> \o <<e>> = <<d, e>> BY <1>1, <1>3, <1>4, SeqEqual
<1> QED BY <1>1, <1>2, <1>5

\* The voice passes from one thing, or none, to another or none, and says so.
Turns(next) ==
    /\ voice'.active = next
    /\ EventsTrue'
    /\ voice'.events \in Seq(Events)
    /\ voice.active # Silence => Announced(voice'.events, voice.active, FALSE)
    /\ next # Silence => Announced(voice'.events, next, TRUE)

LEMMA TurnsOn ==
    ASSUME PopupTypeOK, NEW next \in Things, NEW success \in BOOLEAN,
           voice' = [active |-> IF success THEN next ELSE Silence,
                     events |-> Said(voice.active, FALSE) \o Said(next, success)]
    PROVE  /\ Turns(IF success THEN next ELSE Silence)
           /\ voice' \in [active : {Silence} \cup Things, events : Seq(Events)]
           /\ Announced(voice'.events, next, success)
<1> DEFINE old == [what |-> voice.active, on |-> FALSE]
           new == [what |-> next, on |-> success]
<1>1. next # Silence /\ new \in Events BY DEF Silence, Things, Numbers, Events
<1>2. Said(next, success) = <<new>> BY <1>1 DEF Said
<1>3. new.what = next /\ new.on = success OBVIOUS
<1>4. voice.active \in {Silence} \cup Things BY DEF PopupTypeOK
<1>5. CASE voice.active = Silence
  <2>1. voice'.events = <<new>> BY <1>1, <1>2, <1>5, Concatenated DEF Said
  <2>2. Settles(voice'.active, new) BY <1>3 DEF Settles
  <2> HIDE DEF new
  <2>3. EventsTrue' /\ voice'.events \in Seq(Events)
    BY <1>1, <2>1, <2>2, Concatenated DEF EventsTrue, Consistent
  <2>4. Announced(voice'.events, next, success) BY <2>1, EventLists DEF new
  <2> QED BY <1>1, <1>5, <2>3, <2>4 DEF Turns
<1>6. CASE voice.active # Silence
  <2>1. voice.active \in Things /\ old \in Events BY <1>4, <1>6 DEF Events
  <2>2. voice'.events = <<old, new>> BY <1>1, <1>2, <1>6, <2>1, Concatenated DEF Said
  <2>3. Settles(voice'.active, new) BY <1>3 DEF Settles
  <2> HIDE DEF new
  <2>4. EventsTrue' /\ voice'.events \in Seq(Events)
    BY <1>1, <2>1, <2>2, <2>3, Concatenated DEF EventsTrue, Consistent
  <2>5. Announced(voice'.events, next, success) /\ Announced(voice'.events, voice.active, FALSE)
    BY <2>2, EventLists DEF new
  <2> QED BY <1>1, <1>6, <2>4, <2>5 DEF Turns
<1> QED BY <1>5, <1>6

LEMMA TurnsOff ==
    ASSUME PopupTypeOK, voice.active # Silence,
           voice' = [active |-> Silence, events |-> Said(voice.active, FALSE)]
    PROVE  /\ Turns(Silence)
           /\ voice' \in [active : {Silence} \cup Things, events : Seq(Events)]
<1> DEFINE old == [what |-> voice.active, on |-> FALSE]
<1>1. voice.active \in Things /\ old \in Events BY DEF PopupTypeOK, Events
<1>2. voice'.events = <<old>> BY DEF Said
<1>3. Settles(voice'.active, old) BY DEF Settles
<1>4. Announced(voice'.events, voice.active, FALSE) BY <1>2, EventLists
<1> HIDE DEF old
<1>5. EventsTrue' /\ voice'.events \in Seq(Events)
  BY <1>1, <1>2, <1>3, Concatenated DEF EventsTrue, Consistent
<1> QED BY <1>4, <1>5 DEF Turns

LEMMA SpeechEndsProof == ASSUME PopupInv, SpeechEnds PROVE PopupInv'
<1>1. /\ PopupTypeOK /\ voice.events = <<>> /\ voice.active # Silence
      /\ UNCHANGED <<popups, writers, timers, written, outbox, mailbox, orphaned, popupCounts>>
  BY DEF PopupInv, SpeechEnds, copying
<1>2. /\ Turns(Silence)
      /\ voice' \in [active : {Silence} \cup Things, events : Seq(Events)]
  BY <1>1, TurnsOff DEF SpeechEnds
<1>3. PopupTypeOK' /\ WritersTrue' /\ CopiesShown' BY <1>1, <1>2, PopupsKept DEF PopupTypeOK
<1>4. Coming' = Coming BY <1>1 DEF Coming
<1>5. ShownIsRead'
  <2> SUFFICES ASSUME NEW i \in DOMAIN popups, NEW b \in popups[i].speaking
               PROVE  \/ \E on \in BOOLEAN : Announced(voice'.events, <<i, b>>, on)
                      \/ Speak(i, b) \in Coming'
    BY <1>1 DEF ShownIsRead
  <2> QED BY ZenonT(60), <1>1, <1>2, <1>4, NoEvents DEF Turns, PopupInv, SpeechInv, ShownIsRead
<1>6. ReadIsShown' BY <1>2 DEF Turns, ReadIsShown, Silence, Numbers
<1>7. ClosedIsStopped' BY <1>1 DEF PopupInv, SpeechInv, ClosedIsStopped
<1> QED BY <1>2, <1>3, <1>5, <1>6, <1>7 DEF Turns, PopupInv, SpeechInv

LEMMA ObeyProof == ASSUME PopupInv, NEW success \in BOOLEAN, Obey(success) PROVE PopupInv'
<1> DEFINE c == Head(mailbox)
           next == <<c.popup, c.button>>
<1>1. /\ PopupTypeOK /\ voice.events = <<>> /\ mailbox # <<>> /\ mailbox \in Seq(Commands)
      /\ mailbox' = Tail(mailbox)
      /\ UNCHANGED <<popups, writers, timers, written, outbox, orphaned, popupCounts>>
  BY DEF PopupInv, PopupTypeOK, Obey, copying
<1>2. /\ mailbox' \in Seq(Commands) /\ Len(mailbox) \in Nat /\ Len(mailbox) >= 1
      /\ DOMAIN mailbox = 1..Len(mailbox) /\ DOMAIN mailbox' = 1..(Len(mailbox) - 1)
      /\ \A i \in 1..(Len(mailbox) - 1) : mailbox'[i] = mailbox[i + 1]
      /\ c = mailbox[1] /\ c \in Commands
  BY <1>1
<1>3. /\ c.popup \in Numbers /\ c.button \in Buttons /\ c.on \in BOOLEAN /\ next \in Things
      /\ next # Silence
  BY <1>2 DEF Commands, Things, Silence, Numbers
<1>4. voice' = IF c.on
               THEN [active |-> IF success THEN next ELSE Silence,
                     events |-> Said(voice.active, FALSE) \o Said(next, success)]
               ELSE IF voice.active[1] # c.popup THEN voice
               ELSE [active |-> Silence, events |-> Said(voice.active, FALSE)]
  BY DEF Obey
<1>5. c.on => /\ Turns(IF success THEN next ELSE Silence)
              /\ voice' \in [active : {Silence} \cup Things, events : Seq(Events)]
              /\ Announced(voice'.events, next, success)
  BY <1>1, <1>3, <1>4, TurnsOn
<1>6. ~c.on /\ voice.active[1] = c.popup =>
         /\ Turns(Silence)
         /\ voice' \in [active : {Silence} \cup Things, events : Seq(Events)]
  <2>1. Silence[1] = 0 BY DEF Silence
  <2>2. voice.active[1] = c.popup => voice.active # Silence BY <1>3, <2>1 DEF Numbers
  <2> QED BY <1>1, <1>4, <2>2, TurnsOff
<1>7. ~c.on /\ voice.active[1] # c.popup => voice' = voice BY <1>4
<1> HIDE DEF c, next
<1>8. PopupTypeOK' /\ WritersTrue' /\ CopiesShown'
  BY <1>1, <1>2, <1>5, <1>6, <1>7, PopupsKept DEF PopupTypeOK
<1>9. EventsTrue' BY <1>3, <1>5, <1>6, <1>7 DEF Turns, PopupInv, SpeechInv, EventsTrue
<1>10. \A d \in Coming : d = c \/ d \in Coming'
  <2> SUFFICES ASSUME NEW d \in Coming, d # c PROVE d \in Coming' OBVIOUS
  <2>1. ASSUME NEW i \in DOMAIN mailbox, mailbox[i] = d PROVE d \in Coming'
    <3>1. i # 1 /\ i - 1 \in DOMAIN mailbox' /\ mailbox'[i - 1] = d BY <1>2, <2>1
    <3> QED BY <3>1 DEF Coming
  <2>2. ASSUME NEW t \in Listeners, outbox[t] = <<d>>, d \in Commands PROVE d \in Coming'
    BY <1>1, <2>2 DEF Coming
  <2> QED BY <2>1, <2>2 DEF Coming
<1>11. ShownIsRead'
  <2> SUFFICES ASSUME NEW i \in DOMAIN popups, NEW b \in popups[i].speaking
               PROVE  \/ voice'.active = <<i, b>>
                      \/ \E on \in BOOLEAN : Announced(voice'.events, <<i, b>>, on)
                      \/ Speak(i, b) \in Coming'
    BY <1>1 DEF ShownIsRead
  <2>1. i \in Numbers /\ b \in Buttons BY <1>1, NumbersOfPopups DEF Popup
  <2>2. voice.active = <<i, b>> \/ Speak(i, b) \in Coming
    BY <1>1, NoEvents DEF PopupInv, SpeechInv, ShownIsRead
  <2>3. CASE voice.active = <<i, b>>
    <3>1. voice.active # Silence BY <2>1, <2>3 DEF Silence, Numbers
    <3> QED BY <1>3, <1>5, <1>6, <1>7, <2>3, <3>1 DEF Turns
  <2>4. CASE Speak(i, b) = c BY <1>5, <2>1, <2>4, CommandsTyped DEF next
  <2> QED BY <1>10, <2>2, <2>3, <2>4
<1>12. ASSUME c.on, c.popup \notin DOMAIN popups \cup orphaned
       PROVE  Hush(c.popup) \in Coming'
  <2>1. Stopped(mailbox, outbox, 1, c.popup)
    <3>1. 1 \in DOMAIN mailbox BY <1>2
    <3> QED BY <1>2, <1>12, <3>1 DEF PopupInv, SpeechInv, ClosedIsStopped
  <2>2. Hush(c.popup) \in Commands /\ ~Hush(c.popup).on BY <1>3, CommandsTyped
  <2>3. Hush(c.popup) \in Coming BY <2>1, <2>2 DEF Stopped, Coming
  <2> QED BY <1>10, <1>12, <2>2, <2>3
<1>13. ReadIsShown'
  <2> SUFFICES ASSUME NEW i \in Numbers \ orphaned, NEW b \in Buttons, voice'.active = <<i, b>>
               PROVE  \/ i \in DOMAIN popups
                            /\ (b \in popups[i].speaking
                                   \/ Announced(voice'.events, <<i, b>>, TRUE))
                      \/ Hush(i) \in Coming'
                      \/ \E d \in Coming' : d.on
    BY <1>1 DEF ReadIsShown
  <2>1. voice'.active # Silence BY DEF Silence, Numbers
  <2>2. CASE c.on
    <3>1. success /\ next = <<i, b>> /\ Announced(voice'.events, <<i, b>>, TRUE)
      BY <1>5, <2>1, <2>2 DEF Turns
    <3>2. c.popup = i BY <3>1 DEF next
    <3> QED BY <1>12, <2>2, <3>1, <3>2
  <2>3. CASE ~c.on
    <3>1. voice.active[1] # c.popup /\ voice' = voice BY <1>3, <1>6, <1>7, <2>1, <2>3 DEF Turns
    <3>2. c.popup # i /\ voice.active = <<i, b>> BY <3>1
    <3>3. c # Hush(i) BY <3>2, CommandsTyped
    <3>4. \/ i \in DOMAIN popups
                /\ (b \in popups[i].speaking \/ Announced(voice.events, <<i, b>>, TRUE))
          \/ Hush(i) \in Coming
          \/ \E d \in Coming : d.on
      BY <3>2 DEF PopupInv, SpeechInv, ReadIsShown
    <3> QED BY <1>10, <2>3, <3>1, <3>3, <3>4
  <2> QED BY <1>3, <2>2, <2>3
<1>14. ClosedIsStopped'
  <2>1. \A i \in DOMAIN mailbox' :
           mailbox'[i].on /\ mailbox'[i].popup \notin DOMAIN popups \cup orphaned
              => Stopped(mailbox', outbox, i, mailbox'[i].popup)
    <3> SUFFICES ASSUME NEW i \in DOMAIN mailbox', mailbox'[i].on,
                        mailbox'[i].popup \notin DOMAIN popups \cup orphaned
                 PROVE  Stopped(mailbox', outbox, i, mailbox'[i].popup)
      OBVIOUS
    <3>1. i + 1 \in DOMAIN mailbox /\ mailbox'[i] = mailbox[i + 1] BY <1>2
    <3>2. Stopped(mailbox, outbox, i + 1, mailbox[i + 1].popup)
      BY <3>1 DEF PopupInv, SpeechInv, ClosedIsStopped
    <3> DEFINE stop == Hush(mailbox'[i].popup)
    <3>3. ASSUME NEW j \in DOMAIN mailbox, j > i + 1, mailbox[j] = stop
          PROVE  Stopped(mailbox', outbox, i, mailbox'[i].popup)
      <4>1. j - 1 \in DOMAIN mailbox' /\ mailbox'[j - 1] = mailbox[j] /\ j - 1 > i BY <1>2, <3>3
      <4> QED BY <3>3, <4>1 DEF Stopped
    <3> QED BY <3>1, <3>2, <3>3 DEF Stopped
  <2> QED BY <1>1, <2>1 DEF PopupInv, SpeechInv, ClosedIsStopped
<1> QED BY <1>8, <1>9, <1>11, <1>13, <1>14 DEF PopupInv, SpeechInv

LEMMA TellProof == ASSUME PopupInv, Tell PROVE PopupInv'
<1> DEFINE e == Head(voice.events)
           id == e.what[1]
           told == e.what[2]
<1>1. /\ PopupTypeOK /\ voice.events # <<>> /\ voice.events \in Seq(Events)
      /\ voice \in [active : {Silence} \cup Things, events : Seq(Events)]
      /\ UNCHANGED <<writers, timers, written, outbox, mailbox, orphaned, popupCounts>>
  BY DEF PopupInv, PopupTypeOK, Tell, copying
<1>2. e \in Events /\ id \in Numbers /\ told \in Buttons /\ e.what = <<id, told>>
  <2>1. e \in Events BY <1>1, HeadTailProperties
  <2>2. e.what \in Things BY <2>1 DEF Events
  <2> HIDE DEF e
  <2> QED BY <2>1, <2>2 DEF Things
<1>3. /\ voice'.active = voice.active /\ voice'.events = Tail(voice.events)
      /\ voice' \in [active : {Silence} \cup Things, events : Seq(Events)]
  <2>1. voice' = [voice EXCEPT !.events = Tail(voice.events)] BY DEF Tell
  <2>2. Tail(voice.events) \in Seq(Events) BY SMTT(30), <1>1, HeadTailProperties
  <2> QED BY ONLY <1>1, <2>1, <2>2
<1> DEFINE words == IF e.on THEN popups[id].speaking \cup {told}
                    ELSE popups[id].speaking \ {told}
<1>4. popups' = IF id \notin DOMAIN popups THEN popups
                ELSE [popups EXCEPT ![id] = Telling(popups[id], words)]
  BY DEF Tell, Telling
<1> HIDE DEF e
<1>5. /\ DOMAIN popups' = DOMAIN popups
      /\ \A i \in DOMAIN popups :
            /\ popups'[i] \in Popup /\ popups'[i].copy = popups[i].copy
            /\ popups'[i].text = popups[i].text /\ popups'[i].context = popups[i].context
            /\ popups'[i].speaking = IF i = id THEN words ELSE popups[i].speaking
  <2>1. \A i \in DOMAIN popups : popups[i] \in Popup /\ popups[i].speaking \subseteq Buttons
    BY <1>1 DEF PopupTypeOK, Popup
  <2>2. CASE id \notin DOMAIN popups BY <1>4, <2>1, <2>2
  <2>3. CASE id \in DOMAIN popups
    <3>1. popups[id] \in Popup /\ words \subseteq Buttons BY <1>2, <2>1, <2>3
    <3> HIDE DEF words
    <3> DEFINE p == Telling(popups[id], words)
    <3>2. /\ p \in Popup /\ p.copy = popups[id].copy /\ p.speaking = words
          /\ p.text = popups[id].text /\ p.context = popups[id].context
      BY <3>1, TellingFacts
    <3>3. popups' = [popups EXCEPT ![id] = p] BY <1>4, <2>3
    <3> HIDE DEF p
    <3>4. Revised(id, p) BY <2>3, <3>3, RevisedByExcept
    <3> QED BY <2>1, <3>2, <3>4 DEF Revised
  <2> QED BY <2>2, <2>3
<1>6. PopupTypeOK' /\ WritersTrue' /\ CopiesShown' BY <1>1, <1>3, <1>5, ContentsKept DEF PopupTypeOK
<1>7. Coming' = Coming BY <1>1 DEF Coming
\* One event is left, or two.
<1> DEFINE Last == voice.events = <<e>> /\ Settles(voice.active, e)
           First(f) == /\ voice.events = <<e, f>> /\ ~e.on
                       /\ f \in Events /\ Settles(voice.active, f)
<1>8. Last \/ \E f : First(f)
  <2>1. CASE \E f \in Events : voice.events = <<f>> /\ Settles(voice.active, f) BY <2>1 DEF e
  <2>2. ASSUME NEW what \in Things, NEW f \in Events,
               voice.events = <<[what |-> what, on |-> FALSE], f>>, Settles(voice.active, f)
        PROVE  First(f)
    <3>1. e = [what |-> what, on |-> FALSE] BY <2>2 DEF e
    <3> QED BY <2>2, <3>1
  <2> QED BY <1>1, <2>1, <2>2 DEF PopupInv, SpeechInv, EventsTrue, Consistent
<1>9. Last => voice'.events = <<>> BY <1>3
<1>10. \A f : First(f) => voice'.events = <<f>> BY <1>3
<1>11. EventsTrue' BY <1>3, <1>8, <1>9, <1>10 DEF EventsTrue, Consistent
<1>12. ShownIsRead'
  <2> SUFFICES ASSUME NEW i \in DOMAIN popups, NEW b \in popups'[i].speaking
               PROVE  \/ voice'.active = <<i, b>>
                      \/ \E on \in BOOLEAN : Announced(voice'.events, <<i, b>>, on)
                      \/ Speak(i, b) \in Coming'
    BY <1>5 DEF ShownIsRead
  <2>1. CASE i = id /\ b = told
    <3>1. e.on BY <1>5, <2>1
    <3>2. Last BY <1>8, <3>1
    <3> QED BY <1>2, <1>3, <2>1, <3>1, <3>2 DEF Settles
  <2>2. CASE ~(i = id /\ b = told)
    <3>1. b \in popups[i].speaking BY <1>5, <2>2
    <3>2. \/ voice.active = <<i, b>>
          \/ \E on \in BOOLEAN : Announced(voice.events, <<i, b>>, on)
          \/ Speak(i, b) \in Coming
      BY <3>1 DEF PopupInv, SpeechInv, ShownIsRead
    <3>3. ASSUME NEW on \in BOOLEAN, Announced(voice.events, <<i, b>>, on)
          PROVE  Announced(voice'.events, <<i, b>>, on)
      <4>1. e # [what |-> <<i, b>>, on |-> on] BY <1>2, <2>2
      <4>2. ~Last
        <5> SUFFICES ASSUME Last PROVE FALSE OBVIOUS
        <5> QED BY <3>3, <4>1 DEF Announced
      <4>3. PICK f : First(f) BY <1>8, <4>2
      <4>4. f = [what |-> <<i, b>>, on |-> on] BY <3>3, <4>1, <4>3 DEF Announced
      <4> QED BY <1>10, <4>3, <4>4, EventLists
    <3> QED BY <1>3, <1>7, <3>2, <3>3
  <2> QED BY <2>1, <2>2
<1>13. ReadIsShown'
  <2> SUFFICES ASSUME NEW i \in Numbers \ orphaned', NEW b \in Buttons, voice'.active = <<i, b>>
               PROVE  \/ i \in DOMAIN popups'
                            /\ (b \in popups'[i].speaking
                                   \/ Announced(voice'.events, <<i, b>>, TRUE))
                      \/ Hush(i) \in Coming'
                      \/ \E c \in Coming' : c.on
    BY DEF ReadIsShown
  <2>0. i \notin orphaned /\ voice.active = <<i, b>> BY <1>1, <1>3
  <2>1. voice.active # Silence BY <2>0 DEF Silence, Numbers
  <2>2. \/ i \in DOMAIN popups
        \/ Hush(i) \in Coming
        \/ \E c \in Coming : c.on
    BY <2>0 DEF PopupInv, SpeechInv, ReadIsShown
  <2>3. ASSUME i \in DOMAIN popups
        PROVE  b \in popups'[i].speaking \/ Announced(voice'.events, <<i, b>>, TRUE)
    <3>1. CASE Last
      <4>1. e.on /\ e.what = <<i, b>> BY <2>0, <2>1, <3>1 DEF Settles
      <4>2. id = i /\ told = b BY <1>2, <4>1
      <4> QED BY ZenonT(60), <1>5, <2>3, <4>1, <4>2
    <3>2. ASSUME NEW f, First(f) PROVE Announced(voice'.events, <<i, b>>, TRUE)
      <4>1. f.on /\ f.what = <<i, b>> /\ f \in Events BY <2>0, <2>1, <3>2 DEF Settles
      <4>2. f = [what |-> <<i, b>>, on |-> TRUE] BY <4>1 DEF Events
      <4> QED BY <1>10, <3>2, <4>2, EventLists
    <3> HIDE DEF Last, First
    <3> QED BY <1>8, <3>1, <3>2
  <2> QED BY <1>5, <1>7, <2>2, <2>3
<1>14. ClosedIsStopped' BY <1>1, <1>5 DEF PopupInv, SpeechInv, ClosedIsStopped
<1> QED BY <1>6, <1>11, <1>12, <1>13, <1>14 DEF PopupInv, SpeechInv

----------------------------------------
LEMMA Inductive == PopupInv /\ [PopupNext]_popupVars => PopupInv'
<1> SUFFICES ASSUME PopupInv, [PopupNext]_popupVars PROVE PopupInv' OBVIOUS
<1>1. CASE UNCHANGED popupVars BY <1>1, PopupsKept, SpeechSame DEF popupVars, PopupInv, PopupTypeOK
<1>2. CASE EventLoop
  BY <1>2, RetranslateProof, PinProof, UnpinProof, ClosePopupProof, ListenProof, CopyProof DEF
     Wordings, EventLoop
<1>3. CASE Threads
  <2>1. ASSUME NEW text \in Texts \cup {NoText}, NEW task \in BOOLEAN, Prepare(text, task)
        PROVE  PopupInv'
    BY <2>1, PrepareProof DEF Wordings
  <2>2. ASSUME NEW id \in DOMAIN popups, ShortcutCloses(id) \/ TranslationFails(id) PROVE PopupInv'
    BY <2>2, ShortcutClosesProof, TranslationFailsProof
  <2>3. ASSUME NEW id \in DOMAIN popups, NEW text \in Texts, Translated(id, text) PROVE PopupInv'
    BY <2>3, TranslatedProof
  <2>4. ASSUME NEW w \in writers, ReportCopy(w) PROVE PopupInv' BY <2>4, ReportCopyProof
  <2>5. ASSUME NEW w \in writers, NEW success \in BOOLEAN, WriteText(w, success) PROVE PopupInv'
    BY <2>5, WriteTextProof
  <2>6. ASSUME NEW timer \in timers, Expire(timer) PROVE PopupInv' BY <2>6, ExpireProof
  <2>7. ASSUME NEW t \in Listeners, Post(t) PROVE PopupInv' BY <2>7, PostProof
  <2>8. ASSUME NEW success \in BOOLEAN, Obey(success) PROVE PopupInv' BY <2>8, ObeyProof
  <2> QED
    BY <1>3, <2>1, <2>2, <2>3, <2>4, <2>5, <2>6, <2>7, <2>8, SpeechEndsProof, TellProof
       DEF Threads
<1> QED BY <1>1, <1>2, <1>3 DEF PopupNext

LEMMA Consequence == PopupInv => FeedbackTruthful
<1> SUFFICES ASSUME PopupInv, Quiet,
                    NEW id \in (DOMAIN popups \cup {voice.active[1]}) \ (orphaned \cup {0})
             PROVE  /\ id \in DOMAIN popups
                    /\ popups[id].speaking = {b \in Buttons : voice.active = <<id, b>>}
  BY DEF PopupInv, FeedbackTruthful, SpeechShown
<1>1. PopupTypeOK /\ voice.events = <<>> /\ DOMAIN mailbox = {} BY DEF PopupInv, Quiet
<1>2. Coming = {} BY <1>1, Single DEF Quiet, Done, Coming
<1>3. ASSUME NEW b \in Buttons, voice.active = <<id, b>>, id \in Numbers
      PROVE  id \in DOMAIN popups /\ b \in popups[id].speaking
  <2>1. id \in Numbers \ orphaned BY <1>3
  <2>2. \/ id \in DOMAIN popups
              /\ (b \in popups[id].speaking \/ Announced(voice.events, <<id, b>>, TRUE))
        \/ Hush(id) \in Coming
        \/ \E c \in Coming : c.on
    BY <1>3, <2>1 DEF PopupInv, SpeechInv, ReadIsShown
  <2>3. ~Announced(voice.events, <<id, b>>, TRUE) BY <1>1, NoEvents
  <2> QED BY <1>2, <2>2, <2>3
<1>4. id \in DOMAIN popups
  <2> SUFFICES ASSUME id = voice.active[1] PROVE id \in DOMAIN popups OBVIOUS
  <2>1. voice.active \in {Silence} \cup Things /\ Silence[1] = 0 BY <1>1 DEF PopupTypeOK, Silence
  <2>2. voice.active \in Things BY <2>1
  <2>3. PICK b \in Buttons : voice.active = <<id, b>> /\ id \in Numbers BY <2>2 DEF Things
  <2> QED BY <1>3, <2>3
<1>5. id \in Numbers /\ popups[id].speaking \subseteq Buttons
  BY <1>1, <1>4, NumbersOfPopups DEF Popup
<1>6. \A b \in popups[id].speaking : voice.active = <<id, b>>
  <2> SUFFICES ASSUME NEW b \in popups[id].speaking PROVE voice.active = <<id, b>> OBVIOUS
  <2>1. \/ voice.active = <<id, b>>
        \/ \E on \in BOOLEAN : Announced(voice.events, <<id, b>>, on)
        \/ Speak(id, b) \in Coming
    BY <1>4 DEF PopupInv, SpeechInv, ShownIsRead
  <2>2. \A on \in BOOLEAN : ~Announced(voice.events, <<id, b>>, on) BY <1>1, NoEvents
  <2> QED BY <1>2, <2>1, <2>2
<1> QED BY <1>3, <1>4, <1>5, <1>6

\* What a popup tells of its copies and of the voice is true: a tick stands for a write that
\* succeeded and the content that is shown, and once requests and events are through, the button
\* of what is read aloud shows it and nothing is read of a popup that is gone.
THEOREM FeedbackIsTruthful == PopupSpec => []FeedbackTruthful
<1>1. PopupSpec => []PopupInv BY PopupInitProof, Inductive, PTL DEF PopupSpec
<1> QED BY <1>1, Consequence, PTL

----------------------------------------
(* OcrResources: the sets of resources, their manager and its window.        *)

Contents == {"none", "complete", "damaged", "altered"}
Statuses == {"PendingRemoval", "Ready", "Damaged", "NotInstalled"}
Infos    == [Kinds -> Statuses]
Steps    == {"queued", "admitted", "start", "fetch", "unstage", "unpack", "check", "quarantine",
             "install", "clean", "mark", "remove base", "remove korean", "unmark", "inspect",
             "report"}
JobSet   == [id : Nat, op : Operations, step : Steps, answer : {Absent} \cup Infos]

DiskOK == folders \in [Kinds -> Contents] /\ marker \in BOOLEAN

\* What an inspection says of files with this metadata, if they were never altered.
StatusAt(stamp) ==
    [kind \in Kinds |->
        IF stamp[2] THEN "PendingRemoval"
        ELSE IF stamp[1][kind] = "complete" THEN "Ready"
        ELSE IF stamp[1][kind] = "none" THEN "NotInstalled" ELSE "Damaged"]

\* What the cache calls ready had the metadata of a complete set.
CacheTrue ==
    verified # Absent =>
        /\ verified.info \in Infos
        /\ \A kind \in Kinds :
               verified.info[kind] = "Ready" =>
                   verified.stamp[1][kind] = "complete" /\ ~verified.stamp[2]

\* Every job has a number of its own.
JobsOK ==
    /\ request \in Nat /\ jobs \subseteq JobSet
    /\ \A j \in jobs : j.id \in 1..request
    /\ \A j, k \in jobs : j.id = k.id => j = k

\* What the job that holds the lock has made sure of.
Ensured(step, op) ==
    /\ step = "quarantine" =>
        stage.content = "complete" /\ folders[Kind(op)] \in {"damaged", "altered"}
    /\ step = "install" => stage.content = "complete" /\ folders[Kind(op)] = "none"
    /\ step = "remove korean" /\ op = "Remove" => folders["base"] = "none"
    /\ step = "unmark" => folders["base"] = "none"

LockOK == \A j \in jobs : owner = j.id => Ensured(j.step, j.op)

OcrInv == DiskOK /\ CacheTrue /\ JobsOK /\ LockOK /\ (starting => jobs = {})

----------------------------------------
(* The pieces the actions are made of.                                       *)

LEMMA KindType == ASSUME NEW op PROVE Kind(op) \in Kinds
BY DEF Kind, Kinds

LEMMA StatusValue ==
    ASSUME DiskOK, NEW kind \in Kinds
    PROVE  /\ StatusOf(kind) = IF marker THEN "PendingRemoval"
                               ELSE IF folders[kind] = "complete" THEN "Ready"
                               ELSE IF folders[kind] = "none" THEN "NotInstalled"
                               ELSE "Damaged"
           /\ StatusOf(kind) \in Statuses
  BY DEF DiskOK, StatusOf, Statuses, Contents

LEMMA StatusType == ASSUME DiskOK PROVE Status \in Infos
  BY StatusValue DEF Status, Infos

LEMMA StampValue ==
    ASSUME DiskOK, NEW kind \in Kinds
    PROVE  /\ Stamp[1][kind] = IF folders[kind] = "altered" THEN "complete" ELSE folders[kind]
           /\ Stamp[2] = marker
  BY DEF Stamp

\* What an inspection calls ready has the metadata of a complete set.
LEMMA InspectedReady ==
    ASSUME DiskOK, CacheTrue
    PROVE  /\ Inspected \in Infos
           /\ \A kind \in Kinds :
                  Inspected[kind] = "Ready" => Stamp[1][kind] = "complete" /\ ~Stamp[2]
<1>1. CASE Fresh
    <2>1. Inspected = verified.info /\ verified # Absent /\ verified.stamp = Stamp
        BY <1>1 DEF Fresh, Inspected
    <2> QED BY <2>1 DEF CacheTrue
<1>2. CASE ~Fresh
    <2>1. Inspected = Status BY <1>2 DEF Inspected
    <2>2. ASSUME NEW kind \in Kinds, Status[kind] = "Ready"
          PROVE  Stamp[1][kind] = "complete" /\ ~Stamp[2]
        <3>1. StatusOf(kind) = "Ready" BY <2>2 DEF Status
        <3>2. folders[kind] = "complete" /\ ~marker BY <3>1, StatusValue
        <3> QED BY <3>2, StampValue
    <2> QED BY <2>1, <2>2, StatusType
<1> QED BY <1>1, <1>2

LEMMA CacheRenewed ==
    ASSUME DiskOK, CacheTrue, verified' = [stamp |-> Stamp, info |-> Inspected]
    PROVE  CacheTrue'
<1>1. verified'.stamp = Stamp /\ verified'.info = Inspected OBVIOUS
<1> QED BY <1>1, InspectedReady, Zenon DEF CacheTrue

\* A job takes a step while no other one holds the lock.
LEMMA JobStep ==
    ASSUME JobsOK, NEW task \in jobs, NEW new \in JobSet, new.id = task.id,
           jobs' = (jobs \ {task}) \cup {new}, request' = request
    PROVE  JobsOK'
BY DEF JobsOK

LEMMA GoType ==
    ASSUME JobsOK, NEW task \in jobs, NEW step \in Steps
    PROVE  LET new == [task EXCEPT !.step = step] IN
           new \in JobSet /\ new.id = task.id /\ new.step = step /\ new.op = task.op
BY DEF JobsOK, JobSet

\* The job that holds the lock goes on: it has to ensure what its next step relies on, and the
\* others, which do not hold it, nothing.
LEMMA OwnerGoes ==
    ASSUME OcrInv, NEW task, NEW step \in Steps, NEW at, Owns(task, at), Go(task, step),
           owner' = owner \/ owner' = 0, request' = request, ~starting, starting' = starting,
           owner' = owner => Ensured(step, task.op)'
    PROVE  JobsOK' /\ LockOK' /\ (starting' => jobs' = {})
<1> DEFINE new == [task EXCEPT !.step = step]
<1>1. task \in jobs /\ owner = task.id /\ task.id \in 1..request BY DEF Owns, At, OcrInv, JobsOK
<1>2. /\ new \in JobSet /\ new.id = task.id /\ new.step = step /\ new.op = task.op
      /\ jobs' = (jobs \ {task}) \cup {new}
    BY <1>1, GoType DEF OcrInv, Go
<1> HIDE DEF new
<1>3. JobsOK' BY <1>1, <1>2, JobStep DEF OcrInv
<1>4. ASSUME NEW j \in jobs', owner' = j.id
      PROVE  j = new /\ owner' = owner
  BY <1>1, <1>2, <1>3, <1>4 DEF JobsOK, OcrInv
<1>5. LockOK' BY <1>2, <1>4 DEF LockOK
<1> QED BY <1>3, <1>5

----------------------------------------
LEMMA OcrInitProof == OcrInit => OcrInv
<1> SUFFICES ASSUME OcrInit PROVE OcrInv OBVIOUS
<1>1. DiskOK BY DEF OcrInit, DiskOK, Contents
<1>2. CacheTrue /\ JobsOK /\ LockOK /\ ~starting BY DEF OcrInit, CacheTrue, JobsOK, LockOK
<1> QED BY <1>1, <1>2 DEF OcrInv

\* Beginning an operation adds a job with a new number, which relies on nothing.
LEMMA BeginOperationProof ==
    ASSUME OcrInv, NEW op \in Operations, BeginOperation(op), ~starting,
           UNCHANGED <<disk, owner, port, starting>>
    PROVE  OcrInv'
<1> DEFINE new == NewJob(request + 1, op)
<1>1. new \in JobSet /\ new.id = request + 1 /\ new.step = "queued"
    <2>1. request + 1 \in Nat BY DEF OcrInv, JobsOK
    <2> QED BY <2>1 DEF NewJob, JobSet, Steps
<1>2. request' = request + 1 /\ jobs' = jobs \cup {new} BY DEF BeginOperation
<1> HIDE DEF new
<1>3. JobsOK' BY <1>1, <1>2 DEF OcrInv, JobsOK
<1>4. LockOK' BY <1>1, <1>2 DEF OcrInv, LockOK, Ensured, disk
<1> QED BY <1>3, <1>4 DEF OcrInv, DiskOK, CacheTrue, disk, port

\* A step that touches neither disk nor lock: the job relies on nothing afterwards.
LEMMA OtherGoes ==
    ASSUME OcrInv, NEW task \in jobs, NEW new \in JobSet, new.id = task.id,
           jobs' = (jobs \ {task}) \cup {new}, new.step \in {"queued", "admitted", "report"},
           UNCHANGED <<disk, request, owner, starting>>, ~starting
    PROVE  DiskOK' /\ JobsOK' /\ LockOK' /\ (starting' => jobs' = {})
  BY JobStep DEF OcrInv, LockOK, Ensured, disk, DiskOK

LEMMA SkipJobProof == ASSUME OcrInv, NEW task \in jobs, SkipJob(task), ~starting PROVE OcrInv'
BY DEF SkipJob, manager, disk, port, OcrInv, DiskOK, CacheTrue, JobsOK, LockOK, Ensured

LEMMA AdmitJobProof == ASSUME OcrInv, NEW task \in jobs, AdmitJob(task), ~starting PROVE OcrInv'
<1>1. UNCHANGED <<disk, request, owner, port, starting>> /\ Go(task, "admitted")
    BY DEF AdmitJob, manager
<1>2. [task EXCEPT !.step = "admitted"] \in JobSet
      /\ [task EXCEPT !.step = "admitted"].id = task.id
      /\ [task EXCEPT !.step = "admitted"].step = "admitted"
    BY ZenonT(60), GoType DEF OcrInv, Steps
<1> QED BY <1>1, <1>2, OtherGoes DEF Go, OcrInv, CacheTrue, port

LEMMA TakeLockProof == ASSUME OcrInv, NEW task \in jobs, TakeLock(task), ~starting PROVE OcrInv'
<1> DEFINE step == IF task.op \in DownloadOps THEN "start" ELSE IF task.op = "Remove" THEN "mark"
                   ELSE "remove korean"
           new == [task EXCEPT !.step = step]
<1>1. /\ UNCHANGED <<disk, request, starting>> /\ jobs' = (jobs \ {task}) \cup {new}
      /\ verified' = Absent /\ task.op # "Check"
    BY DEF TakeLock, manager, Go
<1>2. step \in Steps /\ (step = "remove korean" => task.op # "Remove")
      /\ step \in {"start", "mark", "remove korean"}
    BY DEF Steps
<1> HIDE DEF step
<1>3. new \in JobSet /\ new.id = task.id /\ new.step = step /\ new.op = task.op
    BY <1>2, GoType DEF OcrInv
<1> HIDE DEF new
<1>4. JobsOK' BY <1>1, <1>3, JobStep DEF OcrInv
<1>5. owner' = task.id BY DEF TakeLock
<1>6. \A j \in jobs' : owner' = j.id => j = new BY <1>1, <1>3, <1>5 DEF OcrInv, JobsOK
<1>7. LockOK' BY <1>2, <1>3, <1>6 DEF LockOK, Ensured
<1> QED BY <1>1, <1>4, <1>7 DEF OcrInv, DiskOK, CacheTrue, disk

LEMMA AnswerType ==
    ASSUME JobsOK, NEW task \in jobs, NEW answer \in {Absent} \cup Infos
    PROVE  LET new == [task EXCEPT !.step = "report", !.answer = answer] IN
           new \in JobSet /\ new.id = task.id /\ new.step = "report"
BY DEF JobsOK, JobSet, Steps

LEMMA InspectForProof == ASSUME OcrInv, NEW task \in jobs, InspectFor(task), ~starting PROVE OcrInv'
<1>1. /\ UNCHANGED <<disk, request, owner, starting>> /\ Answered(task, Inspected)
      /\ verified' = [stamp |-> Stamp, info |-> Inspected]
    BY DEF InspectFor, manager, Inspect
<1>2. Inspected \in Infos BY InspectedReady DEF OcrInv
<1>3. CacheTrue' BY <1>1, CacheRenewed DEF OcrInv
<1> HIDE DEF Inspected
<1> QED BY <1>1, <1>2, <1>3, AnswerType, OtherGoes DEF OcrInv, Answered

LEMMA ReportResourcesProof == ASSUME OcrInv, NEW task \in jobs, ReportJob(task), ~starting PROVE OcrInv'
BY DEF ReportJob, manager, disk, port, OcrInv, DiskOK, CacheTrue, JobsOK, LockOK, Ensured

----------------------------------------
(* The steps of the job that holds the lock.                                 *)

\* What such a step leaves alone.
LEMMA OwnerStep ==
    ASSUME OcrInv, NEW task, NEW step \in Steps, NEW at, Owns(task, at), Go(task, step),
           owner' = owner \/ owner' = 0, UNCHANGED <<manager, port, starting>>, ~starting, DiskOK',
           owner' = owner => Ensured(step, task.op)'
    PROVE  OcrInv'
  BY OwnerGoes DEF manager, port, OcrInv, CacheTrue

\* A step after which the job relies on nothing.
LEMMA PlainStep ==
    ASSUME OcrInv, NEW task, NEW at, Owns(task, at),
           NEW step \in Steps \ {"quarantine", "install", "remove korean", "unmark"}, Go(task, step),
           owner' = owner \/ owner' = 0, UNCHANGED <<manager, port, starting>>, ~starting, DiskOK'
    PROVE  OcrInv'
  BY OwnerStep DEF Ensured

LEMMA FailOperationProof == ASSUME OcrInv, NEW task, Fail(task), ~starting PROVE OcrInv'
<1> DEFINE step == IF Stale(task) THEN "report" ELSE "inspect"
<1>1. /\ step \in Steps \ {"quarantine", "install", "remove korean", "unmark"}
      /\ Owns(task, task.step) /\ Go(task, step) /\ owner' = 0
      /\ UNCHANGED <<manager, port, starting>> /\ UNCHANGED <<folders, marker>>
    BY DEF Fail, Steps
<1>2. DiskOK' BY <1>1 DEF OcrInv, DiskOK
<1> HIDE DEF step
<1> QED BY <1>1, <1>2, PlainStep

LEMMA DownloadsProof == ASSUME OcrInv, NEW task, Downloads(task), ~starting PROVE OcrInv'
<1> USE DEF Steps
<1>0. DiskOK /\ Kind(task.op) \in Kinds BY KindType DEF OcrInv
<1>1. CASE StartDownload(task) BY <1>1, PlainStep DEF StartDownload, OcrInv, DiskOK, disk
<1>2. CASE Fetch(task) BY <1>2, PlainStep DEF Fetch, OcrInv, DiskOK, disk
<1>3. CASE Unstage(task) BY <1>3, PlainStep DEF Unstage, OcrInv, DiskOK
<1>4. CASE Unpack(task) BY <1>4, PlainStep DEF Unpack, OcrInv, DiskOK
<1>5. CASE CheckStage(task)
    <2>1. /\ UNCHANGED <<disk, manager, owner, port, starting>> /\ Owns(task, "check")
          /\ stage.content = "complete"
        BY <1>5 DEF CheckStage
    <2>2. PICK step \in {"install", "clean", "quarantine"} :
              /\ Go(task, step)
              /\ step = "install" => folders[Kind(task.op)] = "none"
              /\ step = "quarantine" => folders[Kind(task.op)] \in {"damaged", "altered"}
        BY <1>0, <1>5 DEF CheckStage, DiskOK, Contents
    <2>3. Ensured(step, task.op)' /\ DiskOK' BY <1>0, <2>1, <2>2 DEF Ensured, DiskOK, disk
    <2>4. step \in Steps OBVIOUS
    <2> QED BY <2>1, <2>2, <2>3, <2>4, OwnerStep
<1>6. CASE QuarantineFolder(task)
  BY <1>0, <1>6, OwnerStep DEF QuarantineFolder, OcrInv, LockOK, Ensured, Owns, At, DiskOK,
     Contents
<1>7. CASE Install(task)
  BY <1>0, <1>7, PlainStep DEF Install, OcrInv, LockOK, Ensured, Owns, At, DiskOK, Contents
<1>8. CASE EndDownload(task) BY <1>8, PlainStep DEF EndDownload, OcrInv, DiskOK
<1> QED BY <1>1, <1>2, <1>3, <1>4, <1>5, <1>6, <1>7, <1>8 DEF Downloads

LEMMA DeletedType == ASSUME DiskOK, NEW kind \in Kinds PROVE Deleted(kind) \in [Kinds -> Contents]
BY DEF DiskOK, Deleted, Contents

LEMMA RemovesProof == ASSUME OcrInv, NEW task, Removes(task), ~starting PROVE OcrInv'
<1> USE DEF Steps
<1>0. DiskOK /\ "base" \in Kinds /\ "korean" \in Kinds /\ "base" # "korean" BY DEF OcrInv, Kinds
<1>1. CASE MarkRemoval(task)
    <2> DEFINE step == IF loaded THEN "inspect" ELSE "remove base"
    <2>1. /\ UNCHANGED <<folders, manager, port, starting>> /\ Owns(task, "mark") /\ Go(task, step)
          /\ owner' = owner \/ owner' = 0
          /\ marker' = TRUE /\ step \in Steps \ {"quarantine", "install", "remove korean", "unmark"}
        BY <1>1 DEF MarkRemoval
    <2> HIDE DEF step
    <2>2. DiskOK' BY <1>0, <2>1 DEF DiskOK
    <2> QED BY <2>1, <2>2, PlainStep
<1>2. CASE RemoveBase(task)
    <2>1. /\ UNCHANGED <<marker, stage, manager, owner, port, starting>> /\ Owns(task, "remove base")
          /\ folders' = Deleted("base")
        BY <1>2 DEF RemoveBase
    <2>2. DiskOK' BY <1>0, <2>1, DeletedType DEF DiskOK
    <2>3. PICK step \in {"remove korean", "remove base"} :
              Go(task, step) /\ (step = "remove korean" => Gone("base"))
        BY <1>2 DEF RemoveBase
    <2>4. step = "remove korean" => folders'["base"] = "none"
        BY <1>0, <2>1, <2>3 DEF DiskOK, Deleted, Gone
    <2>5. Ensured(step, task.op)' /\ step \in Steps BY <2>3, <2>4 DEF Ensured
    <2> QED BY <2>1, <2>2, <2>3, <2>5, OwnerStep
<1>3. CASE RemoveKorean(task)
    <2>1. /\ UNCHANGED <<marker, stage, manager, port, starting>> /\ Owns(task, "remove korean")
          /\ folders' = Deleted("korean")
          /\ owner' = owner \/ owner' = 0
        BY <1>3 DEF RemoveKorean
    <2>2. DiskOK' BY <1>0, <2>1, DeletedType DEF DiskOK
    <2>3. task.op = "Remove" => folders["base"] = "none"
        BY <2>1 DEF OcrInv, LockOK, Ensured, Owns, At
    <2>4. task.op = "Remove" => folders'["base"] = "none" BY <1>0, <2>1, <2>3 DEF DiskOK, Deleted
    <2>5. PICK step \in {"remove korean", "unmark", "inspect"} :
              Go(task, step) /\ (step = "unmark" => task.op = "Remove")
        BY <1>3 DEF RemoveKorean
    <2>6. Ensured(step, task.op)' /\ step \in Steps BY <2>4, <2>5 DEF Ensured
    <2> QED BY <2>1, <2>2, <2>5, <2>6, OwnerStep
<1>4. CASE Unmark(task) BY <1>4, PlainStep DEF Unmark, OcrInv, DiskOK
<1> QED BY <1>1, <1>2, <1>3, <1>4 DEF Removes

----------------------------------------
(* The start, recognitions and the world.                                    *)

LEMMA StartupProof == ASSUME OcrInv, StartupRemoval \/ StartupRemovalFails PROVE OcrInv'
  BY DeletedType DEF OcrInv, StartupRemoval, StartupRemovalFails, disk, DiskOK, Kinds, CacheTrue,
     JobsOK, LockOK, manager, port

\* Steps of recognitions read the disk and renew or drop the cache.
LEMMA ShotStep ==
    ASSUME OcrInv, UNCHANGED <<disk, request, jobs, owner, starting>>,
           \/ verified' = verified \/ verified' = Absent
           \/ verified' = [stamp |-> Stamp, info |-> Inspected]
    PROVE  OcrInv'
  BY CacheRenewed DEF OcrInv, CacheTrue, DiskOK, JobsOK, LockOK, Ensured, disk

LEMMA ShotsProof ==
    ASSUME OcrInv,
           \/ RequestShot \/ EndCapture \/ Release
           \/ \E task \in shotJobs :
                  \/ InspectForShot(task) \/ Checked(task)
                  \/ InspectForRecognition(task) \/ LoadEngine(task)
    PROVE  OcrInv'
  BY ShotStep DEF RequestShot, EndCapture, Release, InspectForShot, Checked,
     InspectForRecognition, LoadEngine, manager, Inspect, port

LEMMA WorldProof == ASSUME OcrInv, Crash \/ DamageFolder PROVE OcrInv'
<1>1. CASE Crash BY <1>1 DEF Crash, OcrInv, DiskOK, CacheTrue, JobsOK, LockOK, disk
<1>2. CASE DamageFolder
    <2>1. PICK kind \in Kinds, content \in {"damaged", "altered"} :
              /\ folders[kind] \in {"complete", "altered"}
              /\ folders' = [folders EXCEPT ![kind] = content]
        BY <1>2 DEF DamageFolder
    <2>2. UNCHANGED <<marker, stage, manager, jobs, owner, port, starting>> BY <1>2 DEF DamageFolder
    <2>3. DiskOK' BY <2>1, <2>2 DEF OcrInv, DiskOK, Contents
    <2>4. \A k \in Kinds :
              /\ folders[k] = "none" => folders'[k] = "none"
              /\ folders[k] \in {"damaged", "altered"} => folders'[k] \in {"damaged", "altered"}
        BY <2>1 DEF OcrInv, DiskOK
    <2>5. ASSUME NEW j \in jobs, owner = j.id
          PROVE  Ensured(j.step, j.op)'
    BY <2>2, <2>4, <2>5, KindType DEF OcrInv, LockOK, Kinds, Ensured
    <2>6. LockOK' BY <2>2, <2>5 DEF LockOK
    <2> QED BY <2>2, <2>3, <2>6 DEF OcrInv, CacheTrue, JobsOK, manager, port
<1> QED BY <1>1, <1>2

LEMMA UserProof ==
    ASSUME OcrInv, ~starting, (\E op \in Operations : ManageResources(op)) \/ CancelDownload
    PROVE  OcrInv'
  BY BeginOperationProof DEF ManageResources, CancelDownload, Operations

LEMMA WorkerProof == ASSUME OcrInv, ~starting, NEW task \in jobs, Worker(task) PROVE OcrInv'
BY SkipJobProof, AdmitJobProof, TakeLockProof, InspectForProof, ReportResourcesProof, FailOperationProof,
   DownloadsProof, RemovesProof DEF Worker

LEMMA NextProof == ASSUME OcrInv, [OcrNext]_ocrVars PROVE OcrInv'
<1>1. CASE OcrNext
    BY <1>1, UserProof, WorkerProof, ShotsProof, StartupProof, WorldProof DEF OcrNext, User
<1>2. CASE UNCHANGED ocrVars
    BY <1>2 DEF ocrVars, disk, manager, port, shots, OcrInv, DiskOK, CacheTrue, JobsOK, LockOK, Ensured
<1> QED BY <1>1, <1>2

----------------------------------------
(* The refinement.                                                           *)

\* The status of the base set in terms of its directory and the mark.
LEMMA BaseStatus ==
    ASSUME DiskOK
    PROVE  StatusOf("base") = IF marker THEN "PendingRemoval"
                              ELSE IF folders["base"] = "complete" THEN "Ready"
                              ELSE IF folders["base"] = "none" THEN "NotInstalled"
                              ELSE "Damaged"
BY StatusValue DEF Kinds

LEMMA StoreInit == OcrInit => Store!Init
<1> SUFFICES ASSUME OcrInit PROVE StatusOf("base") = "NotInstalled" BY DEF Store!Init
<1>1. folders["base"] = "none" /\ ~marker BY DEF OcrInit, Kinds
<1> QED BY <1>1, BaseStatus, OcrInitProof DEF OcrInv

\* The ways in which the mark and the directory of the base set may change.
LEMMA StoreStep ==
    ASSUME DiskOK, DiskOK',
           \/ marker' = marker /\ folders'["base"] = folders["base"]
           \/ marker' = marker /\ folders["base"] = "none" /\ folders'["base"] = "complete"
           \/ marker' = marker /\ folders["base"] \in {"damaged", "altered"}
              /\ folders'["base"] = "none"
           \/ marker' = marker /\ folders["base"] \in {"complete", "altered"}
              /\ folders'["base"] \in {"damaged", "altered"}
           \/ marker' = TRUE /\ folders'["base"] = folders["base"]
           \/ marker' = FALSE /\ folders["base"] = "none" /\ folders'["base"] = "none"
    PROVE  [Store!Next]_(StatusOf("base"))
<1>1. marker \in BOOLEAN /\ marker' \in BOOLEAN /\ folders["base"] \in Contents
      /\ folders'["base"] \in Contents
    BY DEF DiskOK, Kinds
<1> DEFINE Value(mark, content) == IF mark THEN "PendingRemoval"
                                   ELSE IF content = "complete" THEN "Ready"
                                   ELSE IF content = "none" THEN "NotInstalled" ELSE "Damaged"
<1>2. StatusOf("base") = Value(marker, folders["base"]) BY BaseStatus
<1>3. StatusOf("base")' = Value(marker', folders'["base"]) BY <1>1 DEF StatusOf, Contents
<1> QED
    BY <1>1, <1>2, <1>3 DEF Contents, Store!Next, Store!Install, Store!Quarantine,
       Store!Damage, Store!Remove, Store!Removed

LEMMA DeletedStep ==
    ASSUME DiskOK, NEW kind \in Kinds, folders' = Deleted(kind)
    PROVE  \/ folders'["base"] = folders["base"]
           \/ folders["base"] \in {"complete", "altered"} /\ folders'["base"] = "damaged"
           \/ folders["base"] = "damaged" /\ folders'["base"] = "none"
  BY DEF DiskOK, Kinds, Deleted, Contents

LEMMA StoreNext == ASSUME OcrInv, OcrInv', [OcrNext]_ocrVars PROVE [Store!Next]_(StatusOf("base"))
<1>0. DiskOK /\ DiskOK' /\ "base" \in Kinds /\ "korean" \in Kinds BY DEF OcrInv, Kinds
<1>1. ASSUME UNCHANGED <<folders, marker>>
      PROVE  [Store!Next]_(StatusOf("base"))
    BY <1>0, <1>1, StoreStep
<1>2. ASSUME NEW task, Downloads(task)
      PROVE  [Store!Next]_(StatusOf("base"))
    <2>0. Kind(task.op) \in Kinds BY KindType
    <2>1. CASE QuarantineFolder(task)
    BY <1>0, <2>0, <2>1, StoreStep DEF QuarantineFolder, OcrInv, LockOK, Ensured, Owns, At,
       DiskOK
    <2>2. CASE Install(task)
    BY <1>0, <2>0, <2>2, StoreStep DEF Install, OcrInv, LockOK, Ensured, Owns, At, DiskOK
    <2>3. CASE ~QuarantineFolder(task) /\ ~Install(task)
        BY <1>1, <1>2, <2>3 DEF Downloads, StartDownload, Fetch, Unstage, Unpack, CheckStage,
                                EndDownload, disk
    <2> QED BY <2>1, <2>2, <2>3
<1>3. ASSUME NEW task, Removes(task)
      PROVE  [Store!Next]_(StatusOf("base"))
  BY <1>0, <1>3, StoreStep, DeletedStep DEF MarkRemoval, RemoveBase, RemoveKorean, Unmark,
     OcrInv, LockOK, Ensured, Owns, At, Removes
<1>4. CASE StartupRemoval BY <1>0, <1>4, DeletedStep, StoreStep DEF Gone, DiskOK, StartupRemoval
<1>5. CASE DamageFolder
    <2>1. PICK kind \in Kinds, content \in {"damaged", "altered"} :
              /\ folders[kind] \in {"complete", "altered"}
              /\ folders' = [folders EXCEPT ![kind] = content]
        BY <1>5 DEF DamageFolder
    <2>2. \/ folders'["base"] = folders["base"]
          \/ /\ folders["base"] \in {"complete", "altered"}
             /\ folders'["base"] \in {"damaged", "altered"}
        BY <1>0, <2>1 DEF DiskOK
    <2>3. marker' = marker BY <1>5 DEF DamageFolder
    <2> QED BY <1>0, <2>2, <2>3, StoreStep
<1>6. ASSUME NEW task,
             SkipJob(task) \/ AdmitJob(task) \/ TakeLock(task) \/ InspectFor(task) \/ ReportJob(task)
             \/ Fail(task)
      PROVE  [Store!Next]_(StatusOf("base"))
    BY <1>1, <1>6 DEF SkipJob, AdmitJob, TakeLock, InspectFor, ReportJob, Fail, disk
<1>7. CASE User \/ Release \/ StartupRemovalFails \/ Crash
    BY <1>1, <1>7 DEF User, ManageResources, CancelDownload, RequestShot, EndCapture, Release,
                      StartupRemovalFails, Crash, disk
<1>8. ASSUME NEW task,
             InspectForShot(task) \/ Checked(task) \/ InspectForRecognition(task)
             \/ LoadEngine(task)
      PROVE  [Store!Next]_(StatusOf("base"))
    BY <1>1, <1>8 DEF InspectForShot, Checked, InspectForRecognition, LoadEngine, disk
<1>9. CASE UNCHANGED ocrVars BY <1>1, <1>9 DEF ocrVars, disk
<1> QED BY <1>2, <1>3, <1>4, <1>5, <1>6, <1>7, <1>8, <1>9 DEF OcrNext, Worker

----------------------------------------
\* A set was altered only if something else than the program changed files; until then an
\* inspection tells what is on disk, however old the cache is.
Pristine ==
    /\ damages \in Nat
    /\ damages = 0 =>
           /\ \A kind \in Kinds : folders[kind] # "altered"
           /\ verified # Absent => verified.info = StatusAt(verified.stamp)

Inspecting(s) == s.op = "Recognize" /\ s.answer # Absent

\* A recognition that has inspected holds the lock: nothing of what it found ready is marked or
\* moved away, and the cache still says what it was told.
Reserved ==
    \A s \in shotJobs : Inspecting(s) =>
        /\ owner = 0 /\ ~starting
        /\ verified # Absent /\ verified.info = s.answer
        /\ \A kind \in Kinds : s.answer[kind] = "Ready" => ~marker /\ folders[kind] # "none"

OutsideInv == Pristine /\ Reserved

LEMMA OutsideInit == OcrInit => OutsideInv
BY DEF OcrInit, OutsideInv, Pristine, Reserved

LEMMA InspectedTrue ==
    ASSUME DiskOK, Pristine, damages = 0 PROVE Status = StatusAt(Stamp) /\ Inspected = Status
<1>1. \A kind \in Kinds : StatusOf(kind) = StatusAt(Stamp)[kind]
    BY StatusValue, StampValue DEF StatusAt, Pristine
<1>2. Status = StatusAt(Stamp) BY <1>1 DEF Status, StatusAt
<1> QED BY <1>2 DEF Fresh, Inspected, Pristine

\* A step during which nothing else touches the files.
LEMMA PristineStep ==
    ASSUME DiskOK, Pristine, damages' = damages,
           \A kind \in Kinds : folders'[kind] = "altered" => folders[kind] = "altered",
           \/ verified' = verified \/ verified' = Absent
           \/ verified' = [stamp |-> Stamp, info |-> Inspected]
    PROVE  Pristine'
<1>1. CASE verified' = [stamp |-> Stamp, info |-> Inspected]
    <2>1. verified'.stamp = Stamp /\ verified'.info = Inspected BY <1>1
    <2>2. damages = 0 => Inspected = StatusAt(Stamp) BY InspectedTrue
    <2> QED BY <2>1, <2>2, Zenon DEF Pristine
<1>2. CASE verified' = verified \/ verified' = Absent BY <1>2 DEF Pristine
<1> QED BY <1>1, <1>2

LEMMA ReservedKept ==
    ASSUME Reserved, \A s \in shotJobs' : Inspecting(s) => s \in shotJobs,
           Inferring => UNCHANGED <<owner, verified, marker, folders, starting>>
    PROVE  Reserved'
BY DEF Reserved, Inferring, Inspecting

\* Files change under the job that owns the lock only, which there is not while a recognition
\* goes on.
LEMMA WorkerOutside ==
    ASSUME OcrInv, OutsideInv, ~starting, NEW task \in jobs, Worker(task)
    PROVE  OutsideInv'
<1>0. DiskOK /\ Pristine /\ Reserved /\ Kind(task.op) \in Kinds /\ "base" \in Kinds /\ "korean" \in Kinds
    BY KindType DEF OcrInv, OutsideInv, Kinds
<1>1. damages' = damages /\ shotJobs' = shotJobs /\ starting' = starting
      /\ (\/ verified' = verified \/ verified' = Absent
          \/ verified' = [stamp |-> Stamp, info |-> Inspected])
    BY DEF Worker, Downloads, Removes, SkipJob, AdmitJob, TakeLock, InspectFor, ReportJob, Fail,
           StartDownload, Fetch, Unstage, Unpack, CheckStage, QuarantineFolder, Install, EndDownload,
           MarkRemoval, RemoveBase, RemoveKorean, Unmark, shots, faults, port, Inspect
<1>3. \A kind \in Kinds : folders'[kind] = "altered" => folders[kind] = "altered"
    <2>1. CASE Install(task)
        <3>1. stage.content = "complete" BY <2>1 DEF Install, OcrInv, LockOK, Ensured, Owns, At
        <3> QED BY <1>0, <2>1, <3>1 DEF Install, DiskOK
    <2>2. CASE QuarantineFolder(task) BY <1>0, <2>2 DEF QuarantineFolder, DiskOK
    <2>3. CASE RemoveBase(task) \/ RemoveKorean(task)
        BY <1>0, <2>3 DEF RemoveBase, RemoveKorean, Deleted, DiskOK
    <2>4. CASE ~(Install(task) \/ QuarantineFolder(task) \/ RemoveBase(task) \/ RemoveKorean(task))
        BY <2>4 DEF Worker, Downloads, Removes, SkipJob, AdmitJob, TakeLock, InspectFor, ReportJob,
           Fail, StartDownload, Fetch, Unstage, Unpack, CheckStage, EndDownload, MarkRemoval, Unmark,
           disk
    <2> QED BY <2>1, <2>2, <2>3, <2>4
<1>4. ASSUME Inferring
      PROVE  UNCHANGED <<owner, verified, marker, folders, starting>>
    <2>1. owner = 0 BY <1>0, <1>4 DEF Reserved, Inferring, Inspecting
    <2>2. task.id # 0 BY DEF OcrInv, JobsOK
    <2>3. ~LockFree /\ \A at : ~Owns(task, at) BY <1>4, <2>1, <2>2 DEF LockFree, Owns
    <2>4. SkipJob(task) \/ AdmitJob(task) \/ ReportJob(task)
        BY <2>3 DEF Worker, Downloads, Removes, TakeLock, InspectFor, Fail, StartDownload, Fetch,
           Unstage, Unpack, CheckStage, QuarantineFolder, Install, EndDownload, MarkRemoval,
           RemoveBase, RemoveKorean, Unmark
    <2> QED BY <2>4 DEF SkipJob, AdmitJob, ReportJob, disk, port
<1>5. Pristine' BY <1>0, <1>1, <1>3, PristineStep
<1>6. Reserved' BY <1>0, <1>1, <1>4, ReservedKept
<1> QED BY <1>5, <1>6 DEF OutsideInv

LEMMA ShotsOutside ==
    ASSUME OcrInv, OutsideInv, ~starting, NEW task \in shotJobs,
           \/ InspectForShot(task) \/ Checked(task)
           \/ InspectForRecognition(task) \/ LoadEngine(task)
    PROVE  OutsideInv'
<1>0. DiskOK /\ Pristine /\ Reserved /\ CacheTrue BY DEF OcrInv, OutsideInv
<1>1. UNCHANGED <<folders, marker, owner, starting, damages>>
    BY DEF InspectForShot, Checked, InspectForRecognition, LoadEngine, disk, faults
<1>2. verified' = verified \/ verified' = [stamp |-> Stamp, info |-> Inspected]
    BY DEF InspectForShot, Checked, InspectForRecognition, LoadEngine, Inspect, port
<1>3. Pristine' BY <1>0, <1>1, <1>2, PristineStep
<1>4. CASE Checked(task) \/ LoadEngine(task)
    <2>1. shotJobs' \subseteq shotJobs /\ verified' = verified
        BY <1>4 DEF Checked, LoadEngine, RecognitionEnds, port
    <2>2. Reserved' BY <1>0, <1>1, <2>1, ReservedKept
    <2> QED BY <1>3, <2>2 DEF OutsideInv
<1>5. CASE InspectForShot(task)
    <2> DEFINE new == [task EXCEPT !.answer = Inspected]
    <2>1. shotJobs' = (shotJobs \ {task}) \cup {new} /\ task.op = "Check" /\ ~Inferring
        BY <1>5 DEF InspectForShot, LockFree
    <2>2. new.op = "Check" \/ ~Inspecting(new) BY <2>1 DEF Inspecting
    <2> HIDE DEF new
    <2>3. Reserved' BY <1>0, <2>1, <2>2, ReservedKept DEF Inspecting
    <2> QED BY <1>3, <2>3 DEF OutsideInv
<1>6. CASE InspectForRecognition(task) /\ task.generation # shot.generation
    <2>1. shotJobs' \subseteq shotJobs /\ ~Inferring
        BY <1>6 DEF InspectForRecognition, RecognitionEnds, LockFree
    <2>2. Reserved' BY <1>0, <2>1, ReservedKept
    <2> QED BY <1>3, <2>2 DEF OutsideInv
<1>7. CASE InspectForRecognition(task) /\ task.generation = shot.generation
    <2> DEFINE new == [task EXCEPT !.answer = Inspected]
    <2>1. /\ shotJobs' = (shotJobs \ {task}) \cup {new}
          /\ owner = 0 /\ ~Inferring /\ verified' = [stamp |-> Stamp, info |-> Inspected]
        BY <1>7 DEF InspectForRecognition, LockFree, Inspect
    <2>2. verified'.info = Inspected /\ verified' # Absent BY <2>1 DEF Absent
    <2>3. \A kind \in Kinds : Inspected[kind] = "Ready" => ~marker /\ folders[kind] # "none"
        <3> SUFFICES ASSUME NEW kind \in Kinds, Inspected[kind] = "Ready"
                     PROVE  ~marker /\ folders[kind] # "none"
            OBVIOUS
        <3>1. Stamp[1][kind] = "complete" /\ ~Stamp[2] BY <1>0, InspectedReady
        <3> QED BY <1>0, <3>1, StampValue
    <2>4. new.answer = Inspected \/ ~Inspecting(new) BY DEF Inspecting
    <2> HIDE DEF new
    <2>5. ASSUME NEW s \in shotJobs', Inspecting(s) PROVE s = new
        BY <2>1, <2>5 DEF Inferring, Inspecting
    <2>6. Reserved' BY <1>1, <2>1, <2>2, <2>3, <2>4, <2>5 DEF Reserved, Inspecting
    <2> QED BY <1>3, <2>6 DEF OutsideInv
<1> QED BY <1>4, <1>5, <1>6, <1>7

LEMMA OutsideNext == ASSUME OcrInv, OutsideInv, [OcrNext]_ocrVars PROVE OutsideInv'
<1>0. DiskOK /\ Pristine /\ Reserved /\ "base" \in Kinds /\ "korean" \in Kinds
    BY DEF OcrInv, OutsideInv, Kinds
<1>1. CASE (\E op \in Operations : ManageResources(op)) \/ CancelDownload \/ UNCHANGED ocrVars
    <2>1. UNCHANGED <<folders, marker, verified, damages, owner, starting, shotJobs>>
        BY <1>1 DEF ManageResources, CancelDownload, ocrVars, disk, port, shots, faults
    <2>2. Pristine' BY <1>0, <2>1, PristineStep
    <2>3. Reserved' BY <1>0, <2>1, ReservedKept
    <2> QED BY <2>2, <2>3 DEF OutsideInv
<1>2. CASE RequestShot \/ EndCapture \/ Release
    <2>1. UNCHANGED <<folders, marker, damages, owner, starting>>
          /\ (verified' = verified \/ verified' = Absent)
          /\ (Inferring => verified' = verified)
        BY <1>2 DEF RequestShot, EndCapture, Release, LockFree, disk, port, faults
    <2>2. \A s \in shotJobs' : Inspecting(s) => s \in shotJobs
        BY <1>2 DEF RequestShot, EndCapture, Release, shots, ShotJob, Inspecting
    <2>3. Pristine' BY <1>0, <2>1, PristineStep
    <2>4. Reserved' BY <1>0, <2>1, <2>2, ReservedKept
    <2> QED BY <2>3, <2>4 DEF OutsideInv
<1>3. CASE StartupRemoval \/ StartupRemovalFails
    <2>1. starting /\ damages' = damages /\ verified' = verified /\ shotJobs' = shotJobs
        BY <1>3 DEF StartupRemoval, StartupRemovalFails, port, shots, faults
    <2>2. \A kind \in Kinds : folders'[kind] = "altered" => folders[kind] = "altered"
        BY <1>0, <1>3 DEF StartupRemoval, StartupRemovalFails, Deleted, DiskOK, disk
    <2>3. Pristine' BY <1>0, <2>1, <2>2, PristineStep
    <2>4. Reserved' BY <1>0, <2>1, ReservedKept DEF Reserved, Inferring, Inspecting
    <2> QED BY <2>3, <2>4 DEF OutsideInv
<1>4. CASE Crash BY <1>0, <1>4 DEF Crash, disk, OutsideInv, Pristine, Reserved
<1>5. CASE DamageFolder
    <2>1. PICK kind \in Kinds, content \in {"damaged", "altered"} :
              /\ folders[kind] \in {"complete", "altered"}
              /\ folders' = [folders EXCEPT ![kind] = content]
        BY <1>5 DEF DamageFolder
    <2>2. /\ UNCHANGED <<marker, owner, verified, shotJobs, starting>>
          /\ damages' = damages + 1
        BY <1>5 DEF DamageFolder, port, shots
    <2>3. \A k \in Kinds : folders[k] # "none" => folders'[k] # "none"
        BY <1>0, <2>1 DEF DiskOK
    <2>4. Reserved' BY <1>0, <2>2, <2>3 DEF Reserved, Inspecting
    <2>5. Pristine' BY <1>0, <2>2 DEF Pristine
    <2> QED BY <2>4, <2>5 DEF OutsideInv
<1> QED BY <1>1, <1>2, <1>3, <1>4, <1>5, WorkerOutside, ShotsOutside DEF OcrNext, User

\* Only a recognition that has inspected starts an engine, from what the lock kept.
LEMMA EngineStep ==
    ASSUME OcrInv, OutsideInv, [OcrNext]_ocrVars, engine', ~engine
    PROVE  /\ verified # Absent
           /\ \E j \in shotJobs \ shotJobs' :
                 j.op = "Recognize" /\ Vouched("base") /\ (j.korean => Vouched("korean"))
<1>1. PICK task \in shotJobs : LoadEngine(task)
    BY DEF OcrNext, User, Worker, Downloads, Removes, ManageResources, CancelDownload, RequestShot,
           EndCapture, Release, SkipJob, AdmitJob, TakeLock, InspectFor, Inspect, ReportJob, Fail,
           StartDownload, Fetch, Unstage, Unpack, CheckStage, QuarantineFolder, Install,
           EndDownload, MarkRemoval, RemoveBase, RemoveKorean, Unmark, InspectForShot, Checked,
           InspectForRecognition, StartupRemoval, StartupRemovalFails, Crash, DamageFolder, port,
           ocrVars
<1>2. /\ Enough(task.answer, task.korean) /\ shotJobs' = shotJobs \ {task}
      /\ task.op = "Recognize" /\ Inspecting(task)
    BY <1>1 DEF LoadEngine, RecognitionEnds, Inspecting, port
<1>3. DiskOK /\ CacheTrue /\ Reserved /\ "base" \in Kinds /\ "korean" \in Kinds
    BY DEF OcrInv, OutsideInv, Kinds
<1>4. verified # Absent /\ verified.info = task.answer BY <1>2, <1>3 DEF Reserved
<1>5. ASSUME NEW kind \in Kinds, task.answer[kind] = "Ready" PROVE Vouched(kind)
    <2>1. ~marker /\ folders[kind] # "none" BY <1>2, <1>3, <1>5 DEF Reserved
    <2>2. verified.stamp[1][kind] = "complete" BY <1>3, <1>4, <1>5 DEF CacheTrue
    <2>3. folders[kind] = "damaged" => Stamp[1][kind] = "damaged" BY <1>3, StampValue
    <2>4. folders[kind] \in {"complete", "damaged", "altered"}
        BY <1>3, <2>1 DEF DiskOK, Contents
    <2> QED BY <1>4, <1>5, <2>1, <2>2, <2>3, <2>4 DEF Vouched
<1> QED BY <1>2, <1>3, <1>4, <1>5 DEF Enough

\* The base set of OCR resources implements OcrStore (ocr/resources.rs: download_from, remove,
\* cleanup_pending): through failures, cancellations, crashes and damage from outside a set is
\* usable only while it is complete and not removed, and a removal once marked is carried out.
THEOREM StoreImplemented == OcrSpec => StoreKept
<1>1. OcrInit => OcrInv BY OcrInitProof
<1>2. OcrInv /\ [OcrNext]_ocrVars => OcrInv' BY NextProof
<1>3. OcrInit => Store!Init BY StoreInit
<1>4. OcrInv /\ OcrInv' /\ [OcrNext]_ocrVars => [Store!Next]_(StatusOf("base")) BY StoreNext
<1> QED BY <1>1, <1>2, <1>3, <1>4, PTL DEF OcrSpec, StoreKept, Store!Spec

\* An engine starts only from sets a verification found complete and that nothing the program
\* does has touched since (ocr/mod.rs: inspected, recognize), for any number of operations,
\* cancellations and crashes.  Damage from outside is seen if the metadata of the files shows
\* it at the inspection, and only then.
THEOREM EngineFromVerified == OcrSpec => EngineVerified
<1>1. OcrInit => OcrInv /\ OutsideInv BY OcrInitProof, OutsideInit
<1>2. OcrInv /\ OutsideInv /\ [OcrNext]_ocrVars => OcrInv' /\ OutsideInv' BY NextProof, OutsideNext
<1>3. OcrInv /\ OutsideInv /\ [OcrNext]_ocrVars =>
        [engine' /\ ~engine =>
            /\ verified # Absent
            /\ \E j \in shotJobs \ shotJobs' :
                j.op = "Recognize" /\ Vouched("base") /\ (j.korean => Vouched("korean"))]_ocrVars
    BY EngineStep
<1> QED BY <1>1, <1>2, <1>3, PTL DEF OcrSpec, EngineVerified

----------------------------------------
(* What the window is told.                                                  *)

\* The steps of a job that holds the lock, and those at which it is about to change the files.
LockSteps == {"start", "fetch", "unstage", "unpack", "check", "quarantine", "install", "clean",
              "mark", "remove base", "remove korean", "unmark"}
OcrWriters == {"quarantine", "install", "mark", "remove base", "remove korean", "unmark"}
Writing == \E j \in jobs : j.step \in OcrWriters

\* The step is one of the operation.
Fits(step, op) ==
    /\ op # "Check"
    /\ step \in {"mark", "remove base", "remove korean", "unmark"} => op \in RemoveOps

LockHeld == \A j \in jobs : j.step \in LockSteps => owner = j.id /\ Fits(j.step, j.op)

\* The window waits for one job, that of its last request; the others are cancelled downloads.
UpToDate ==
    /\ busy # NoOp <=> \E j \in jobs : j.id = request
    /\ \A j \in jobs : IF Stale(j) THEN j.op \in DownloadOps ELSE busy = j.op

\* An answer was taken, or is being taken, that nothing will correct.
Answering ==
    \/ busy = NoOp
    \/ shot.phase = "Checking"
    \/ \E j \in jobs : j.id = request /\ j.step = "report"

AtRest == Answering => ~Writing

ShotSet == [op : {"Check", "Recognize"}, generation : Nat, korean : BOOLEAN,
            answer : {Absent} \cup Infos]

Checks ==
    /\ damages \in Nat
    /\ shot \in [generation : Nat, phase : {"Idle", "Checking", "Capturing", "Recognizing"},
                 korean : BOOLEAN]
    /\ \A s \in shotJobs : s \in ShotSet /\ s.generation \in 0..shot.generation
    /\ shot.phase = "Checking" => busy \in {NoOp, "Check"}

Looked(s) == s.op = "Check" /\ s.generation = shot.generation /\ s.answer # Absent

Truth ==
    damages = 0 =>
        /\ busy = NoOp /\ info # Absent => info = Status
        /\ \A j \in jobs : j.id = request /\ j.step = "report" => j.answer = Status
        /\ shot.phase = "Checking" => \A s \in shotJobs : Looked(s) => s.answer = Status

AtStart ==
    starting => busy = NoOp /\ info = Absent /\ shotJobs = {} /\ shot.phase = "Idle" /\ jobs = {}

ManagerInv == LockHeld /\ UpToDate /\ AtRest /\ Checks /\ Truth /\ AtStart

LEMMA StatusKept == ASSUME folders' = folders, marker' = marker PROVE Status' = Status
BY DEF Status, StatusOf

LEMMA ManagerInit == OcrInit => ManagerInv
BY DEF OcrInit, ManagerInv, LockHeld, UpToDate, AtRest, Writing, Checks, Truth, AtStart, NoOp

\* A job goes on.  Files change only under a job that was about to change them; the job of the
\* window answers with what an inspection told; a cancelled job begins no change.
LEMMA JobGoes ==
    ASSUME OcrInv, ManagerInv, ~starting, NEW task \in jobs, NEW new, new.id = task.id, new.op = task.op,
           jobs' = (jobs \ {task}) \cup {new},
           UNCHANGED <<request, busy, info, shot, shotJobs, damages, starting>>,
           \/ owner' = owner
           \/ owner = task.id /\ owner' = 0
           \/ owner = 0 /\ owner' = task.id,
           new.step \in LockSteps => owner' = task.id /\ Fits(new.step, task.op),
           \/ new.step \notin OcrWriters
           \/ task.step \in OcrWriters
           \/ task.id = request /\ task.op # "Check",
           new.step = "report" /\ task.id = request => owner = 0,
           new.step = "report" /\ task.id = request /\ damages = 0 => new.answer = Status,
           \/ folders' = folders /\ marker' = marker
           \/ task.step \in OcrWriters /\ new.step # "report"
    PROVE  ManagerInv'
<1>1. /\ \A j \in jobs : j.id # 0
      /\ \A j, k \in jobs : j.id = k.id => j = k
    BY DEF OcrInv, JobsOK
<1>2. LockHeld' BY <1>1 DEF ManagerInv, LockHeld
<1>3. UpToDate' BY DEF ManagerInv, UpToDate, Stale
<1>4. Checks' /\ AtStart' BY DEF ManagerInv, Checks, AtStart
<1>5. ASSUME Answering'
      PROVE  \/ Answering
             \/ owner = 0 /\ new.step = "report" /\ task.id = request
    BY <1>5 DEF Answering
<1>6. OcrWriters \subseteq LockSteps /\ "report" \notin LockSteps /\ "report" \notin OcrWriters
    BY DEF OcrWriters, LockSteps
<1>7. Answering' => ~Writing BY <1>1, <1>5, <1>6 DEF ManagerInv, AtRest, Writing, LockHeld
<1>8. ASSUME Answering', new.step \in OcrWriters, task.id = request, task.op # "Check" PROVE FALSE
    <2>1. busy = task.op /\ busy # NoOp /\ shot.phase # "Checking"
        BY <1>8 DEF ManagerInv, UpToDate, Stale, Checks
    <2>2. PICK j \in jobs' : j.id = request /\ j.step = "report" BY <1>8, <2>1 DEF Answering
    <2>3. j = new BY <1>1, <1>8, <2>2
    <2> QED BY <1>6, <1>8, <2>2, <2>3
<1>9. AtRest'
    <2> SUFFICES ASSUME Answering', Writing' PROVE FALSE BY DEF AtRest
    <2>1. new.step \in OcrWriters /\ task.step \notin OcrWriters BY <1>7 DEF Writing
    <2> QED BY <1>8, <2>1
<1>10. ASSUME Answering' PROVE folders' = folders /\ marker' = marker BY <1>7, <1>10 DEF Writing
<1>11. Truth'
    <2>1. Answering' => Status' = Status BY <1>10, StatusKept
    <2>2. /\ busy' = NoOp => Answering'
          /\ shot'.phase = "Checking" => Answering'
          /\ \A j \in jobs' : j.id = request' /\ j.step = "report" => Answering'
        BY DEF Answering
    <2>3. \A s : Looked(s)' <=> Looked(s) BY DEF Looked
    <2> SUFFICES ASSUME damages = 0, Answering'
                 PROVE  /\ busy = NoOp /\ info # Absent => info = Status
                        /\ \A j \in jobs' : j.id = request /\ j.step = "report" => j.answer = Status
                        /\ shot.phase = "Checking" =>
                               \A s \in shotJobs : Looked(s) => s.answer = Status
        BY <2>1, <2>2, <2>3 DEF Truth
    <2> QED BY DEF ManagerInv, Truth
<1> QED BY <1>2, <1>3, <1>4, <1>9, <1>11 DEF ManagerInv

\* What the steps of the job that holds the lock have in common.
LEMMA OwnerMoves ==
    ASSUME OcrInv, ManagerInv, ~starting, NEW task, NEW at, NEW step \in Steps \ {"report"},
           Owns(task, at), Go(task, step), UNCHANGED <<manager, shots, starting, faults>>,
           owner' = IF step \in LockSteps THEN owner ELSE 0,
           step \in LockSteps => Fits(step, task.op),
           step \notin OcrWriters \/ at \in OcrWriters \/ ~Stale(task),
           at \in OcrWriters \/ UNCHANGED <<folders, marker>>
    PROVE  ManagerInv'
<1> DEFINE new == [task EXCEPT !.step = step]
<1>1. task \in jobs /\ task.step = at /\ owner = task.id BY DEF Owns, At
<1>2. /\ new.id = task.id /\ new.step = step /\ new.op = task.op
      /\ jobs' = (jobs \ {task}) \cup {new}
    BY <1>1, GoType DEF OcrInv, Go
<1> HIDE DEF new
<1>3. UNCHANGED <<request, busy, info, shot, shotJobs, damages, starting>>
    BY DEF manager, shots, faults
<1>4. \/ step \notin OcrWriters
      \/ at \in OcrWriters
      \/ task.id = request /\ task.op # "Check"
    BY DEF Stale, Fits, OcrWriters, LockSteps
<1> QED BY <1>1, <1>2, <1>3, <1>4, JobGoes

LEMMA ManagerFail == ASSUME OcrInv, ManagerInv, ~starting, NEW task, Fail(task) PROVE ManagerInv'
<1> DEFINE step == IF Stale(task) THEN "report" ELSE "inspect"
           new == [task EXCEPT !.step = step]
<1>1. /\ task \in jobs /\ owner = task.id /\ owner' = 0 /\ Go(task, step)
      /\ UNCHANGED <<request, busy, info, shot, shotJobs, damages, starting, folders, marker>>
    BY DEF Fail, Owns, At, manager, shots, faults
<1>2. step \in Steps \ LockSteps /\ step \notin OcrWriters /\ (step = "report" => task.id # request)
    BY DEF Steps, LockSteps, OcrWriters, Stale
<1> HIDE DEF step
<1>3. /\ new.id = task.id /\ new.step = step /\ new.op = task.op
      /\ jobs' = (jobs \ {task}) \cup {new}
    BY <1>1, <1>2, GoType DEF OcrInv, Go
<1> HIDE DEF new
<1> QED BY <1>1, <1>2, <1>3, JobGoes

LEMMA ManagerDownloads ==
    ASSUME OcrInv, ManagerInv, ~starting, NEW task, Downloads(task) PROVE ManagerInv'
<1> USE DEF Steps, LockSteps, OcrWriters
<1>1. \A at \in LockSteps : Owns(task, at) => task.op # "Check"
    BY DEF ManagerInv, LockHeld, Owns, At, Fits
<1> USE DEF Fits
<1>2. CASE StartDownload(task) BY <1>1, <1>2, OwnerMoves DEF StartDownload, disk
<1>3. CASE Fetch(task) BY <1>1, <1>3, OwnerMoves DEF Fetch, disk
<1>4. CASE Unstage(task) BY <1>1, <1>4, OwnerMoves DEF Unstage
<1>5. CASE Unpack(task) BY <1>1, <1>5, OwnerMoves DEF Unpack
<1>6. CASE CheckStage(task)
    <2>1. Owns(task, "check") /\ ~Stale(task)
          /\ UNCHANGED <<disk, manager, owner, shots, starting, faults>>
        BY <1>6 DEF CheckStage
    <2>2. PICK step \in {"install", "clean", "quarantine"} : Go(task, step) BY <1>6 DEF CheckStage
    <2> QED BY <1>1, <2>1, <2>2, OwnerMoves DEF disk
<1>7. CASE QuarantineFolder(task) BY <1>1, <1>7, OwnerMoves DEF QuarantineFolder
<1>8. CASE Install(task) BY <1>1, <1>8, OwnerMoves DEF Install
<1>9. CASE EndDownload(task) BY <1>1, <1>9, OwnerMoves DEF EndDownload
<1> QED BY <1>2, <1>3, <1>4, <1>5, <1>6, <1>7, <1>8, <1>9 DEF Downloads

LEMMA ManagerRemoves ==
    ASSUME OcrInv, ManagerInv, ~starting, NEW task, Removes(task) PROVE ManagerInv'
<1> USE DEF Steps, LockSteps, OcrWriters
<1>1. \A at \in {"mark", "remove base", "remove korean", "unmark"} :
          Owns(task, at) => task.op \in RemoveOps /\ task.op # "Check"
    BY DEF ManagerInv, LockHeld, Owns, At, Fits, RemoveOps
<1> USE DEF Fits
<1>2. CASE MarkRemoval(task)
    <2>1. Owns(task, "mark") /\ UNCHANGED <<manager, shots, starting, faults>>
        BY <1>2 DEF MarkRemoval
    <2>2. PICK step \in {"inspect", "remove base"} :
              Go(task, step) /\ owner' = IF step = "inspect" THEN 0 ELSE owner
        BY <1>2 DEF MarkRemoval
    <2> QED BY <1>1, <2>1, <2>2, OwnerMoves
<1>3. CASE RemoveBase(task)
    <2>1. Owns(task, "remove base") /\ UNCHANGED <<manager, owner, shots, starting, faults>>
        BY <1>3 DEF RemoveBase
    <2>2. PICK step \in {"remove korean", "remove base"} : Go(task, step) BY <1>3 DEF RemoveBase
    <2> QED BY <1>1, <2>1, <2>2, OwnerMoves
<1>4. CASE RemoveKorean(task)
    <2>1. Owns(task, "remove korean") /\ UNCHANGED <<manager, shots, starting, faults>>
        BY <1>4 DEF RemoveKorean
    <2>2. task.op \in RemoveOps BY <1>1, <2>1
    <2>3. PICK step \in {"remove korean", "unmark", "inspect"} :
              Go(task, step) /\ owner' = IF step = "inspect" THEN 0 ELSE owner
        BY <1>4, <2>2 DEF RemoveKorean, RemoveOps
    <2> QED BY <1>1, <2>1, <2>3, OwnerMoves
<1>5. CASE Unmark(task) BY <1>1, <1>5, OwnerMoves DEF Unmark
<1> QED BY <1>2, <1>3, <1>4, <1>5 DEF Removes

\* A cancelled job leaves, or the window takes the answer of the one it waited for.
LEMMA ManagerLeaves ==
    ASSUME OcrInv, ManagerInv, ~starting, NEW task \in jobs, SkipJob(task) \/ ReportJob(task)
    PROVE  ManagerInv'
<1>1. /\ jobs' = jobs \ {task}
      /\ UNCHANGED <<request, owner, shot, shotJobs, damages, starting, folders, marker>>
      /\ \/ Stale(task) /\ UNCHANGED <<busy, info>>
         \/ /\ task.id = request /\ task.step = "report"
            /\ busy' = NoOp /\ info' \in {task.answer, Absent}
    BY DEF SkipJob, ReportJob, At, Stale, manager, shots, faults, disk
<1>2. \A j, k \in jobs : j.id = k.id => j = k BY DEF OcrInv, JobsOK
<1>3. LockHeld' /\ AtStart' BY <1>1 DEF ManagerInv, LockHeld, AtStart
<1>4. UpToDate' BY <1>1, <1>2 DEF ManagerInv, UpToDate, Stale
<1>5. Checks' BY <1>1 DEF ManagerInv, Checks
<1>6. Answering' => Answering BY <1>1 DEF Answering
<1>7. AtRest' BY <1>1, <1>6 DEF ManagerInv, AtRest, Writing
<1>8. Status' = Status /\ (\A s : Looked(s)' <=> Looked(s)) BY <1>1, StatusKept DEF Looked
<1>9. Truth' BY <1>1, <1>8 DEF ManagerInv, Truth
<1> QED BY <1>3, <1>4, <1>5, <1>7, <1>9 DEF ManagerInv

\* Before it takes the lock a job only waits; it answers with what an inspection told.
LEMMA ManagerCalls ==
    ASSUME OcrInv, OutsideInv, ManagerInv, ~starting, NEW task \in jobs,
           AdmitJob(task) \/ TakeLock(task) \/ InspectFor(task)
    PROVE  ManagerInv'
<1> USE DEF Steps, LockSteps, OcrWriters
<1>1. UNCHANGED <<request, busy, info, shot, shotJobs, damages, starting, folders, marker>>
    BY DEF AdmitJob, TakeLock, InspectFor, manager, shots, faults, disk
<1>2. CASE AdmitJob(task)
    <2> DEFINE new == [task EXCEPT !.step = "admitted"]
    <2>1. jobs' = (jobs \ {task}) \cup {new} /\ owner' = owner BY <1>2 DEF AdmitJob, Go
    <2>2. new.id = task.id /\ new.op = task.op /\ new.step = "admitted"
      BY ZenonT(60), GoType DEF OcrInv
    <2> HIDE DEF new
    <2> QED BY <1>1, <2>1, <2>2, JobGoes
<1>3. CASE TakeLock(task)
    <2>1. owner = 0 /\ owner' = task.id /\ task.op # "Check" /\ task.op \in Operations
        BY <1>3 DEF TakeLock, LockFree, OcrInv, JobsOK, JobSet
    <2>2. PICK step \in {"start", "mark", "remove korean"} :
              /\ jobs' = (jobs \ {task}) \cup {[task EXCEPT !.step = step]}
              /\ step # "start" => task.op \in RemoveOps
        BY <1>3, <2>1 DEF TakeLock, Go, Operations, RemoveOps, DownloadOps
    <2> DEFINE new == [task EXCEPT !.step = step]
    <2>3. new.id = task.id /\ new.op = task.op /\ new.step = step BY DEF OcrInv, JobsOK, JobSet
    <2>4. jobs' = (jobs \ {task}) \cup {new} BY <2>2
    <2>5. task.op \in RemoveOps => task.id = request
        BY DEF ManagerInv, UpToDate, Stale, RemoveOps, DownloadOps
    <2> HIDE DEF new
    <2> QED BY <1>1, <2>1, <2>2, <2>3, <2>4, <2>5, JobGoes DEF Fits
<1>4. CASE InspectFor(task)
    <2> DEFINE new == [task EXCEPT !.step = "report", !.answer = Inspected]
    <2>1. jobs' = (jobs \ {task}) \cup {new} /\ owner = 0 /\ owner' = owner
        BY <1>4 DEF InspectFor, Answered, LockFree
    <2>2. damages = 0 => Inspected = Status BY InspectedTrue DEF OcrInv, OutsideInv
    <2>3. new.id = task.id /\ new.op = task.op /\ new.step = "report" /\ new.answer = Inspected
        BY DEF OcrInv, JobsOK, JobSet
    <2> HIDE DEF new
    <2> QED BY <1>1, <2>1, <2>2, <2>3, JobGoes
<1> QED BY <1>2, <1>3, <1>4

\* The new job is the one the window waits for; all the others are cancelled downloads now.
LEMMA ManagerBegins ==
    ASSUME OcrInv, ManagerInv, ~starting,
           (\E op \in Operations : ManageResources(op)) \/ CancelDownload
    PROVE  ManagerInv'
<1>1. PICK op \in Operations :
          /\ BeginOperation(op)
          /\ UNCHANGED <<folders, marker, info, owner, shot, shotJobs, starting, damages>>
          /\ \/ busy = NoOp /\ (op # "Check" => shot.phase # "Checking")
             \/ busy \in DownloadOps /\ op = "Check"
  BY DEF ManageResources, MayManage, disk, shots, faults, CancelDownload, Operations
<1> DEFINE new == NewJob(request + 1, op)
<1>2. /\ request' = request + 1 /\ busy' = op /\ jobs' = jobs \cup {new}
      /\ new.id = request + 1 /\ new.op = op /\ new.step = "queued"
    BY <1>1 DEF BeginOperation, NewJob
<1> HIDE DEF new
<1>3. \A j \in jobs : j.op \in DownloadOps /\ j.id # request'
    BY <1>1, <1>2 DEF ManagerInv, UpToDate, Stale, OcrInv, JobsOK
<1>4. busy' # NoOp BY <1>2 DEF Operations, DownloadOps, RemoveOps, NoOp
<1>5. LockHeld' BY <1>1, <1>2 DEF ManagerInv, LockHeld, LockSteps
<1>6. UpToDate' BY <1>2, <1>3, <1>4 DEF UpToDate, Stale
<1>7. Checks' /\ AtStart' BY <1>1, <1>2 DEF ManagerInv, Checks, AtStart, NoOp, DownloadOps
<1>8. Answering' => shot.phase = "Checking" BY <1>1, <1>2, <1>3, <1>4 DEF Answering
<1>9. AtRest' BY <1>1, <1>2, <1>8 DEF ManagerInv, AtRest, Answering, Writing, OcrWriters
<1>10. Status' = Status /\ (\A s : Looked(s)' <=> Looked(s)) BY <1>1, StatusKept DEF Looked
<1>11. \A j \in jobs' : ~(j.id = request' /\ j.step = "report") BY <1>2, <1>3
<1>12. Truth' BY <1>1, <1>4, <1>10, <1>11 DEF ManagerInv, Truth
<1> QED BY <1>5, <1>6, <1>7, <1>9, <1>12 DEF ManagerInv

\* Recognitions read the disk; their check is made while nothing changes it.
LEMMA ManagerShots ==
    ASSUME OcrInv, OutsideInv, ManagerInv, ~starting,
           \/ RequestShot \/ EndCapture \/ Release
           \/ \E task \in shotJobs :
                  \/ InspectForShot(task) \/ Checked(task)
                  \/ InspectForRecognition(task) \/ LoadEngine(task)
    PROVE  ManagerInv'
<1>1. UNCHANGED <<folders, marker, request, busy, jobs, owner, starting, damages>>
    BY DEF RequestShot, EndCapture, Release, InspectForShot, Checked,
           InspectForRecognition, LoadEngine, manager, disk, faults
<1>2. LockHeld' /\ UpToDate' /\ AtStart' BY <1>1 DEF ManagerInv, LockHeld, UpToDate, Stale, AtStart
<1>3. Status' = Status BY <1>1, StatusKept
<1>4. shot.generation \in Nat BY DEF ManagerInv, Checks
<1>5. ASSUME Checks', shot'.phase = "Checking" => ~Writing,
             info' # info => busy = NoOp /\ (damages = 0 => info' = Status),
             damages = 0 /\ shot'.phase = "Checking" =>
                 \A s \in shotJobs' : Looked(s)' => s.answer = Status
      PROVE  ManagerInv'
  BY <1>1, <1>2, <1>3, <1>5 DEF ManagerInv, AtRest, Answering, Writing, Truth
<1>6. CASE RequestShot
    <2>1. PICK korean \in BOOLEAN :
              /\ shot' = [generation |-> shot.generation + 1, phase |-> "Checking", korean |-> korean]
              /\ shotJobs' = shotJobs \cup {ShotJob("Check", shot.generation + 1, korean)}
        BY <1>6 DEF RequestShot
    <2>2. info' = info /\ busy = NoOp BY <1>6 DEF RequestShot, manager
    <2>3. Checks' BY <1>1, <1>4, <2>1, <2>2 DEF ManagerInv, Checks, ShotJob, ShotSet
    <2>4. \A s \in shotJobs' : ~Looked(s)' BY <1>4, <2>1 DEF ManagerInv, Checks, Looked, ShotJob
    <2>5. ~Writing BY <2>2 DEF ManagerInv, AtRest, Answering
    <2> QED BY <1>5, <2>2, <2>3, <2>4, <2>5
<1>7. CASE EndCapture
    <2>1. info' = info BY <1>7 DEF EndCapture, manager
    <2>2. shot'.phase # "Checking" /\ Checks'
        <3>1. CASE /\ shot' = [shot EXCEPT !.phase = "Recognizing"]
                   /\ shotJobs' = shotJobs \cup {ShotJob("Recognize", shot.generation, shot.korean)}
      BY <1>1, <3>1 DEF ManagerInv, Checks, ShotJob, ShotSet
        <3>2. CASE shotJobs' = shotJobs /\ shot' = [shot EXCEPT !.generation = @ + 1, !.phase = "Idle"]
            <4> DEFINE n == shot.generation + 1
            <4>0. n \in Nat /\ shot' = [shot EXCEPT !.generation = n, !.phase = "Idle"]
                BY <1>4, <3>2
            <4>1. shot'.phase = "Idle" /\ shot'.generation = shot.generation + 1
                BY <3>2 DEF ManagerInv, Checks
            <4> HIDE DEF n
            <4>2. shot' \in [generation : Nat, phase : {"Idle", "Checking", "Capturing", "Recognizing"},
                            korean : BOOLEAN]
                BY <4>0 DEF ManagerInv, Checks
            <4>3. \A s \in shotJobs' : s \in ShotSet /\ s.generation \in 0..shot'.generation
                BY <1>4, <3>2, <4>1 DEF ManagerInv, Checks
            <4> QED BY <1>1, <4>1, <4>2, <4>3 DEF ManagerInv, Checks
        <3> QED BY <1>7, <3>1, <3>2 DEF EndCapture
    <2> QED BY <1>5, <2>1, <2>2
<1>8. CASE Release
  BY <1>1, <1>5, <1>8 DEF Release, manager, shots, ManagerInv, Checks, Looked, AtRest, Answering,
     Truth
<1>9. ASSUME NEW task \in shotJobs, InspectForShot(task)
      PROVE  ManagerInv'
    <2> DEFINE new == [task EXCEPT !.answer = Inspected]
    <2>1. shotJobs' = (shotJobs \ {task}) \cup {new} /\ UNCHANGED <<info, shot>>
        BY <1>9 DEF InspectForShot, manager
    <2>2. (damages = 0 => Inspected = Status) /\ Inspected \in Infos
        BY InspectedTrue, InspectedReady DEF OcrInv, OutsideInv
    <2>3. /\ task \in ShotSet /\ new \in ShotSet
          /\ new.op = task.op /\ new.generation = task.generation /\ new.answer = Inspected
        BY <2>2 DEF ManagerInv, Checks, ShotSet
    <2> HIDE DEF new
    <2>4. Checks' BY <1>1, <2>1, <2>3 DEF ManagerInv, Checks
    <2>5. \A s : Looked(s)' <=> Looked(s) BY <2>1 DEF Looked
    <2> QED BY <1>5, <2>1, <2>2, <2>3, <2>4, <2>5 DEF ManagerInv, AtRest, Answering, Truth
<1>10. ASSUME NEW task \in shotJobs, Checked(task)
      PROVE  ManagerInv'
  BY <1>1, <1>5, <1>10 DEF Checked, ManagerInv, Truth, Looked, Checks, AtRest, Answering
<1>11. ASSUME NEW task \in shotJobs, RecognitionEnds(task), info' = info
      PROVE  ManagerInv'
  BY <1>1, <1>5, <1>11 DEF RecognitionEnds, ManagerInv, Checks, Looked, AtRest, Answering, Truth
<1>12. ASSUME NEW task \in shotJobs, InspectForRecognition(task), ~RecognitionEnds(task)
      PROVE  ManagerInv'
    <2> DEFINE new == [task EXCEPT !.answer = Inspected]
    <2>1. /\ shotJobs' = (shotJobs \ {task}) \cup {new} /\ UNCHANGED <<info, shot>>
          /\ task.op = "Recognize"
        BY <1>12 DEF InspectForRecognition, manager
    <2>2. Inspected \in Infos BY InspectedReady DEF OcrInv
    <2>3. /\ task \in ShotSet /\ new \in ShotSet
          /\ new.op = task.op /\ new.generation = task.generation
        BY <2>2 DEF ManagerInv, Checks, ShotSet
    <2> HIDE DEF new
    <2>4. Checks' BY <1>1, <2>1, <2>3 DEF ManagerInv, Checks
    <2>5. (\A s : Looked(s)' <=> Looked(s)) /\ ~Looked(new) BY <2>1, <2>3 DEF Looked
    <2> QED BY <1>5, <2>1, <2>4, <2>5 DEF ManagerInv, AtRest, Answering, Truth
<1>13. ASSUME NEW task \in shotJobs, InspectForRecognition(task) \/ LoadEngine(task)
      PROVE  ManagerInv'
    BY <1>11, <1>12, <1>13 DEF InspectForRecognition, LoadEngine, manager
<1> QED BY <1>6, <1>7, <1>8, <1>9, <1>10, <1>13

\* Before the pending removal has ended nothing is told, and a crash forgets what was.
LEMMA ManagerWorld ==
    ASSUME OcrInv, ManagerInv, StartupRemoval \/ StartupRemovalFails \/ Crash \/ DamageFolder
    PROVE  ManagerInv'
<1>1. CASE StartupRemoval \/ StartupRemovalFails
  BY <1>1 DEF StartupRemoval, StartupRemovalFails, manager, shots, faults, ManagerInv, AtStart,
     LockHeld, UpToDate, AtRest, Writing, Truth, Checks
<1>2. CASE Crash
  BY <1>2 DEF Crash, ManagerInv, Checks, LockHeld, UpToDate, AtRest, Writing, AtStart, Truth
<1>3. CASE DamageFolder
  BY <1>3 DEF DamageFolder, manager, shots, ManagerInv, Checks, LockHeld, UpToDate, Stale,
     AtRest, Writing, Answering, AtStart, Truth
<1> QED BY <1>1, <1>2, <1>3

LEMMA ManagerNext == ASSUME OcrInv, OutsideInv, ManagerInv, [OcrNext]_ocrVars PROVE ManagerInv'
<1>1. ASSUME ~starting, NEW task \in jobs, Worker(task) PROVE ManagerInv'
    BY <1>1, ManagerLeaves, ManagerCalls, ManagerFail, ManagerDownloads, ManagerRemoves DEF Worker
<1>2. CASE UNCHANGED ocrVars
    <2>1. UNCHANGED <<folders, marker, request, busy, info, jobs, owner, shot, shotJobs, starting,
                      damages>>
        BY <1>2 DEF ocrVars, disk, manager, shots, faults
    <2>2. Status' = Status /\ (\A s : Looked(s)' <=> Looked(s)) BY <2>1, StatusKept DEF Looked
    <2> QED
        BY <2>1, <2>2 DEF ManagerInv, LockHeld, UpToDate, Stale, AtRest, Writing, Answering, Checks,
                              AtStart, Truth
<1> QED BY <1>1, <1>2, ManagerBegins, ManagerShots, ManagerWorld DEF OcrNext, User

\* What the window shows of the resources is true (domain/ocr.rs: ResourceState, app/ocr.rs): an
\* operation it waits for has the worker that will answer, and at rest it tells what is on disk,
\* whatever was cancelled, refused, failed or forgotten in a crash on the way.
THEOREM ManagerIsTruthful == OcrSpec => []ManagerTruthful
<1>1. OcrInit => OcrInv /\ OutsideInv /\ ManagerInv BY OcrInitProof, OutsideInit, ManagerInit
<1>2. OcrInv /\ OutsideInv /\ ManagerInv /\ [OcrNext]_ocrVars =>
          OcrInv' /\ OutsideInv' /\ ManagerInv'
    BY NextProof, OutsideNext, ManagerNext
<1>3. ManagerInv => ManagerTruthful
    BY DEF ManagerInv, UpToDate, Truth, ManagerTruthful, BusyHasWorker, InfoTruthful
<1> QED BY <1>1, <1>2, <1>3, PTL DEF OcrSpec

========================================
