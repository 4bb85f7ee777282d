---------------------------- MODULE ClipboardProofs ----------------------------
(***************************************************************************)
(* Proofs about the two ways the clipboard meets its history.               *)
(*                                                                          *)
(* The capture of a selection leaves no trace on the clipboard and in the   *)
(* history, for any number of captures, of copies of the user and of the    *)
(* application, and of calls that fail.                                     *)
(*                                                                          *)
(* The storage thread and the monitor follow the history, a file that could *)
(* not be read is kept, and copies and pastes are served, for any texts,    *)
(* limits and contents of the file, and any number of clicks and revisions. *)
(***************************************************************************)
EXTENDS ClipboardCapture, ClipboardHistory, FiniteSetTheorems, WellFoundedInduction, TLAPS

----------------------------------------
(***************************************************************************)
(* The capture of a selection.                                              *)
(***************************************************************************)
Steps == {"idle", "verify", "send", "wait", "read", "check", "set", "retarget", "flush", "leave"}

Captures == [step : Steps, tries : Nat, before : Nat, snapshot : Int, copied : Int,
             leaving : BOOLEAN]
Counts   == [captures : Nat, copies : Nat, refusals : Nat]

CaptureOK ==
    /\ clipboard \in [seq : Nat, holds : Int]
    /\ capture \in Captures
    /\ writes \in Nat /\ updated \in BOOLEAN /\ users \in Int /\ spoiled \in BOOLEAN
    /\ captureCounts \in Counts

\* Every number that is kept somewhere was one of the clipboard's.
Numbered ==
    /\ buffer \cup handing \cup excluded \cup recorded \cup restores \subseteq 1..clipboard.seq
    /\ sample = Unknown \/ sample \in 1..clipboard.seq
    /\ capture.before <= clipboard.seq /\ capture.copied <= clipboard.seq
    /\ clipboard.seq >= 1

\* What is reported, or about to be, is older than the capture; what the capture claims is not.
Unclaimed ==
    /\ (recorded \cup handing) \cap excluded = {}
    /\ Working => recorded \cup handing \subseteq 1..capture.before
    /\ ~Working => buffer = {}
    /\ capture.step = "retarget" => capture.before < clipboard.seq

\* A restoring write is claimed, or is the last one and about to be.
Claimed ==
    ~spoiled => \A n \in restores :
        n \in excluded \/ (capture.step = "retarget" /\ n = clipboard.seq)

\* What the clipboard holds was noticed, or the monitor is still to be told.
Noticed ==
    \/ updated \/ sample = clipboard.seq
    \/ clipboard.seq \in buffer \cup handing \cup recorded \cup excluded

\* What the clipboard and the snapshot hold at each step of the thread.
Returning ==
    /\ capture.step = "read" => ~capture.leaving
    /\ ~spoiled =>
        /\ capture.step \in {"idle", "verify", "send", "retarget", "flush", "leave"} =>
              clipboard.holds = users
        /\ capture.step = "verify" /\ capture.before = clipboard.seq =>
              capture.snapshot = clipboard.holds
        /\ capture.step \in {"send", "wait", "set", "retarget"} => capture.snapshot = users
        /\ capture.step = "wait" /\ capture.before = clipboard.seq => clipboard.holds = users
        /\ capture.step = "set" => capture.copied = clipboard.seq
        /\ capture.step \in {"read", "check", "flush"} =>
              IF capture.copied = clipboard.seq THEN capture.snapshot = users
              ELSE clipboard.holds = users

CaptureInv == CaptureOK /\ Numbered /\ Unclaimed /\ Claimed /\ Noticed /\ Returning

----------------------------------------
LEMMA CaptureInitProof == CaptureInit => CaptureInv
<1> SUFFICES ASSUME CaptureInit PROVE CaptureInv OBVIOUS
<1>1. capture \in Captures /\ capture.step = "idle"
  BY DEF CaptureInit, NoCapture, Captures, Steps, Unknown
<1>2. capture.before = 0 /\ capture.copied = Unknown BY DEF CaptureInit, NoCapture
<1>3. CaptureOK
  <2>1. clipboard \in [seq : Nat, holds : Int] /\ captureCounts \in Counts
    BY DEF CaptureInit, Counts
  <2> QED BY <1>1, <2>1 DEF CaptureInit, CaptureOK
<1> QED
  BY <1>1, <1>2, <1>3 DEF CaptureInit, CaptureInv, Numbered, Unclaimed, Claimed, Noticed, Returning,
     Working, Unknown

LEMMA Consequence == CaptureInv => CaptureLeavesNoTrace
<1> SUFFICES ASSUME CaptureInv PROVE CaptureLeavesNoTrace OBVIOUS
<1>1. ClipboardReturned BY DEF CaptureInv, Returning, ClipboardReturned, Working
<1>2. ~spoiled => recorded \cap restores = {}
  <2>1. clipboard.seq \in Nat /\ capture.before \in Nat BY DEF CaptureInv, CaptureOK, Captures
  <2>2. ASSUME ~spoiled, NEW n \in recorded, n \in restores PROVE FALSE
    <3>1. n \notin excluded BY <2>2 DEF CaptureInv, Unclaimed
    <3>2. capture.step = "retarget" /\ n = clipboard.seq BY <2>2, <3>1 DEF CaptureInv, Claimed
    <3> QED BY <2>1, <2>2, <3>2 DEF CaptureInv, Unclaimed, Working
  <2> QED BY <2>2
<1>3. HistoryExact
  BY <1>2 DEF CaptureInv, HistoryExact, Unclaimed, Noticed, Numbered, CaptureOK, Unknown, Working
<1> QED BY <1>1, <1>3 DEF CaptureLeavesNoTrace

----------------------------------------
(* The steps of the thread.                                                  *)

\* The thread goes on and keeps the rest of what it remembers.
GoesTo(step, leaving) ==
    /\ capture' \in Captures /\ capture'.step = step /\ capture'.leaving = leaving
    /\ capture'.before = capture.before /\ capture'.snapshot = capture.snapshot
    /\ capture'.copied = capture.copied

LEMMA Going ==
    ASSUME CaptureOK, NEW step \in Steps, ToStep(step)
    PROVE  GoesTo(step, capture.leaving)
BY DEF CaptureOK, Captures, ToStep, GoesTo

AfterFailure == IF capture.step = "verify" \/ capture.leaving THEN "leave" ELSE "check"

LEMMA Failing == ASSUME CaptureOK, CaptureFails PROVE GoesTo(AfterFailure, TRUE)
BY DEF CaptureOK, Captures, Steps, CaptureFails, GoesTo, AfterFailure

LEMMA Refusing == ASSUME CaptureOK, Refused PROVE captureCounts' \in Counts
BY DEF CaptureOK, Counts, Refused

LEMMA PreserveProof == ASSUME CaptureInv, Preserve PROVE CaptureInv'
<1>1. clipboard.seq \in Nat /\ clipboard.seq \in Int /\ clipboard.holds \in Int
  BY DEF CaptureInv, CaptureOK
<1>2. NoCapture \in Captures /\ ~NoCapture.leaving /\ NoCapture.copied = Unknown
  BY DEF NoCapture, Captures, Steps, Unknown
<1>3. /\ capture' \in Captures /\ capture'.step = "verify" /\ ~capture'.leaving
      /\ capture'.before = clipboard.seq /\ capture'.snapshot = clipboard.holds
      /\ capture'.copied = Unknown
  BY <1>1, <1>2 DEF Preserve, Captures, Steps, NoCapture, Unknown
<1>4. captureCounts' \in Counts BY DEF CaptureInv, CaptureOK, Preserve, Counts
<1>5. CaptureOK'
  BY <1>1, <1>2, <1>3, <1>4 DEF CaptureInv, CaptureOK, Preserve, AtStep, historySide, ghosts,
       Unknown
<1>6. Numbered'
  BY <1>1, <1>2, <1>3, <1>4 DEF CaptureInv, Numbered, CaptureOK, Captures, Preserve, AtStep,
     historySide, ghosts, Unknown
<1>7. Unclaimed'
  BY <1>1, <1>2, <1>3, <1>4 DEF CaptureInv, Unclaimed, Numbered, CaptureOK, Captures, Working,
     Preserve, AtStep, historySide, ghosts, Unknown
<1>8. Claimed'
  BY <1>1, <1>2, <1>3, <1>4 DEF CaptureInv, Claimed, Numbered, CaptureOK, Preserve, AtStep,
     historySide, ghosts, Unknown
<1>9. Noticed'
  BY <1>1, <1>2, <1>3, <1>4 DEF CaptureInv, Noticed, Numbered, CaptureOK, Preserve, AtStep,
     historySide, ghosts, Unknown
<1>10. Returning'
  BY <1>1, <1>2, <1>3, <1>4 DEF CaptureInv, Returning, Numbered, CaptureOK, Captures, Preserve,
     AtStep, historySide, ghosts, Unknown
<1> QED BY <1>5, <1>6, <1>7, <1>8, <1>9, <1>10 DEF CaptureInv

LEMMA VerifyProof == ASSUME CaptureInv, Verify PROVE CaptureInv'
<1>1. clipboard.seq \in Nat /\ clipboard.seq \in Int /\ clipboard.holds \in Int
  BY DEF CaptureInv, CaptureOK
<1>2. \/ GoesTo("send", capture.leaving) /\ clipboard.seq = capture.before
      \/ /\ capture' \in Captures /\ capture'.step = "verify"
         /\ capture'.before = clipboard.seq /\ capture'.snapshot = clipboard.holds
         /\ capture'.copied = capture.copied
      \/ GoesTo("leave", TRUE)
  <2>1. CASE clipboard.seq = capture.before BY <2>1, Going DEF CaptureInv, Verify, Steps
  <2>2. CASE clipboard.seq # capture.before /\ capture.tries < 3
    <3>1. capture' = [capture EXCEPT !.tries = @ + 1, !.before = clipboard.seq,
                                     !.snapshot = clipboard.holds]
      BY <2>2 DEF Verify
    <3>2. capture.tries + 1 \in Nat /\ capture.step = "verify"
      BY DEF CaptureInv, CaptureOK, Captures, Verify, AtStep
    <3> QED BY <1>1, <3>1, <3>2 DEF CaptureInv, CaptureOK, Captures
  <2>3. CASE clipboard.seq # capture.before /\ ~(capture.tries < 3)
    BY <2>3, Failing DEF CaptureInv, Verify, AtStep, AfterFailure
  <2> QED BY <2>1, <2>2, <2>3
<1>3. CaptureOK'
  BY <1>1, <1>2 DEF CaptureInv, CaptureOK, GoesTo, Verify, AtStep, historySide, ghosts
<1>4. Numbered'
  BY <1>1, <1>2 DEF CaptureInv, Numbered, CaptureOK, Captures, GoesTo, Verify, AtStep,
       historySide, ghosts
<1>5. Unclaimed'
  BY <1>1, <1>2 DEF CaptureInv, Unclaimed, Numbered, CaptureOK, Captures, Working, GoesTo, Verify,
     AtStep, historySide, ghosts
<1>6. Claimed'
  BY <1>1, <1>2 DEF CaptureInv, Claimed, Numbered, CaptureOK, GoesTo, Verify, AtStep, historySide,
       ghosts
<1>7. Noticed'
  BY <1>1, <1>2 DEF CaptureInv, Noticed, Numbered, CaptureOK, GoesTo, Verify, AtStep, historySide,
       ghosts
<1>8. Returning'
  BY <1>1, <1>2 DEF CaptureInv, Returning, Numbered, CaptureOK, Captures, GoesTo, Verify, AtStep,
     historySide, ghosts
<1> QED BY <1>3, <1>4, <1>5, <1>6, <1>7, <1>8 DEF CaptureInv

LEMMA VerifyFailsProof == ASSUME CaptureInv, VerifyFails PROVE CaptureInv'
<1>1. GoesTo("leave", TRUE) BY Failing DEF CaptureInv, VerifyFails, AtStep, AfterFailure
<1>2. captureCounts' \in Counts BY Refusing DEF CaptureInv, VerifyFails
<1>3. CaptureOK'
  BY <1>1, <1>2 DEF CaptureInv, CaptureOK, GoesTo, VerifyFails, AtStep, historySide, ghosts
<1>4. Numbered'
  BY <1>1, <1>2 DEF CaptureInv, Numbered, CaptureOK, Captures, GoesTo, VerifyFails, AtStep,
     historySide, ghosts
<1>5. Unclaimed'
  BY <1>1, <1>2 DEF CaptureInv, Unclaimed, Numbered, CaptureOK, Captures, Working, GoesTo,
     VerifyFails, AtStep, historySide, ghosts
<1>6. Claimed'
  BY <1>1, <1>2 DEF CaptureInv, Claimed, Numbered, CaptureOK, GoesTo, VerifyFails, AtStep,
     historySide, ghosts
<1>7. Noticed'
  BY <1>1, <1>2 DEF CaptureInv, Noticed, Numbered, CaptureOK, GoesTo, VerifyFails, AtStep,
     historySide, ghosts
<1>8. Returning'
  BY <1>1, <1>2 DEF CaptureInv, Returning, Numbered, CaptureOK, Captures, GoesTo, VerifyFails,
     AtStep, historySide, ghosts
<1> QED BY <1>3, <1>4, <1>5, <1>6, <1>7, <1>8 DEF CaptureInv

LEMMA SendProof == ASSUME CaptureInv, Send PROVE CaptureInv'
<1>1. GoesTo("wait", capture'.leaving)
  BY Going DEF CaptureInv, CaptureOK, Send, Captures, Steps, GoesTo
<1>2. captureCounts' \in Counts BY Refusing DEF CaptureInv, CaptureOK, Send
<1>3. CaptureOK' BY <1>1, <1>2 DEF CaptureInv, CaptureOK, GoesTo, Send, AtStep, historySide, ghosts
<1>4. Numbered'
  BY <1>1, <1>2 DEF CaptureInv, Numbered, CaptureOK, Captures, GoesTo, Send, AtStep, historySide,
       ghosts
<1>5. Unclaimed'
  BY <1>1, <1>2 DEF CaptureInv, Unclaimed, Numbered, CaptureOK, Captures, Working, GoesTo, Send,
     AtStep, historySide, ghosts
<1>6. Claimed'
  BY <1>1, <1>2 DEF CaptureInv, Claimed, Numbered, CaptureOK, GoesTo, Send, AtStep, historySide,
       ghosts
<1>7. Noticed'
  BY <1>1, <1>2 DEF CaptureInv, Noticed, Numbered, CaptureOK, GoesTo, Send, AtStep, historySide,
       ghosts
<1>8. Returning'
  BY <1>1, <1>2 DEF CaptureInv, Returning, Numbered, CaptureOK, Captures, GoesTo, Send, AtStep,
     historySide, ghosts
<1> QED BY <1>3, <1>4, <1>5, <1>6, <1>7, <1>8 DEF CaptureInv

LEMMA WaitProof == ASSUME CaptureInv, Wait PROVE CaptureInv'
<1>1. clipboard.seq \in Nat /\ clipboard.seq \in Int /\ clipboard.holds \in Int
  BY DEF CaptureInv, CaptureOK
<1>2. \/ /\ capture' \in Captures /\ capture'.leaving = capture.leaving
         /\ capture'.step = IF capture.leaving THEN "check" ELSE "read"
         /\ capture'.before = capture.before /\ capture'.snapshot = capture.snapshot
         /\ capture'.copied = clipboard.seq /\ clipboard.seq # capture.before
         /\ excluded' = excluded \cup {clipboard.seq}
      \/ /\ GoesTo("leave", capture.leaving) /\ clipboard.seq = capture.before
         /\ UNCHANGED excluded
  BY <1>1, Going DEF CaptureInv, CaptureOK, Wait, Captures, Steps
<1>3. CaptureOK' BY <1>1, <1>2 DEF CaptureInv, CaptureOK, GoesTo, Wait, AtStep, historySide, ghosts
<1>4. Numbered'
  BY <1>1, <1>2 DEF CaptureInv, Numbered, CaptureOK, Captures, GoesTo, Wait, AtStep, historySide,
       ghosts
<1>5. Unclaimed'
  BY <1>1, <1>2 DEF CaptureInv, Unclaimed, Numbered, CaptureOK, Captures, Working, GoesTo, Wait,
     AtStep, historySide, ghosts
<1>6. Claimed'
  BY <1>1, <1>2 DEF CaptureInv, Claimed, Numbered, CaptureOK, GoesTo, Wait, AtStep, historySide,
       ghosts
<1>7. Noticed'
  BY <1>1, <1>2 DEF CaptureInv, Noticed, Numbered, CaptureOK, GoesTo, Wait, AtStep, historySide,
       ghosts
<1>8. Returning'
  BY <1>1, <1>2 DEF CaptureInv, Returning, Numbered, CaptureOK, Captures, GoesTo, Wait, AtStep,
     historySide, ghosts
<1> QED BY <1>3, <1>4, <1>5, <1>6, <1>7, <1>8 DEF CaptureInv

LEMMA ReadProof == ASSUME CaptureInv, Read PROVE CaptureInv'
<1>1. GoesTo("check", capture'.leaving)
  BY Going, Failing DEF CaptureInv, Returning, Read, AtStep, Steps, AfterFailure, GoesTo
<1>2. captureCounts' \in Counts BY Refusing DEF CaptureInv, CaptureOK, Read
<1>3. CaptureOK' BY <1>1, <1>2 DEF CaptureInv, CaptureOK, GoesTo, Read, AtStep, historySide, ghosts
<1>4. Numbered'
  BY <1>1, <1>2 DEF CaptureInv, Numbered, CaptureOK, Captures, GoesTo, Read, AtStep, historySide,
       ghosts
<1>5. Unclaimed'
  BY <1>1, <1>2 DEF CaptureInv, Unclaimed, Numbered, CaptureOK, Captures, Working, GoesTo, Read,
     AtStep, historySide, ghosts
<1>6. Claimed'
  BY <1>1, <1>2 DEF CaptureInv, Claimed, Numbered, CaptureOK, GoesTo, Read, AtStep, historySide,
       ghosts
<1>7. Noticed'
  BY <1>1, <1>2 DEF CaptureInv, Noticed, Numbered, CaptureOK, GoesTo, Read, AtStep, historySide,
       ghosts
<1>8. Returning'
  BY <1>1, <1>2 DEF CaptureInv, Returning, Numbered, CaptureOK, Captures, GoesTo, Read, AtStep,
     historySide, ghosts
<1> QED BY <1>3, <1>4, <1>5, <1>6, <1>7, <1>8 DEF CaptureInv

LEMMA CheckProof == ASSUME CaptureInv, Check PROVE CaptureInv'
<1>1. \/ GoesTo("set", capture.leaving) /\ capture.copied = clipboard.seq
      \/ GoesTo("leave", capture.leaving) /\ capture.copied # clipboard.seq
  BY Going DEF CaptureInv, Check, Steps
<1>2. CaptureOK' BY <1>1 DEF CaptureInv, CaptureOK, GoesTo, Check, AtStep, historySide, ghosts
<1>3. Numbered'
  BY <1>1 DEF CaptureInv, Numbered, CaptureOK, Captures, GoesTo, Check, AtStep, historySide, ghosts
<1>4. Unclaimed'
  BY <1>1 DEF CaptureInv, Unclaimed, Numbered, CaptureOK, Captures, Working, GoesTo, Check, AtStep,
     historySide, ghosts
<1>5. Claimed'
  BY <1>1 DEF CaptureInv, Claimed, Numbered, CaptureOK, GoesTo, Check, AtStep, historySide, ghosts
<1>6. Noticed'
  BY <1>1 DEF CaptureInv, Noticed, Numbered, CaptureOK, GoesTo, Check, AtStep, historySide, ghosts
<1>7. Returning'
  BY <1>1 DEF CaptureInv, Returning, Numbered, CaptureOK, Captures, GoesTo, Check, AtStep,
     historySide, ghosts
<1> QED BY <1>2, <1>3, <1>4, <1>5, <1>6, <1>7 DEF CaptureInv

LEMMA SetProof == ASSUME CaptureInv, Set PROVE CaptureInv'
<1>1. GoesTo("retarget", capture.leaving) BY Going DEF CaptureInv, Set, Steps
<1>2. /\ clipboard' \in [seq : Nat, holds : Int] /\ clipboard'.seq = clipboard.seq + 1
      /\ clipboard'.holds = capture.snapshot /\ updated'
  BY DEF CaptureInv, CaptureOK, Captures, Set, Overwrite
<1>3. CaptureOK' BY <1>1, <1>2 DEF CaptureInv, CaptureOK, GoesTo, Set, AtStep, historySide
<1>4. Numbered'
  BY <1>1, <1>2 DEF CaptureInv, Numbered, CaptureOK, Captures, GoesTo, Set, AtStep, historySide
<1>5. Unclaimed'
  BY <1>1, <1>2 DEF CaptureInv, Unclaimed, Numbered, CaptureOK, Captures, Working, GoesTo, Set,
     AtStep, historySide
<1>6. Claimed'
  BY <1>1, <1>2 DEF CaptureInv, Claimed, Numbered, CaptureOK, GoesTo, Set, AtStep, historySide
<1>7. Noticed'
  BY <1>1, <1>2 DEF CaptureInv, Noticed, Numbered, CaptureOK, GoesTo, Set, AtStep, historySide
<1>8. Returning'
  BY <1>1, <1>2 DEF CaptureInv, Returning, Numbered, CaptureOK, Captures, GoesTo, Set, AtStep,
       historySide
<1> QED BY <1>3, <1>4, <1>5, <1>6, <1>7, <1>8 DEF CaptureInv

LEMMA SetRefusedProof == ASSUME CaptureInv, SetRefused PROVE CaptureInv'
<1>1. \/ GoesTo("check", capture'.leaving)
      \/ GoesTo("leave", TRUE) /\ spoiled'
  BY Going, Failing DEF CaptureInv, CaptureOK, SetRefused, AtStep, Steps, AfterFailure, GoesTo
<1>2. captureCounts' \in Counts BY Refusing DEF CaptureInv, SetRefused
<1>3. spoiled' \in BOOLEAN /\ (spoiled => spoiled')
  BY DEF CaptureInv, CaptureOK, Captures, SetRefused
<1>4. CaptureOK'
  BY <1>1, <1>2, <1>3 DEF CaptureInv, CaptureOK, GoesTo, SetRefused, AtStep, historySide
<1>5. Numbered'
  BY <1>1, <1>2, <1>3 DEF CaptureInv, Numbered, CaptureOK, Captures, GoesTo, SetRefused, AtStep,
       historySide
<1>6. Unclaimed'
  BY <1>1, <1>2, <1>3 DEF CaptureInv, Unclaimed, Numbered, CaptureOK, Captures, Working, GoesTo,
     SetRefused, AtStep, historySide
<1>7. Claimed'
  BY <1>1, <1>2, <1>3 DEF CaptureInv, Claimed, Numbered, CaptureOK, GoesTo, SetRefused, AtStep,
       historySide
<1>8. Noticed'
  BY <1>1, <1>2, <1>3 DEF CaptureInv, Noticed, Numbered, CaptureOK, GoesTo, SetRefused, AtStep,
       historySide
<1>9. Returning'
  BY <1>1, <1>2, <1>3 DEF CaptureInv, Returning, Numbered, CaptureOK, Captures, GoesTo, SetRefused,
     AtStep, historySide
<1> QED BY <1>4, <1>5, <1>6, <1>7, <1>8, <1>9 DEF CaptureInv

LEMMA RetargetProof == ASSUME CaptureInv, Retarget PROVE CaptureInv'
<1>1. clipboard.seq \in Nat /\ clipboard.seq \in Int /\ clipboard.holds \in Int
  BY DEF CaptureInv, CaptureOK
<1>2. /\ capture' \in Captures /\ capture'.step = "flush" /\ capture'.leaving = capture.leaving
      /\ capture'.before = capture.before /\ capture'.snapshot = capture.snapshot
      /\ capture'.copied = clipboard.seq
  BY <1>1 DEF CaptureInv, CaptureOK, Captures, Steps, Retarget
<1>3. CaptureOK' BY <1>1, <1>2 DEF CaptureInv, CaptureOK, Retarget, AtStep, historySide, ghosts
<1>4. Numbered'
  BY <1>1, <1>2 DEF CaptureInv, Numbered, CaptureOK, Captures, Retarget, AtStep, historySide, ghosts
<1>5. Unclaimed'
  BY <1>1, <1>2 DEF CaptureInv, Unclaimed, Numbered, CaptureOK, Captures, Working, Retarget, AtStep,
     historySide, ghosts
<1>6. Claimed'
  BY <1>1, <1>2 DEF CaptureInv, Claimed, Numbered, CaptureOK, Retarget, AtStep, historySide, ghosts
<1>7. Noticed'
  BY <1>1, <1>2 DEF CaptureInv, Noticed, Numbered, CaptureOK, Retarget, AtStep, historySide, ghosts
<1>8. Returning'
  BY <1>1, <1>2 DEF CaptureInv, Returning, Numbered, CaptureOK, Captures, Retarget, AtStep,
     historySide, ghosts
<1> QED BY <1>3, <1>4, <1>5, <1>6, <1>7, <1>8 DEF CaptureInv

LEMMA FlushProof == ASSUME CaptureInv, Flush PROVE CaptureInv'
<1>1. \/ GoesTo("leave", capture.leaving)
      \/ GoesTo("check", TRUE)
      \/ GoesTo("leave", TRUE) /\ spoiled'
  BY Going, Failing DEF CaptureInv, CaptureOK, Flush, AtStep, Steps, AfterFailure
<1>2. captureCounts' \in Counts BY Refusing DEF CaptureInv, CaptureOK, Flush
<1>3. spoiled' \in BOOLEAN /\ (spoiled => spoiled') BY DEF CaptureInv, CaptureOK, Captures, Flush
<1>4. CaptureOK' BY <1>1, <1>2, <1>3 DEF CaptureInv, CaptureOK, GoesTo, Flush, AtStep, historySide
<1>5. Numbered'
  BY <1>1, <1>2, <1>3 DEF CaptureInv, Numbered, CaptureOK, Captures, GoesTo, Flush, AtStep,
       historySide
<1>6. Unclaimed'
  BY <1>1, <1>2, <1>3 DEF CaptureInv, Unclaimed, Numbered, CaptureOK, Captures, Working, GoesTo,
     Flush, AtStep, historySide
<1>7. Claimed'
  BY <1>1, <1>2, <1>3 DEF CaptureInv, Claimed, Numbered, CaptureOK, GoesTo, Flush, AtStep,
       historySide
<1>8. Noticed'
  BY <1>1, <1>2, <1>3 DEF CaptureInv, Noticed, Numbered, CaptureOK, GoesTo, Flush, AtStep,
       historySide
<1>9. Returning'
  BY <1>1, <1>2, <1>3 DEF CaptureInv, Returning, Numbered, CaptureOK, Captures, GoesTo, Flush,
     AtStep, historySide
<1> QED BY <1>4, <1>5, <1>6, <1>7, <1>8, <1>9 DEF CaptureInv

LEMMA LeaveProof == ASSUME CaptureInv, Leave PROVE CaptureInv'
<1>1. /\ capture' \in Captures /\ capture'.step = "idle" /\ ~capture'.leaving
      /\ capture'.before = 0 /\ capture'.copied = Unknown
  BY DEF Leave, NoCapture, Captures, Steps, Unknown
<1>2. CaptureOK' BY <1>1 DEF CaptureInv, CaptureOK, Leave, AtStep, ghosts, Unknown
<1>3. Numbered'
  BY <1>1 DEF CaptureInv, Numbered, CaptureOK, Captures, Leave, AtStep, ghosts, Unknown
<1>4. Unclaimed'
  BY <1>1 DEF CaptureInv, Unclaimed, Numbered, CaptureOK, Captures, Working, Leave, AtStep,
       ghosts, Unknown
<1>5. Claimed' BY <1>1 DEF CaptureInv, Claimed, Numbered, CaptureOK, Leave, AtStep, ghosts, Unknown
<1>6. Noticed' BY <1>1 DEF CaptureInv, Noticed, Numbered, CaptureOK, Leave, AtStep, ghosts, Unknown
<1>7. Returning'
  BY <1>1 DEF CaptureInv, Returning, Numbered, CaptureOK, Captures, Leave, AtStep, ghosts, Unknown
<1> QED BY <1>2, <1>3, <1>4, <1>5, <1>6, <1>7 DEF CaptureInv

----------------------------------------
(* The history, the application and the user.                                *)

LEMMA HandOverProof == ASSUME CaptureInv, HandOver PROVE CaptureInv'
<1>1. CaptureOK' BY DEF CaptureInv, CaptureOK, HandOver, ghosts
<1>2. Numbered' BY DEF CaptureInv, Numbered, CaptureOK, Captures, HandOver, ghosts
<1>3. Unclaimed'
  BY DEF CaptureInv, Unclaimed, Numbered, CaptureOK, Captures, Working, HandOver, ghosts
<1>4. Claimed' BY DEF CaptureInv, Claimed, Numbered, CaptureOK, HandOver, ghosts
<1>5. Noticed' BY DEF CaptureInv, Noticed, Numbered, CaptureOK, HandOver, ghosts
<1>6. Returning' BY DEF CaptureInv, Returning, Numbered, CaptureOK, Captures, HandOver, ghosts
<1> QED BY <1>1, <1>2, <1>3, <1>4, <1>5, <1>6 DEF CaptureInv

LEMMA CopyLandsProof == ASSUME CaptureInv, CopyLands PROVE CaptureInv'
<1>1. /\ clipboard' \in [seq : Nat, holds : Int] /\ clipboard'.seq = clipboard.seq + 1
      /\ clipboard'.holds = Selection /\ updated'
  BY DEF CaptureInv, CaptureOK, CopyLands, Overwrite, Selection
<1>2. ~spoiled' => ~spoiled /\ capture.step = "wait" BY DEF CopyLands, AtStep
<1>3. CaptureOK' BY <1>1, <1>2 DEF CaptureInv, CaptureOK, CopyLands, AtStep, historySide
<1>4. Numbered'
  BY <1>1, <1>2 DEF CaptureInv, Numbered, CaptureOK, Captures, CopyLands, AtStep, historySide
<1>5. Unclaimed'
  BY <1>1, <1>2 DEF CaptureInv, Unclaimed, Numbered, CaptureOK, Captures, Working, CopyLands,
     AtStep, historySide
<1>6. Claimed'
  BY <1>1, <1>2 DEF CaptureInv, Claimed, Numbered, CaptureOK, CopyLands, AtStep, historySide
<1>7. Noticed'
  BY <1>1, <1>2 DEF CaptureInv, Noticed, Numbered, CaptureOK, CopyLands, AtStep, historySide
<1>8. Returning'
  BY <1>1, <1>2 DEF CaptureInv, Returning, Numbered, CaptureOK, Captures, CopyLands, AtStep,
       historySide
<1> QED BY <1>3, <1>4, <1>5, <1>6, <1>7, <1>8 DEF CaptureInv

LEMMA CopyEndsProof == ASSUME CaptureInv, CopyEnds PROVE CaptureInv'
<1>1. CaptureOK' BY DEF CaptureInv, CaptureOK, CopyEnds, historySide, ghosts
<1>2. Numbered' BY DEF CaptureInv, Numbered, CaptureOK, Captures, CopyEnds, historySide, ghosts
<1>3. Unclaimed'
  BY DEF CaptureInv, Unclaimed, Numbered, CaptureOK, Captures, Working, CopyEnds, historySide,
       ghosts
<1>4. Claimed' BY DEF CaptureInv, Claimed, Numbered, CaptureOK, CopyEnds, historySide, ghosts
<1>5. Noticed' BY DEF CaptureInv, Noticed, Numbered, CaptureOK, CopyEnds, historySide, ghosts
<1>6. Returning'
  BY DEF CaptureInv, Returning, Numbered, CaptureOK, Captures, CopyEnds, historySide, ghosts
<1> QED BY <1>1, <1>2, <1>3, <1>4, <1>5, <1>6 DEF CaptureInv

LEMMA UserCopiesProof == ASSUME CaptureInv, UserCopies PROVE CaptureInv'
<1>1. /\ clipboard' \in [seq : Nat, holds : Int] /\ clipboard'.seq = clipboard.seq + 1
      /\ clipboard'.holds = users' /\ updated'
  BY DEF CaptureInv, CaptureOK, Counts, UserCopies, Overwrite
<1>2. captureCounts' \in Counts /\ users' \in Int BY DEF CaptureInv, CaptureOK, Counts, UserCopies
<1>3. ~spoiled' => ~spoiled /\ capture.step \notin {"send", "wait", "set", "retarget"}
  BY DEF UserCopies
<1>4. CaptureOK' BY <1>1, <1>2, <1>3 DEF CaptureInv, CaptureOK, UserCopies, historySide
<1>5. Numbered'
  BY <1>1, <1>2, <1>3 DEF CaptureInv, Numbered, CaptureOK, Captures, UserCopies, historySide
<1>6. Unclaimed'
  BY <1>1, <1>2, <1>3 DEF CaptureInv, Unclaimed, Numbered, CaptureOK, Captures, Working, UserCopies,
     historySide
<1>7. Claimed'
  BY <1>1, <1>2, <1>3 DEF CaptureInv, Claimed, Numbered, CaptureOK, UserCopies, historySide
<1>8. Noticed'
  BY <1>1, <1>2, <1>3 DEF CaptureInv, Noticed, Numbered, CaptureOK, UserCopies, historySide
<1>9. Returning'
  BY <1>1, <1>2, <1>3 DEF CaptureInv, Returning, Numbered, CaptureOK, Captures, UserCopies,
       historySide
<1> QED BY <1>4, <1>5, <1>6, <1>7, <1>8, <1>9 DEF CaptureInv

LEMMA SampleProof == ASSUME CaptureInv, Sample PROVE CaptureInv'
<1>1. CaptureOK' BY DEF CaptureInv, CaptureOK, Sample, Unknown, ghosts
<1>2. Numbered' BY DEF CaptureInv, Numbered, CaptureOK, Captures, Sample, Unknown, ghosts
<1>3. Unclaimed'
  BY DEF CaptureInv, Unclaimed, Numbered, CaptureOK, Captures, Working, Sample, Unknown, ghosts
<1>4. Claimed' BY DEF CaptureInv, Claimed, Numbered, CaptureOK, Sample, Unknown, ghosts
<1>5. Noticed' BY DEF CaptureInv, Noticed, Numbered, CaptureOK, Sample, Unknown, ghosts
<1>6. Returning'
  BY DEF CaptureInv, Returning, Numbered, CaptureOK, Captures, Sample, Unknown, ghosts
<1> QED BY <1>1, <1>2, <1>3, <1>4, <1>5, <1>6 DEF CaptureInv

LEMMA DeliverProof == ASSUME CaptureInv, Deliver PROVE CaptureInv'
<1>1. CaptureOK' BY DEF CaptureInv, CaptureOK, Deliver, Unknown, ghosts
<1>2. Numbered' BY DEF CaptureInv, Numbered, CaptureOK, Captures, Deliver, Unknown, ghosts
<1>3. Unclaimed'
  BY DEF CaptureInv, Unclaimed, Numbered, CaptureOK, Captures, Working, Deliver, Unknown, ghosts
<1>4. Claimed' BY DEF CaptureInv, Claimed, Numbered, CaptureOK, Deliver, Unknown, ghosts
<1>5. Noticed' BY DEF CaptureInv, Noticed, Numbered, CaptureOK, Deliver, Unknown, ghosts
<1>6. Returning'
  BY DEF CaptureInv, Returning, Numbered, CaptureOK, Captures, Deliver, Unknown, ghosts
<1> QED BY <1>1, <1>2, <1>3, <1>4, <1>5, <1>6 DEF CaptureInv

----------------------------------------
LEMMA CaptureNextProof == ASSUME CaptureInv, [CaptureNext]_captureVars PROVE CaptureInv'
<1>1. CASE Thread
  BY <1>1, PreserveProof, VerifyProof, VerifyFailsProof, SendProof, WaitProof, ReadProof,
     CheckProof, SetProof, SetRefusedProof, RetargetProof, FlushProof, LeaveProof DEF Thread
<1>2. CASE HandOver \/ CopyLands \/ CopyEnds \/ UserCopies \/ Sample \/ Deliver
  BY <1>2, HandOverProof, CopyLandsProof, CopyEndsProof, UserCopiesProof, SampleProof,
     DeliverProof
<1>3. CASE UNCHANGED captureVars
  BY <1>3 DEF captureVars, CaptureInv, CaptureOK, Numbered, Unclaimed, Claimed, Noticed,
       Returning, Working
<1> QED BY <1>1, <1>2, <1>3 DEF CaptureNext

\* A capture gives the clipboard back as the user left it, whichever calls fail and whoever writes
\* the clipboard between two of its calls (ClipboardTransaction of clipboard_selection.rs), and
\* the history lists what the user copied and nothing of the capture (transient.rs).
THEOREM CaptureIsTraceless == CaptureSpec => []CaptureLeavesNoTrace
<1>1. CaptureInit => CaptureInv BY CaptureInitProof
<1>2. CaptureInv /\ [CaptureNext]_captureVars => CaptureInv' BY CaptureNextProof
<1> QED BY <1>1, <1>2, Consequence, PTL DEF CaptureSpec

----------------------------------------
(***************************************************************************)
(* The clipboard history.  HistoryInv says what the state consists of and   *)
(* that nothing happens before the file was read; FollowInv what is in the  *)
(* queue of the storage thread, and ClickInv who answers a click.           *)
(***************************************************************************)
Entry    == [id : Nat, text : ClipTexts]
Saves    == [kind : {"save"}, revision : Nat, entries : Seq(Entry)]
Clicks   == [kind : {"copy", "paste"}, session : Nat, request : Nat, entry : Entry]
IoJobs   == {LoadJob, StopJob} \cup Saves \cup [kind : {"recording"}, on : BOOLEAN]
Crew     == [session : Nat, request : Nat, entry : Entry,
             stage : {"started", "captured", "written", "pasted", "failed", "writing"}]
Lists    == [entries : Seq(Entry), loaded : BOOLEAN, recording : BOOLEAN,
             storageFailed : BOOLEAN, revision : Nat, nextEntry : Nat]
Copied   == UNION {[ids -> [request : Nat, pending : BOOLEAN]] : ids \in SUBSET Nat}
Windows  == [id : Nat, pinned : BOOLEAN, busy : BOOLEAN, request : Nat, copy : Copied]
Storages == [at : {"idle", "writing", "stopped"}, revision : Nat, entries : Seq(Entry),
             success : BOOLEAN]

HistoryTypeOK ==
    /\ history \in Lists /\ session \in Windows /\ nextSession \in Nat
    /\ enabled \in BOOLEAN /\ limit \in Limits /\ permitted \in BOOLEAN
    /\ shuttingDown \in BOOLEAN /\ monitor \in BOOLEAN /\ cleared \in BOOLEAN
    /\ io \in Seq(IoJobs) /\ storage \in Storages
    /\ samples \subseteq ClipTexts
    /\ pending \in [HistoryThreads -> {NoCommand} \cup Saves \cup Clicks]
    /\ pastes \subseteq Crew /\ copies \subseteq Crew

\* Nothing is recorded, shown or written before the file was read.
NotLoaded ==
    ~history.loaded =>
        /\ io # <<>> /\ io[1] = LoadJob /\ storage.at = "idle" /\ listFile \in Files
        /\ history.entries = <<>> /\ ~history.storageFailed /\ history.nextEntry = 0
        /\ pastes = {} /\ copies = {} /\ DOMAIN session.copy = {}
        /\ \A thread \in HistoryThreads : pending[thread] \notin Clicks
LoadOnce == \A i \in DOMAIN io : io[i].kind = "load" => i = 1 /\ ~history.loaded

HistoryInv == HistoryTypeOK /\ NotLoaded /\ LoadOnce

----------------------------------------
\* The saves that are queued or on their way to the queue.
Waiting(queue, commands) ==
    {save \in Saves : \/ \E i \in DOMAIN queue : queue[i] = save
                      \/ \E thread \in HistoryThreads : commands[thread] = save}

\* What is written, or will be, is a list that was loaded or cleared.
Justified == cleared \/ (history.loaded /\ ~history.storageFailed)
Writable  == (storage.at = "writing" \/ Waiting(io, pending) # {}) => Justified

----------------------------------------
\* A save of the last revision has the list as it is.
SaveOK(save) ==
    /\ save.revision \in 1..history.revision
    /\ save.revision = history.revision => save.entries = history.entries
SavesKnown ==
    /\ \A save \in Waiting(io, pending) : SaveOK(save)
    /\ storage.at = "writing" => SaveOK(storage)
    /\ storage.revision <= history.revision
    /\ ~history.loaded => history.revision = 0

\* The last revision is on its way to the file or was taken from the queue, and what was taken
\* last is the list in the file, unless it is being written or the write failed.
LatestKept ==
    history.loaded /\ ~history.storageFailed =>
        /\ \/ storage.revision = history.revision
           \/ \E save \in Waiting(io, pending) : save.revision = history.revision
        /\ storage.revision = history.revision /\ storage.at # "writing" /\ storage.success =>
              listFile = history.entries

\* The last job about recording says what the settings allow; without one the monitor agrees.
QueueAgrees(queue, asked, on) ==
    /\ \A i \in DOMAIN queue : queue[i].kind # "stop"
    /\ \A i \in DOMAIN queue :
          /\ queue[i].kind = "recording"
          /\ \A j \in DOMAIN queue : j > i => queue[j].kind # "recording"
          => (queue[i].on <=> asked)
    /\ (\A i \in DOMAIN queue : queue[i].kind # "recording") => (on => asked)
RecordingFollows ==
    ~shuttingDown =>
        /\ permitted <=> (history.loaded /\ enabled)
        /\ history.recording <=> monitor
        /\ QueueAgrees(io, permitted, monitor)

FollowInv == SavesKnown /\ LatestKept /\ RecordingFollows

----------------------------------------
\* The commands and workers of one kind, and the entries that were clicked.
Ordered(commands, workers, kind) ==
    workers \cup {c \in Clicks : c.kind = kind /\ \E t \in HistoryThreads : commands[t] = c}
Named(commands, pasting, copying) ==
    {w.entry : w \in Ordered(commands, pasting, "paste") \cup Ordered(commands, copying, "copy")}

\* Numbers are those given so far, each names one entry, and that entry is the clicked one.
IdsAgree(entries, given, named) ==
    /\ \A i \in DOMAIN entries : entries[i].id <= given
    /\ \A i, j \in DOMAIN entries : entries[i].id = entries[j].id => i = j
    /\ \A e \in named : e.id <= given
                        /\ \A i \in DOMAIN entries : entries[i].id = e.id => entries[i] = e

\* The window remembers copies of entries that are listed, and waits for work that is under way.
CopiesListed(s, entries) == \A id \in DOMAIN s.copy : Holds(entries, id)
PasteAwaited(s, commands, workers) ==
    s.busy => \E w \in Ordered(commands, workers, "paste") :
                  w.session = s.id /\ w.request = s.request
CopiesAwaited(s, commands, workers) ==
    \A id \in DOMAIN s.copy : s.copy[id].pending =>
        \E w \in Ordered(commands, workers, "copy") :
            w.session = s.id /\ w.request = s.copy[id].request /\ w.entry.id = id

ClickInv ==
    /\ IdsAgree(history.entries, history.nextEntry, Named(pending, pastes, copies))
    /\ CopiesListed(session, history.entries)
    /\ shuttingDown \/ PasteAwaited(session, pending, pastes)
    /\ CopiesAwaited(session, pending, copies)

----------------------------------------
(* Numbers and sequences.                                                    *)

LEMMA LeastNumber == ASSUME NEW S \in SUBSET Nat, S # {} PROVE \E n \in S : \A m \in S : n <= m
<1> DEFINE R == {ss \in Nat \X Nat : ss[1] < ss[2]}
<1>1. R = OpToRel(<, Nat) BY DEF OpToRel
<1>2. IsWellFoundedOn(R, Nat) BY <1>1, NatLessThanWellFounded
<1>3. \A y, x \in Nat : y < x => <<y, x>> \in R OBVIOUS
<1> HIDE DEF R
<1>4. PICK x \in S : \A y \in S : ~ (<<y, x>> \in R) BY <1>2, WFMin
<1>5. \A m \in S : m \in Nat /\ x \in Nat OBVIOUS
<1>6. \A m \in S : ~ (m < x) BY <1>3, <1>4, <1>5
<1>7. \A m \in S : x <= m BY <1>5, <1>6
<1> QED BY <1>7

\* The numbers of a sequence have a bound, and with one more number a largest.
LEMMA LargestNumber ==
    ASSUME NEW s, NEW len \in Nat, \A i \in 1..len : s[i] \in Nat, NEW k \in Nat
    PROVE  \E n \in {k} \cup {s[i] : i \in 1..len} :
               n >= k /\ \A i \in 1..len : n >= s[i]
<1> DEFINE Bounds(p) == {b \in Nat : b >= k /\ \A i \in 1..p : b >= s[i]}
           Unbounded == {p \in 0..len : Bounds(p) = {}}
<1>1. Unbounded = {}
  <2>1. SUFFICES ASSUME Unbounded # {} PROVE FALSE OBVIOUS
  <2>2. PICK p \in Unbounded : \A q \in Unbounded : p <= q
    <3>1. Unbounded \in SUBSET Nat OBVIOUS
    <3> HIDE DEF Unbounded
    <3> QED BY <2>1, <3>1, LeastNumber
  <2>3. k \in Bounds(0) OBVIOUS
  <2>4. p # 0 BY <2>2, <2>3
  <2>5. p - 1 \in 0..len /\ p - 1 \notin Unbounded
    <3>1. p \in 0..len OBVIOUS
    <3>2. p - 1 \in 0..len /\ ~ (p <= p - 1) BY <3>1, <2>4
    <3> HIDE DEF Unbounded
    <3> QED BY <3>2, <2>2
  <2>6. PICK b : b \in Bounds(p - 1) BY <2>5
  <2>7. p \in 1..len /\ s[p] \in Nat BY <2>2, <2>4
  <2>8. b \in Bounds(p) \/ s[p] \in Bounds(p)
    <3>1. \A i \in 1..p : i = p \/ i \in 1..(p - 1) BY <2>7
    <3>2. b \in Nat /\ b >= k /\ \A i \in 1..(p - 1) : b >= s[i] BY <2>6
    <3>3. \A i \in 1..p : s[i] \in Nat BY <2>7
    <3>4. CASE b >= s[p] BY <3>1, <3>2, <3>4
    <3>5. CASE ~ (b >= s[p])
      <4>1. s[p] >= b BY <3>2, <3>5, <2>7
      <4>2. \A i \in 1..p : s[p] >= s[i] BY <3>1, <3>2, <3>3, <4>1, <2>7
      <4> QED BY <4>1, <4>2, <3>2, <2>7
    <3> QED BY <3>4, <3>5
  <2> QED BY <2>2, <2>8
<1>2. Bounds(len) \in SUBSET Nat /\ Bounds(len) # {}
  <2>1. len \in 0..len OBVIOUS
  <2> QED BY <1>1, <2>1
<1>3. PICK n \in Bounds(len) : \A m \in Bounds(len) : n <= m
  <2> HIDE DEF Bounds
  <2> QED BY <1>2, LeastNumber
<1>4. n \in Nat /\ n >= k /\ \A i \in 1..len : n >= s[i] BY <1>3
<1>5. n = k \/ \E i \in 1..len : n = s[i]
  <2>1. SUFFICES ASSUME n # k, \A i \in 1..len : n # s[i] PROVE FALSE OBVIOUS
  <2>2. n - 1 \in Nat /\ n - 1 >= k BY <1>4, <2>1
  <2>3. \A i \in 1..len : n - 1 >= s[i] BY <1>4, <2>1
  <2>4. n - 1 \in Bounds(len) BY <2>2, <2>3
  <2> QED BY <1>3, <1>4, <2>4
<1> QED BY <1>4, <1>5

LEMMA EmptyCopies == <<>> \in Copied /\ DOMAIN <<>> = {}
<1>1. <<>> \in [{} -> [request : Nat, pending : BOOLEAN]] OBVIOUS
<1>2. {} \in SUBSET Nat OBVIOUS
<1> QED BY <1>1, <1>2 DEF Copied

LEMMA TrimProof ==
    ASSUME NEW S, NEW s \in Seq(S), NEW n \in Nat
    PROVE  /\ Trim(s, n) \in Seq(S)
           /\ Len(Trim(s, n)) <= Len(s)
           /\ \A i \in DOMAIN Trim(s, n) : i \in DOMAIN s /\ Trim(s, n)[i] = s[i]
<1>1. PICK m \in Nat : m = (IF Len(s) > n THEN n ELSE Len(s)) /\ m <= Len(s) OBVIOUS
<1>2. Trim(s, n) = SubSeq(s, 1, m) BY <1>1 DEF Trim
<1> QED BY <1>1, <1>2

LEMMA RetainedProof ==
    ASSUME NEW S, NEW s \in Seq(S), NEW places \in SUBSET DOMAIN s, NEW r \in Retained(s, places)
    PROVE  /\ r \in Seq(S)
           /\ \A i \in DOMAIN r : \E p \in places : r[i] = s[p]
           /\ \A i, j \in DOMAIN r : i # j => \E p, q \in places :
                     p # q /\ r[i] = s[p] /\ r[j] = s[q]
           /\ \A i \in DOMAIN r : r[i] \in {s[p] : p \in places}
           /\ \A p \in places : \E i \in DOMAIN r : r[i] = s[p]
<1>1. Cardinality(places) \in Nat /\ IsFiniteSet(places)
  <2>1. IsFiniteSet(1..Len(s)) BY FS_Interval
  <2>2. IsFiniteSet(places) BY <2>1, FS_Subset
  <2> QED BY <2>2, FS_CardinalityType
<1>2. PICK t \in [1..Cardinality(places) -> places] :
         /\ \A i, j \in DOMAIN t : i < j => t[i] < t[j]
         /\ r = [i \in DOMAIN t |-> s[t[i]]]
  BY DEF Retained
<1>3. DOMAIN r = 1..Cardinality(places) /\ \A i \in DOMAIN r : t[i] \in places /\ r[i] = s[t[i]]
  BY <1>2
<1>4. \A i \in DOMAIN r : r[i] \in S BY <1>3
<1>5. r \in Seq(S)
  <2>1. r \in [1..Cardinality(places) -> S] BY <1>2, <1>3, <1>4
  <2> QED BY <1>1, <2>1
<1>6. \A i, j \in DOMAIN r : i # j => t[i] # t[j]
  <2>1. \A i, j \in DOMAIN r : i < j => t[i] < t[j] BY <1>2, <1>3
  <2>2. places \subseteq Int OBVIOUS
  <2> QED BY <1>1, <1>3, <2>1, <2>2
<1>7. ASSUME NEW p \in places PROVE \E i \in DOMAIN r : r[i] = s[p]
  <2> DEFINE n == Cardinality(places)
  <2>1. SUFFICES ASSUME \A i \in 1..n : t[i] # p PROVE FALSE BY <1>3
  <2>2. t \in [1..n -> places \ {p}] BY <1>2, <2>1
  <2>3. IsFiniteSet(places \ {p}) /\ Cardinality(places \ {p}) = n - 1 BY <1>1, FS_RemoveElement
  <2>4. IsFiniteSet(1..n) /\ Cardinality(1..n) = n BY <1>1, FS_Interval
  <2>5. Cardinality(places \ {p}) < Cardinality(1..n) BY <1>1, <2>3, <2>4
  <2>6. PICK i, j \in 1..n : i # j /\ t[i] = t[j]
    <3> HIDE DEF n
    <3> QED BY <2>2, <2>3, <2>4, <2>5, FS_PigeonHole
  <2> QED BY <1>3, <1>6, <2>6
<1> QED BY <1>3, <1>5, <1>6, <1>7

LEMMA KeepProof ==
    ASSUME NEW s \in Windows, NEW entries
    PROVE  /\ KeepCopies(s, entries) \in Windows
           /\ KeepCopies(s, entries) = [s EXCEPT !.copy = KeepCopies(s, entries).copy]
           /\ DOMAIN KeepCopies(s, entries).copy \subseteq DOMAIN s.copy
           /\ \A id \in DOMAIN KeepCopies(s, entries).copy :
                 Holds(entries, id) /\ KeepCopies(s, entries).copy[id] = s.copy[id]
<1> DEFINE ids == {i \in DOMAIN s.copy : Holds(entries, i)}
           kept == [id \in ids |-> s.copy[id]]
<1>1. PICK all \in SUBSET Nat : s.copy \in [all -> [request : Nat, pending : BOOLEAN]]
  BY DEF Windows, Copied
<1>2. kept \in [ids -> [request : Nat, pending : BOOLEAN]] /\ ids \in SUBSET Nat BY <1>1
<1>3. kept \in Copied BY <1>2 DEF Copied
<1>4. KeepCopies(s, entries) = [s EXCEPT !.copy = kept] BY DEF KeepCopies
<1>5. DOMAIN kept = ids /\ \A id \in ids : kept[id] = s.copy[id] OBVIOUS
<1> HIDE DEF kept
<1>6. [s EXCEPT !.copy = kept] \in Windows /\ [s EXCEPT !.copy = kept].copy = kept
  BY <1>3 DEF Windows
<1> QED BY <1>4, <1>5, <1>6

----------------------------------------
(* What every step keeps: types, and that nothing precedes the load.         *)

\* A transition may add a job about recording to the queue, and nothing else.
LEMMA TransitionProof ==
    ASSUME HistoryTypeOK, NEW h \in Lists, NEW s, NEW on \in BOOLEAN, NEW jobs \in Seq(IoJobs),
           Transition(h, s, on, jobs)
    PROVE  /\ history' = h /\ session' = s /\ enabled' = on /\ permitted' \in BOOLEAN
           /\ io' \in Seq(IoJobs)
           /\ \A i \in DOMAIN jobs : i \in DOMAIN io' /\ io'[i] = jobs[i]
           /\ \A i \in DOMAIN io' : i \in DOMAIN jobs \/ io'[i].kind = "recording"
<1> DEFINE wanted == h.loaded /\ on
<1>1. wanted \in BOOLEAN BY DEF Lists
<1>2. history' = h /\ session' = s /\ enabled' = on BY DEF Transition
<1>3. CASE shuttingDown \/ permitted = wanted
  <2>1. io' = jobs /\ permitted' = permitted BY <1>3 DEF Transition
  <2> QED BY <1>2, <2>1 DEF HistoryTypeOK
<1>4. CASE ~ (shuttingDown \/ permitted = wanted)
  <2>1. io' = Append(jobs, RecordingJob(wanted)) /\ permitted' = wanted BY <1>4 DEF Transition
  <2>2. RecordingJob(wanted) \in IoJobs /\ RecordingJob(wanted).kind = "recording"
    BY <1>1 DEF RecordingJob, IoJobs
  <2> HIDE DEF wanted
  <2>3. io' \in Seq(IoJobs) /\ Len(io') = Len(jobs) + 1 BY <2>1, <2>2
  <2>4. \A i \in DOMAIN jobs : i \in DOMAIN io' /\ io'[i] = jobs[i] BY <2>1, <2>2
  <2>5. \A i \in DOMAIN io' : i \in DOMAIN jobs \/ io'[i].kind = "recording" BY <2>1, <2>2
  <2> QED BY <1>1, <1>2, <2>1, <2>3, <2>4, <2>5
<1> QED BY <1>3, <1>4

LEMMA TransitionQueue ==
    ASSUME HistoryTypeOK, history' \in Lists, NEW jobs \in Seq(IoJobs),
           Transition(history', session', enabled, jobs)
    PROVE  /\ enabled' = enabled /\ permitted' \in BOOLEAN /\ io' \in Seq(IoJobs)
           /\ \A i \in DOMAIN jobs : i \in DOMAIN io' /\ io'[i] = jobs[i]
           /\ \A i \in DOMAIN io' : i \in DOMAIN jobs \/ io'[i].kind = "recording"
<1>1. PICK h \in Lists : h = history' OBVIOUS
<1> PICK s : s = session' OBVIOUS
<1>2. enabled \in BOOLEAN BY DEF HistoryTypeOK
<1>3. Transition(h, s, enabled, jobs) BY <1>1
<1> QED BY <1>2, <1>3, TransitionProof

\* What happens before the load, and does not touch its job, leaves everything empty.
LEMMA GrowthProof ==
    ASSUME HistoryInv, HistoryTypeOK',
           history'.loaded <=> history.loaded,
           \A i \in DOMAIN io : i \in DOMAIN io' /\ io'[i] = io[i],
           \A i \in DOMAIN io' : i \in DOMAIN io \/ io'[i].kind # "load",
           history.loaded \/
              /\ storage' = storage /\ listFile' = listFile
              /\ history'.entries = <<>> /\ ~history'.storageFailed /\ history'.nextEntry = 0
              /\ pastes' = {} /\ copies' = {} /\ DOMAIN session'.copy = {}
              /\ \A thread \in HistoryThreads : pending'[thread] \notin Clicks
    PROVE  HistoryInv'
<1>1. LoadOnce' BY DEF HistoryInv, LoadOnce
<1>2. NotLoaded'
  <2>1. SUFFICES ASSUME ~history'.loaded
        PROVE  io' # <<>> /\ io'[1] = LoadJob /\ storage'.at = "idle" /\ listFile' \in Files
    BY <2>1 DEF NotLoaded
  <2>2. io # <<>> /\ io[1] = LoadJob /\ storage.at = "idle" /\ listFile \in Files
    BY <2>1 DEF HistoryInv, NotLoaded
  <2>3. 1 \in DOMAIN io BY <2>2 DEF HistoryInv, HistoryTypeOK
  <2>4. 1 \in DOMAIN io' /\ io'[1] = LoadJob BY <2>2, <2>3
  <2>5. io' # <<>> BY <2>4 DEF HistoryTypeOK
  <2> QED BY <2>1, <2>2, <2>4, <2>5
<1> QED BY <1>1, <1>2 DEF HistoryInv

LEMMA CommandKinds ==
    /\ \A c \in Saves : c.kind = "save" /\ c \notin Clicks /\ c # NoCommand
    /\ \A c \in Clicks : c.kind \in {"copy", "paste"} /\ c # NoCommand
    /\ NoCommand.kind = "none" /\ NoCommand \notin Clicks /\ NoCommand \notin Saves
    /\ \A j \in IoJobs : /\ j.kind \in {"load", "stop", "save", "recording"}
                         /\ j.kind = "load" => j = LoadJob
                         /\ j.kind = "save" => j \in Saves
                         /\ j.kind = "recording" => j.on \in BOOLEAN
<1>1. \A c \in Saves : c.kind = "save" BY DEF Saves
<1>2. \A c \in Clicks : c.kind \in {"copy", "paste"} BY DEF Clicks
<1>3. NoCommand.kind = "none" /\ LoadJob.kind = "load" /\ StopJob.kind = "stop"
  BY DEF NoCommand, LoadJob, StopJob
<1>4. \A j \in [kind : {"recording"}, on : BOOLEAN] : j.kind = "recording" /\ j.on \in BOOLEAN
  OBVIOUS
<1> QED BY <1>1, <1>2, <1>3, <1>4 DEF IoJobs

LEMMA SaveOfProof ==
    ASSUME NEW h \in Lists
    PROVE  /\ SaveOf(h) \in {NoCommand} \cup Saves
           /\ SaveOf(h) \notin Clicks
           /\ SaveOf(h).kind = "save" => /\ ~h.storageFailed
                                         /\ SaveOf(h).revision = h.revision
                                         /\ SaveOf(h).entries = h.entries
           /\ ~h.storageFailed => SaveOf(h).kind = "save"
<1>1. CASE h.storageFailed BY <1>1, CommandKinds DEF SaveOf
<1>2. CASE ~h.storageFailed
  <2>1. SaveOf(h) = [kind |-> "save", revision |-> h.revision, entries |-> h.entries]
    BY <1>2 DEF SaveOf, SaveJob
  <2>2. SaveOf(h) \in Saves BY <2>1 DEF Saves, Lists
  <2> QED BY <1>2, <2>1, <2>2, CommandKinds
<1> QED BY <1>1, <1>2

LEMMA RevisedProof ==
    ASSUME NEW h \in Lists
    PROVE  /\ Revised(h) \in Lists /\ Revised(h).revision = h.revision + 1
           /\ Revised(h).entries = h.entries /\ Revised(h).nextEntry = h.nextEntry
           /\ Revised(h).loaded = h.loaded /\ Revised(h).storageFailed = h.storageFailed
           /\ Revised(h).recording = h.recording
  BY DEF Revised, Lists

LEMMA IssueProof ==
    ASSUME HistoryTypeOK, NEW thread \in HistoryThreads,
           NEW c \in {NoCommand} \cup Saves \cup Clicks, Issue(thread, c)
    PROVE  /\ pending' \in [HistoryThreads -> {NoCommand} \cup Saves \cup Clicks]
           /\ pending'[thread] = c
           /\ \A t \in HistoryThreads : t # thread => pending'[t] = pending[t]
  BY DEF HistoryTypeOK, Issue

LEMMA RecordedProof ==
    ASSUME NEW list \in Lists, NEW text \in ClipTexts, NEW n \in Nat,
           NEW h \in Recorded(list, text, n)
    PROVE  /\ h \in Lists /\ h.revision = list.revision + 1 /\ h.loaded = list.loaded
           /\ h.storageFailed = list.storageFailed /\ h.recording = list.recording
           /\ \E known \in SUBSET DOMAIN list.entries :
              /\ known = {i \in DOMAIN list.entries : list.entries[i].text = text}
              /\ h.nextEntry = IF known = {} THEN list.nextEntry + 1 ELSE list.nextEntry
              /\ \E rest \in Retained(list.entries, DOMAIN list.entries \ known), id \in Nat :
                 /\ IF known = {} THEN id = list.nextEntry + 1
                    ELSE \E p \in known : id = list.entries[p].id
                 /\ h.entries = Trim(<<[id |-> id, text |-> text]>> \o rest, n)
<1> DEFINE known == {i \in DOMAIN list.entries : list.entries[i].text = text}
           id == IF known = {} THEN list.nextEntry + 1
                 ELSE list.entries[CHOOSE i \in known : TRUE].id
<1>1. PICK rest \in Retained(list.entries, DOMAIN list.entries \ known) :
         h = Revised([list EXCEPT !.entries = Trim(<<[id |-> id, text |-> text]>> \o rest, n),
                                  !.nextEntry = IF known = {} THEN @ + 1 ELSE @])
  BY DEF Recorded
<1>2. list.entries \in Seq(Entry) /\ list.nextEntry \in Nat BY DEF Lists
<1>3. \A p \in DOMAIN list.entries : list.entries[p].id \in Nat
  <2>1. \A p \in DOMAIN list.entries : list.entries[p] \in Entry BY <1>2
  <2> QED BY <2>1 DEF Entry
<1>4. known = {} \/ (CHOOSE i \in known : TRUE) \in known OBVIOUS
<1>5. id \in Nat /\ IF known = {} THEN id = list.nextEntry + 1
                    ELSE \E p \in known : id = list.entries[p].id
  <2>1. CASE known = {}
    <3> HIDE DEF known
    <3> QED BY <2>1, <1>2
  <2>2. CASE known # {}
    <3>1. PICK p \in known : p = CHOOSE i \in known : TRUE BY <1>4, <2>2
    <3>2. id = list.entries[p].id BY <2>2, <3>1
    <3>3. list.entries[p].id \in Nat BY <1>3
    <3> HIDE DEF known, id
    <3> QED BY <2>2, <3>2, <3>3
  <2> QED BY <2>1, <2>2
<1>6. rest \in Seq(Entry)
  <2>1. DOMAIN list.entries \ known \in SUBSET DOMAIN list.entries OBVIOUS
  <2> HIDE DEF known
  <2> QED BY <1>2, <2>1, RetainedProof
<1> HIDE DEF id
<1>7. <<[id |-> id, text |-> text]>> \o rest \in Seq(Entry)
  <2>1. [id |-> id, text |-> text] \in Entry BY <1>5 DEF Entry
  <2> QED BY <2>1, <1>6
<1> DEFINE entries == Trim(<<[id |-> id, text |-> text]>> \o rest, n)
           next == IF known = {} THEN list.nextEntry + 1 ELSE list.nextEntry
           given == [list EXCEPT !.entries = entries, !.nextEntry = next]
<1>8. entries \in Seq(Entry) /\ next \in Nat
  <2>1. next \in Nat BY <1>2
  <2>2. entries \in Seq(Entry) BY <1>7, TrimProof
  <2> QED BY <2>1, <2>2
<1>9. h = Revised(given) BY <1>1
<1> HIDE DEF entries, next
<1>10. /\ given \in Lists /\ given.entries = entries /\ given.nextEntry = next
       /\ given.loaded = list.loaded /\ given.storageFailed = list.storageFailed
       /\ given.recording = list.recording /\ given.revision = list.revision
  BY <1>8 DEF Lists
<1> HIDE DEF given
<1>11. /\ h \in Lists /\ h.revision = list.revision + 1 /\ h.loaded = list.loaded
       /\ h.storageFailed = list.storageFailed /\ h.recording = list.recording
       /\ h.entries = entries /\ h.nextEntry = next
  BY <1>9, <1>10, RevisedProof
<1>12. known \in SUBSET DOMAIN list.entries OBVIOUS
<1>13. /\ h.nextEntry = (IF known = {} THEN list.nextEntry + 1 ELSE list.nextEntry)
       /\ h.entries = Trim(<<[id |-> id, text |-> text]>> \o rest, n)
  BY <1>11 DEF entries, next
<1>14. known = {i \in DOMAIN list.entries : list.entries[i].text = text} OBVIOUS
<1> HIDE DEF known
<1> QED BY <1>5, <1>11, <1>12, <1>13, <1>14

----------------------------------------
LEMMA InitKept == ASSUME HistoryInit PROVE HistoryInv
<1>1. HistoryTypeOK
  <2>1. NoCommand \in {NoCommand} \cup Saves \cup Clicks /\ LoadJob \in IoJobs BY DEF IoJobs
  <2>2. history \in Lists /\ storage \in Storages BY DEF HistoryInit, Lists, Storages
  <2>3. session \in Windows BY EmptyCopies DEF HistoryInit, NoSession, Windows
  <2>4. pending \in [HistoryThreads -> {NoCommand} \cup Saves \cup Clicks] /\ io \in Seq(IoJobs)
    BY <2>1 DEF HistoryInit
  <2> QED BY <2>2, <2>3, <2>4 DEF HistoryInit, HistoryTypeOK
<1>2. NotLoaded
  <2>1. DOMAIN session.copy = {} BY EmptyCopies DEF HistoryInit, NoSession
  <2>2. \A thread \in HistoryThreads : pending[thread] \notin Clicks BY CommandKinds DEF HistoryInit
  <2> QED BY <2>1, <2>2 DEF HistoryInit, NotLoaded
<1>3. LoadOnce BY DEF HistoryInit, LoadOnce
<1> QED BY <1>1, <1>2, <1>3 DEF HistoryInv

LEMMA SampleKept == ASSUME HistoryInv, NEW text \in ClipTexts, SampleText(text) PROVE HistoryInv'
<1>1. HistoryTypeOK' BY DEF HistoryInv, HistoryTypeOK, SampleText, reducer, workerVars
<1> QED BY <1>1 DEF HistoryInv, NotLoaded, LoadOnce, SampleText, reducer, workerVars

LEMMA CapturedKept == ASSUME HistoryInv, NEW text \in ClipTexts, Captured(text) PROVE HistoryInv'
<1>1. CASE history.loaded /\ enabled
  <2>1. PICK h \in Recorded(history, text, limit) :
           /\ Transition(h, KeepCopies(session, h.entries), enabled, io)
           /\ Issue("monitor", SaveOf(h))
    BY <1>1 DEF Captured
  <2>2. limit \in Nat /\ history \in Lists /\ io \in Seq(IoJobs) /\ enabled \in BOOLEAN
    BY LimitsAssumption DEF HistoryInv, HistoryTypeOK
  <2>3. h \in Lists /\ h.loaded = history.loaded BY <2>2, RecordedProof
  <2>4. KeepCopies(session, h.entries) \in Windows BY KeepProof DEF HistoryInv, HistoryTypeOK
  <2>5. SaveOf(h) \in {NoCommand} \cup Saves \cup Clicks /\ "monitor" \in HistoryThreads
    BY <2>3, SaveOfProof DEF HistoryThreads
  <2>6. pending' \in [HistoryThreads -> {NoCommand} \cup Saves \cup Clicks]
    BY <2>1, <2>5, IssueProof DEF HistoryInv
  <2>7. /\ history' = h /\ session' \in Windows /\ enabled' = enabled /\ permitted' \in BOOLEAN
        /\ io' \in Seq(IoJobs)
        /\ \A i \in DOMAIN io : i \in DOMAIN io' /\ io'[i] = io[i]
        /\ \A i \in DOMAIN io' : i \in DOMAIN io \/ io'[i].kind = "recording"
    BY ZenonT(60), <2>1, <2>2, <2>3, <2>4, TransitionProof DEF HistoryInv
  <2>8. HistoryTypeOK' BY <2>3, <2>6, <2>7 DEF HistoryInv, HistoryTypeOK, Captured, workerVars
  <2> QED BY <1>1, <2>3, <2>7, <2>8, GrowthProof
<1>2. CASE ~ (history.loaded /\ enabled)
  <2>1. Transition(history, session, enabled, io) /\ pending' = pending BY <1>2 DEF Captured
  <2>2. /\ history' = history /\ session' = session /\ enabled' = enabled /\ permitted' \in BOOLEAN
        /\ io' \in Seq(IoJobs)
        /\ \A i \in DOMAIN io : i \in DOMAIN io' /\ io'[i] = io[i]
        /\ \A i \in DOMAIN io' : i \in DOMAIN io \/ io'[i].kind = "recording"
    <3>1. history \in Lists /\ enabled \in BOOLEAN /\ io \in Seq(IoJobs)
      BY DEF HistoryInv, HistoryTypeOK
    <3> QED BY <2>1, <3>1, TransitionProof DEF HistoryInv
  <2>3. HistoryTypeOK' BY <2>1, <2>2 DEF HistoryInv, HistoryTypeOK, Captured, workerVars
  <2>4. storage' = storage /\ listFile' = listFile /\ pastes' = pastes /\ copies' = copies
    BY DEF Captured, workerVars
  <2> QED BY <2>1, <2>2, <2>3, <2>4, GrowthProof DEF HistoryInv, NotLoaded
<1> QED BY <1>1, <1>2

\* A transition of the window, the settings or the monitor that leaves the list alone.
LEMMA TurnKept ==
    ASSUME HistoryInv, NEW s \in Windows, NEW on \in BOOLEAN, Transition(history, s, on, io),
           history.loaded \/ DOMAIN s.copy = {},
           pending' \in [HistoryThreads -> {NoCommand} \cup Saves \cup Clicks],
           history.loaded \/ pending' = pending,
           pastes' \subseteq pastes, copies' \subseteq copies, nextSession' \in Nat,
           UNCHANGED <<limit, shuttingDown, storage, listFile, monitor, samples, cleared>>
    PROVE  HistoryInv'
<1>1. /\ history' = history /\ session' = s /\ enabled' = on /\ permitted' \in BOOLEAN
      /\ io' \in Seq(IoJobs)
      /\ \A i \in DOMAIN io : i \in DOMAIN io' /\ io'[i] = io[i]
      /\ \A i \in DOMAIN io' : i \in DOMAIN io \/ io'[i].kind = "recording"
  BY TransitionProof DEF HistoryInv, HistoryTypeOK
<1>2. HistoryTypeOK' BY <1>1 DEF HistoryInv, HistoryTypeOK
<1>3. history.loaded \/
              /\ storage' = storage /\ listFile' = listFile
              /\ history'.entries = <<>> /\ ~history'.storageFailed /\ history'.nextEntry = 0
              /\ pastes' = {} /\ copies' = {} /\ DOMAIN session'.copy = {}
              /\ \A thread \in HistoryThreads : pending'[thread] \notin Clicks
  BY <1>1 DEF HistoryInv, NotLoaded
<1> QED BY <1>1, <1>2, <1>3, GrowthProof

LEMMA SwitchKept == ASSUME HistoryInv, SwitchRecording PROVE HistoryInv'
<1>1. history.loaded \/ DOMAIN session.copy = {} BY DEF HistoryInv, NotLoaded
<1>2. session \in Windows /\ (~enabled) \in BOOLEAN /\ nextSession \in Nat
      /\ pending \in [HistoryThreads -> {NoCommand} \cup Saves \cup Clicks]
  BY DEF HistoryInv, HistoryTypeOK
<1> QED BY <1>1, <1>2, TurnKept DEF SwitchRecording, workerVars

LEMMA EmptyWindow ==
    /\ NoSession \in Windows /\ DOMAIN NoSession.copy = {}
    /\ \A id \in Nat : /\ [NoSession EXCEPT !.id = id] \in Windows
                       /\ DOMAIN [NoSession EXCEPT !.id = id].copy = {}
  BY EmptyCopies DEF NoSession, Windows

LEMMA OpenKept == ASSUME HistoryInv, OpenHistory PROVE HistoryInv'
<1>1. nextSession' \in Nat /\ enabled \in BOOLEAN
      /\ pending \in [HistoryThreads -> {NoCommand} \cup Saves \cup Clicks]
  BY DEF HistoryInv, HistoryTypeOK, OpenHistory
<1>2. Transition(history, [NoSession EXCEPT !.id = nextSession'], enabled, io) BY DEF OpenHistory
<1> QED BY <1>1, <1>2, EmptyWindow, TurnKept DEF OpenHistory, workerVars

LEMMA PinKept == ASSUME HistoryInv, SetPinned PROVE HistoryInv'
<1> DEFINE s == [session EXCEPT !.pinned = ~@]
<1>1. s \in Windows /\ DOMAIN s.copy = DOMAIN session.copy BY DEF HistoryInv, HistoryTypeOK, Windows
<1>2. history.loaded \/ DOMAIN session.copy = {} BY DEF HistoryInv, NotLoaded
<1>3. /\ Transition(history, s, enabled, io) /\ pending' = pending
      /\ pastes' = pastes /\ copies' = copies /\ nextSession' = nextSession
      /\ UNCHANGED <<limit, shuttingDown, storage, listFile, monitor, samples, cleared>>
  BY DEF SetPinned, UserTurn, workerVars
<1>4. enabled \in BOOLEAN /\ nextSession \in Nat
      /\ pending \in [HistoryThreads -> {NoCommand} \cup Saves \cup Clicks]
  BY DEF HistoryInv, HistoryTypeOK
<1> HIDE DEF s
<1> QED BY <1>1, <1>2, <1>3, <1>4, TurnKept

LEMMA EndKept == ASSUME HistoryInv, LeaveSession \/ CloseHistory PROVE HistoryInv'
<1>1. /\ Transition(history, NoSession, enabled, io) /\ pending' = pending
      /\ pastes' = pastes /\ copies' = copies /\ nextSession' = nextSession
      /\ UNCHANGED <<limit, shuttingDown, storage, listFile, monitor, samples, cleared>>
  BY DEF LeaveSession, CloseHistory, UserTurn, workerVars
<1>2. enabled \in BOOLEAN /\ nextSession \in Nat
      /\ pending \in [HistoryThreads -> {NoCommand} \cup Saves \cup Clicks]
  BY DEF HistoryInv, HistoryTypeOK
<1> QED BY <1>1, <1>2, EmptyWindow, TurnKept

LEMMA ClickedTyped ==
    ASSUME HistoryTypeOK, NEW i \in DOMAIN history.entries, NEW kind \in {"copy", "paste"},
           NEW request \in Nat
    PROVE  [kind |-> kind, session |-> session.id, request |-> request,
            entry |-> history.entries[i]] \in Clicks
<1>1. session.id \in Nat /\ history.entries \in Seq(Entry) BY DEF HistoryTypeOK, Windows, Lists
<1>2. history.entries[i] \in Entry BY <1>1
<1> QED BY <1>1, <1>2 DEF Clicks

LEMMA CopyProof ==
    ASSUME HistoryInv, NEW i \in DOMAIN history.entries, CopyEntry(i)
    PROVE  \E request \in Nat \ {0}, s \in Windows :
             /\ s = [session EXCEPT !.copy = s.copy]
             /\ DOMAIN s.copy = DOMAIN session.copy \cup {history.entries[i].id}
             /\ \A id \in DOMAIN s.copy : id # history.entries[i].id =>
                       s.copy[id] = session.copy[id]
             /\ s.copy[history.entries[i].id] = [request |-> request, pending |-> TRUE]
             /\ UserTurn(s)
             /\ [kind |-> "copy", session |-> session.id, request |-> request,
                 entry |-> history.entries[i]] \in Clicks
             /\ Issue("ui", [kind |-> "copy", session |-> session.id, request |-> request,
                             entry |-> history.entries[i]])
<1> DEFINE e == history.entries[i]
           request == IF e.id \in DOMAIN session.copy THEN session.copy[e.id].request + 1 ELSE 1
           copy == [id \in DOMAIN session.copy \cup {e.id} |->
                      IF id = e.id THEN [request |-> request, pending |-> TRUE]
                      ELSE session.copy[id]]
           s == [session EXCEPT !.copy = copy]
<1>1. e \in Entry /\ e.id \in Nat
  <2>1. history.entries \in Seq(Entry) BY DEF HistoryInv, HistoryTypeOK, Lists
  <2>2. e \in Entry BY <2>1
  <2> QED BY <2>2 DEF Entry
<1>2. PICK ids \in SUBSET Nat : session.copy \in [ids -> [request : Nat, pending : BOOLEAN]]
  BY DEF HistoryInv, HistoryTypeOK, Windows, Copied
<1>3. UserTurn(s) /\ Issue("ui", [kind |-> "copy", session |-> session.id, request |-> request,
                                  entry |-> e])
  BY DEF CopyEntry
<1> HIDE DEF e
<1>4. request \in Nat \ {0}
  <2>1. CASE e.id \in DOMAIN session.copy
    <3>1. session.copy[e.id] \in [request : Nat, pending : BOOLEAN] BY <1>2, <2>1
    <3>2. session.copy[e.id].request \in Nat BY <3>1
    <3>3. request = session.copy[e.id].request + 1 BY <2>1
    <3> HIDE DEF request
    <3> QED BY <3>2, <3>3
  <2>2. CASE e.id \notin DOMAIN session.copy BY <2>2
  <2> QED BY <2>1, <2>2
<1> HIDE DEF request
<1>5. copy \in [ids \cup {e.id} -> [request : Nat, pending : BOOLEAN]] BY <1>1, <1>2, <1>4
<1>6. copy \in Copied
  <2>1. ids \cup {e.id} \in SUBSET Nat BY <1>1
  <2> HIDE DEF copy
  <2> QED BY <1>5, <2>1 DEF Copied
<1>7. /\ DOMAIN copy = DOMAIN session.copy \cup {e.id}
      /\ \A id \in DOMAIN copy : id # e.id => copy[id] = session.copy[id]
      /\ copy[e.id] = [request |-> request, pending |-> TRUE]
  OBVIOUS
<1> HIDE DEF copy
<1>8. s \in Windows /\ s.copy = copy BY <1>6 DEF HistoryInv, HistoryTypeOK, Windows
<1>9. s = [session EXCEPT !.copy = s.copy] BY <1>8
<1>10. [kind |-> "copy", session |-> session.id, request |-> request, entry |-> e] \in Clicks
  BY <1>4, ClickedTyped DEF HistoryInv, e
<1> HIDE DEF s
<1> QED BY <1>3, <1>4, <1>7, <1>8, <1>9, <1>10 DEF e

LEMMA LoadedEntries == ASSUME HistoryInv, NEW i \in DOMAIN history.entries PROVE history.loaded
  BY DEF HistoryInv, NotLoaded

LEMMA CopyKept ==
    ASSUME HistoryInv, NEW i \in DOMAIN history.entries, CopyEntry(i) PROVE HistoryInv'
<1>1. PICK s \in Windows, c \in Clicks : UserTurn(s) /\ Issue("ui", c) BY ZenonT(60), CopyProof
<1>2. pending' \in [HistoryThreads -> {NoCommand} \cup Saves \cup Clicks]
  BY <1>1, IssueProof DEF HistoryInv, HistoryThreads
<1>3. enabled \in BOOLEAN /\ nextSession \in Nat BY DEF HistoryInv, HistoryTypeOK
<1> QED BY <1>1, <1>2, <1>3, LoadedEntries, TurnKept DEF UserTurn, workerVars

LEMMA PasteKept ==
    ASSUME HistoryInv, NEW i \in DOMAIN history.entries, PasteEntry(i) PROVE HistoryInv'
<1> DEFINE s == [session EXCEPT !.busy = TRUE, !.request = @ + 1]
           c == [kind |-> "paste", session |-> session.id, request |-> session.request + 1,
                 entry |-> history.entries[i]]
<1>1. UserTurn(s) /\ Issue("ui", c) BY DEF PasteEntry
<1>2. s \in Windows /\ session.request + 1 \in Nat
  <2>1. session \in Windows /\ session.request + 1 \in Nat BY DEF HistoryInv, HistoryTypeOK, Windows
  <2>2. s = [[session EXCEPT !.busy = TRUE] EXCEPT !.request = session.request + 1]
    BY <2>1 DEF Windows
  <2>3. [session EXCEPT !.busy = TRUE] \in Windows BY <2>1 DEF Windows
  <2> HIDE DEF s
  <2>4. s \in Windows BY <2>1, <2>2, <2>3 DEF Windows
  <2> QED BY <2>1, <2>4
<1>3. c \in Clicks BY <1>2, ClickedTyped DEF HistoryInv
<1> HIDE DEF s, c
<1>4. pending' \in [HistoryThreads -> {NoCommand} \cup Saves \cup Clicks]
  BY <1>1, <1>3, IssueProof DEF HistoryInv, HistoryThreads
<1>5. enabled \in BOOLEAN /\ nextSession \in Nat BY DEF HistoryInv, HistoryTypeOK
<1> QED BY <1>1, <1>2, <1>4, <1>5, LoadedEntries, TurnKept DEF UserTurn, workerVars

LEMMA ReconcileProof ==
    ASSUME HistoryTypeOK, NEW h \in Lists, NEW n \in Nat, NEW thread \in HistoryThreads,
           NEW jobs \in Seq(IoJobs), thread = "storage" => jobs = Tail(io),
           thread # "storage" => jobs = io,
           ReconcileLimit(h, n, thread)
    PROVE  /\ history' \in Lists /\ session' \in Windows /\ enabled' = enabled
           /\ history'.entries = Trim(h.entries, n) /\ history'.nextEntry = h.nextEntry
           /\ history'.loaded = h.loaded /\ history'.storageFailed = h.storageFailed
           /\ history'.recording = h.recording
           /\ \/ history' = h /\ session' = session /\ pending' = pending
              \/ /\ h.entries # <<>> /\ history'.revision = h.revision + 1
                 /\ session' = KeepCopies(session, history'.entries)
                 /\ Issue(thread, SaveOf(history'))
           /\ pending' \in [HistoryThreads -> {NoCommand} \cup Saves \cup Clicks]
           /\ Transition(history', session', enabled, jobs)
           /\ permitted' \in BOOLEAN /\ io' \in Seq(IoJobs)
           /\ \A i \in DOMAIN jobs : i \in DOMAIN io' /\ io'[i] = jobs[i]
           /\ \A i \in DOMAIN io' : i \in DOMAIN jobs \/ io'[i].kind = "recording"
<1> DEFINE entries == Trim(h.entries, n)
           cut == [h EXCEPT !.entries = entries]
           trimmed == Revised(cut)
<1>1. h.entries \in Seq(Entry) /\ session \in Windows /\ enabled \in BOOLEAN
      /\ pending \in [HistoryThreads -> {NoCommand} \cup Saves \cup Clicks]
  BY DEF HistoryTypeOK, Lists
<1>2. entries \in Seq(Entry) /\ Len(entries) <= Len(h.entries) BY <1>1, TrimProof
<1>3. CASE entries = h.entries
  <2>1. Transition(h, session, enabled, jobs) /\ pending' = pending BY <1>3 DEF ReconcileLimit
  <2>2. /\ history' = h /\ session' = session /\ enabled' = enabled /\ permitted' \in BOOLEAN
        /\ io' \in Seq(IoJobs)
        /\ \A i \in DOMAIN jobs : i \in DOMAIN io' /\ io'[i] = jobs[i]
        /\ \A i \in DOMAIN io' : i \in DOMAIN jobs \/ io'[i].kind = "recording"
    BY <1>1, <2>1, TransitionProof
  <2> QED BY <1>1, <1>3, <2>1, <2>2
<1>4. CASE entries # h.entries
  <2>1. /\ Transition(trimmed, KeepCopies(session, entries), enabled, jobs)
        /\ Issue(thread, SaveOf(trimmed))
    BY <1>4 DEF ReconcileLimit
  <2>2. h.entries # <<>>
    <3>1. SUFFICES ASSUME h.entries = <<>> PROVE FALSE OBVIOUS
    <3>2. Len(entries) = 0 BY <1>2, <3>1
    <3> HIDE DEF entries
    <3> QED BY <1>2, <1>4, <3>1, <3>2
  <2> HIDE DEF entries
  <2>3. /\ cut \in Lists /\ cut.entries = entries /\ cut.loaded = h.loaded
        /\ cut.storageFailed = h.storageFailed /\ cut.nextEntry = h.nextEntry
        /\ cut.recording = h.recording /\ cut.revision = h.revision
    BY <1>2 DEF Lists
  <2> HIDE DEF cut
  <2>4. /\ trimmed \in Lists /\ trimmed.entries = entries /\ trimmed.loaded = h.loaded
        /\ trimmed.storageFailed = h.storageFailed /\ trimmed.nextEntry = h.nextEntry
        /\ trimmed.recording = h.recording /\ trimmed.revision = h.revision + 1
    BY <2>3, RevisedProof
  <2> HIDE DEF trimmed
  <2>5. KeepCopies(session, entries) \in Windows BY <1>1, KeepProof
  <2>6. /\ history' = trimmed /\ session' = KeepCopies(session, entries) /\ enabled' = enabled
        /\ permitted' \in BOOLEAN /\ io' \in Seq(IoJobs)
        /\ \A i \in DOMAIN jobs : i \in DOMAIN io' /\ io'[i] = jobs[i]
        /\ \A i \in DOMAIN io' : i \in DOMAIN jobs \/ io'[i].kind = "recording"
    <3>1. history' = trimmed /\ session' = KeepCopies(session, entries) BY <2>1 DEF Transition
    <3>2. history' \in Lists /\ Transition(history', session', enabled, jobs) BY <2>1, <2>4, <3>1
    <3> QED BY <3>1, <3>2, TransitionQueue
  <2>7. pending' \in [HistoryThreads -> {NoCommand} \cup Saves \cup Clicks]
    BY <2>1, <2>4, SaveOfProof, IssueProof
  <2>8. history'.entries = Trim(h.entries, n) /\ session' = KeepCopies(session, history'.entries)
    BY <2>4, <2>6 DEF entries
  <2> QED BY <2>1, <2>2, <2>4, <2>5, <2>6, <2>7, <2>8
<1> QED BY <1>3, <1>4

LEMMA LimitKept == ASSUME HistoryInv, NEW n \in Limits, ChangeLimit(n) PROVE HistoryInv'
<1>1. /\ HistoryTypeOK /\ history \in Lists /\ n \in Nat /\ "settings" \in HistoryThreads
      /\ io \in Seq(IoJobs) /\ "settings" # "storage"
  BY LimitsAssumption DEF HistoryInv, HistoryTypeOK, HistoryThreads
<1>2. ReconcileLimit(history, n, "settings") /\ limit' = n
      /\ UNCHANGED <<nextSession, shuttingDown, storage, listFile, monitor, samples, pastes, copies,
                     cleared>>
  BY DEF ChangeLimit, workerVars
<1>3. /\ history' \in Lists /\ session' \in Windows /\ enabled' = enabled
      /\ history'.loaded = history.loaded
      /\ (history' = history /\ session' = session /\ pending' = pending) \/ history.entries # <<>>
      /\ pending' \in [HistoryThreads -> {NoCommand} \cup Saves \cup Clicks]
      /\ permitted' \in BOOLEAN /\ io' \in Seq(IoJobs)
      /\ \A i \in DOMAIN io : i \in DOMAIN io' /\ io'[i] = io[i]
      /\ \A i \in DOMAIN io' : i \in DOMAIN io \/ io'[i].kind = "recording"
  BY <1>1, <1>2, ReconcileProof
<1>4. HistoryTypeOK' BY <1>2, <1>3 DEF HistoryInv, HistoryTypeOK
<1> QED BY <1>2, <1>3, <1>4, GrowthProof DEF HistoryInv, NotLoaded

LEMMA DeleteProof ==
    ASSUME HistoryInv, NEW id \in Nat, DeleteEntry(id)
    PROVE  /\ history.loaded /\ history' \in Lists /\ session' \in Windows
           /\ history'.loaded /\ history'.revision = history.revision + 1
           /\ history'.storageFailed = history.storageFailed
           /\ history'.recording = history.recording
           /\ history'.nextEntry = history.nextEntry
           /\ history'.entries \in
                Retained(history.entries,
                         {i \in DOMAIN history.entries : history.entries[i].id # id})
           /\ session' = [session EXCEPT !.copy = session'.copy]
           /\ DOMAIN session'.copy = DOMAIN session.copy \ {id}
           /\ \A i \in DOMAIN session'.copy : session'.copy[i] = session.copy[i]
           /\ ~session.busy /\ Transition(history', session', enabled, io)
           /\ Issue("ui", SaveOf(history'))
           /\ UNCHANGED <<nextSession, limit, shuttingDown, storage, listFile, monitor, samples,
                          pastes, copies, cleared>>
<1> DEFINE places == {i \in DOMAIN history.entries : history.entries[i].id # id}
           copy == [i \in DOMAIN session.copy \ {id} |-> session.copy[i]]
           s == [session EXCEPT !.copy = copy]
<1>1. PICK kept \in Retained(history.entries, places) :
        /\ Transition(Revised([history EXCEPT !.entries = kept]), s, enabled, io)
        /\ Issue("ui", SaveOf(Revised([history EXCEPT !.entries = kept])))
  BY DEF DeleteEntry
<1>2. history.entries \in Seq(Entry) /\ history \in Lists BY DEF HistoryInv, HistoryTypeOK, Lists
<1>3. kept \in Seq(Entry)
  <2>1. places \in SUBSET DOMAIN history.entries OBVIOUS
  <2> HIDE DEF places
  <2> QED BY <1>2, <2>1, RetainedProof
<1> DEFINE cut == [history EXCEPT !.entries = kept]
<1>4. /\ cut \in Lists /\ cut.entries = kept /\ cut.loaded = history.loaded
      /\ cut.storageFailed = history.storageFailed /\ cut.nextEntry = history.nextEntry
      /\ cut.recording = history.recording /\ cut.revision = history.revision
  BY <1>2, <1>3 DEF Lists
<1> HIDE DEF cut
<1>5. history' = Revised(cut) /\ session' = s BY <1>1 DEF Transition, cut
<1>6. /\ history' \in Lists /\ history'.entries = kept /\ history'.loaded = history.loaded
      /\ history'.storageFailed = history.storageFailed /\ history'.nextEntry = history.nextEntry
      /\ history'.recording = history.recording /\ history'.revision = history.revision + 1
  BY <1>4, <1>5, RevisedProof
<1>7. PICK ids \in SUBSET Nat : session.copy \in [ids -> [request : Nat, pending : BOOLEAN]]
  BY DEF HistoryInv, HistoryTypeOK, Windows, Copied
<1>8. copy \in [ids \ {id} -> [request : Nat, pending : BOOLEAN]] /\ ids \ {id} \in SUBSET Nat
  BY <1>7
<1>9. copy \in Copied
  <2> HIDE DEF copy
  <2> QED BY <1>8 DEF Copied
<1>10. DOMAIN copy = DOMAIN session.copy \ {id} /\ \A i \in DOMAIN copy : copy[i] = session.copy[i]
  OBVIOUS
<1> HIDE DEF copy
<1>11. s \in Windows /\ s.copy = copy BY <1>9 DEF HistoryInv, HistoryTypeOK, Windows
<1>12. /\ Transition(history', session', enabled, io) /\ Issue("ui", SaveOf(history'))
       /\ history.loaded /\ ~session.busy
       /\ UNCHANGED <<nextSession, limit, shuttingDown, storage, listFile, monitor, samples,
                      pastes, copies, cleared>>
  BY <1>1, <1>5 DEF DeleteEntry, workerVars, cut
<1> QED BY <1>1, <1>5, <1>6, <1>10, <1>11, <1>12

LEMMA ListTurnKept ==
    ASSUME HistoryInv, history' \in Lists, session' \in Windows, history'.loaded = history.loaded,
           Transition(history', session', enabled, io), Issue("ui", SaveOf(history')),
           history.loaded \/ (history' = [history EXCEPT !.revision = history'.revision]
                              /\ DOMAIN session'.copy = {}),
           cleared' \in BOOLEAN,
           UNCHANGED <<nextSession, limit, shuttingDown, storage, listFile, monitor, samples,
                       pastes, copies>>
    PROVE  HistoryInv'
<1>1. /\ enabled' = enabled /\ permitted' \in BOOLEAN /\ io' \in Seq(IoJobs)
      /\ \A i \in DOMAIN io : i \in DOMAIN io' /\ io'[i] = io[i]
      /\ \A i \in DOMAIN io' : i \in DOMAIN io \/ io'[i].kind = "recording"
  <2>1. io \in Seq(IoJobs) /\ HistoryTypeOK BY DEF HistoryInv, HistoryTypeOK
  <2> QED BY <2>1, TransitionQueue
<1>2. SaveOf(history') \in {NoCommand} \cup Saves \cup Clicks /\ SaveOf(history') \notin Clicks
      /\ "ui" \in HistoryThreads
  BY SaveOfProof DEF HistoryThreads
<1>3. /\ pending' \in [HistoryThreads -> {NoCommand} \cup Saves \cup Clicks]
      /\ \A t \in HistoryThreads : pending'[t] = pending[t] \/ pending'[t] \notin Clicks
  BY <1>2, IssueProof DEF HistoryInv
<1>4. HistoryTypeOK' BY <1>1, <1>3 DEF HistoryInv, HistoryTypeOK
<1>5. history.loaded \/
              /\ storage' = storage /\ listFile' = listFile
              /\ history'.entries = <<>> /\ ~history'.storageFailed /\ history'.nextEntry = 0
              /\ pastes' = {} /\ copies' = {} /\ DOMAIN session'.copy = {}
              /\ \A thread \in HistoryThreads : pending'[thread] \notin Clicks
  <2>1. SUFFICES ASSUME ~history.loaded
        PROVE  /\ history'.entries = <<>> /\ ~history'.storageFailed /\ history'.nextEntry = 0
               /\ pastes = {} /\ copies = {}
               /\ \A thread \in HistoryThreads : pending[thread] \notin Clicks
    BY <1>3
  <2>2. history' = [history EXCEPT !.revision = history'.revision] /\ history \in Lists
    BY <2>1 DEF HistoryInv, HistoryTypeOK
  <2>3. /\ history'.entries = history.entries /\ history'.nextEntry = history.nextEntry
        /\ history'.storageFailed = history.storageFailed
    BY <2>2 DEF Lists
  <2> QED BY <2>1, <2>3 DEF HistoryInv, NotLoaded
<1> QED BY <1>1, <1>4, <1>5, GrowthProof

LEMMA DeleteKept == ASSUME HistoryInv, NEW id \in Nat, DeleteEntry(id) PROVE HistoryInv'
<1>1. /\ history.loaded /\ history' \in Lists /\ session' \in Windows
      /\ history'.loaded = history.loaded
      /\ Transition(history', session', enabled, io) /\ Issue("ui", SaveOf(history'))
      /\ UNCHANGED <<nextSession, limit, shuttingDown, storage, listFile, monitor, samples,
                     pastes, copies, cleared>>
  <2>1. history \in Lists BY DEF HistoryInv, HistoryTypeOK
  <2>2. history' \in Lists /\ history.loaded /\ history'.loaded BY DeleteProof
  <2>3. history.loaded \in BOOLEAN /\ history'.loaded \in BOOLEAN BY <2>1, <2>2 DEF Lists
  <2> QED BY <2>2, <2>3, DeleteProof
<1>2. cleared' \in BOOLEAN BY <1>1 DEF HistoryInv, HistoryTypeOK
<1> QED BY <1>1, <1>2, ListTurnKept

LEMMA ClearProof ==
    ASSUME HistoryInv, ClearHistory
    PROVE  /\ history' \in Lists /\ session' \in Windows
           /\ history'.loaded = history.loaded /\ history'.revision = history.revision + 1
           /\ ~history'.storageFailed /\ history'.recording = history.recording
           /\ history'.nextEntry = history.nextEntry /\ history'.entries = <<>>
           /\ session' = [session EXCEPT !.copy = session'.copy] /\ DOMAIN session'.copy = {}
           /\ Transition(history', session', enabled, io) /\ Issue("ui", SaveOf(history'))
           /\ cleared'
           /\ UNCHANGED <<nextSession, limit, shuttingDown, storage, listFile, monitor, samples,
                          pastes, copies>>
<1> DEFINE cut == [history EXCEPT !.entries = <<>>, !.storageFailed = FALSE]
           s == [session EXCEPT !.copy = <<>>]
<1>1. history' = Revised(cut) /\ session' = s BY DEF ClearHistory, Transition
<1>2. history \in Lists /\ session \in Windows BY DEF HistoryInv, HistoryTypeOK
<1>3. s \in Windows /\ s.copy = <<>> BY <1>2, EmptyCopies DEF Windows
<1>4. /\ cut \in Lists /\ cut.entries = <<>> /\ cut.loaded = history.loaded /\ ~cut.storageFailed
      /\ cut.nextEntry = history.nextEntry /\ cut.recording = history.recording
      /\ cut.revision = history.revision
  <2> DEFINE empty == [history EXCEPT !.entries = <<>>]
  <2>1. <<>> \in Seq(Entry) /\ FALSE \in BOOLEAN OBVIOUS
  <2>2. PICK no \in BOOLEAN : no = FALSE OBVIOUS
  <2>3. empty \in Lists /\ empty.entries = <<>> /\ empty.loaded = history.loaded
        /\ empty.nextEntry = history.nextEntry /\ empty.recording = history.recording
        /\ empty.revision = history.revision
    BY <1>2, <2>1 DEF Lists
  <2>4. cut = [empty EXCEPT !.storageFailed = no] BY <1>2, <2>2 DEF Lists
  <2> HIDE DEF empty, cut
  <2>5. cut \in Lists BY <2>3, <2>4 DEF Lists
  <2>6. cut.entries = empty.entries /\ cut.loaded = empty.loaded /\ ~cut.storageFailed
        /\ cut.nextEntry = empty.nextEntry /\ cut.recording = empty.recording
        /\ cut.revision = empty.revision
    BY <2>2, <2>3, <2>4 DEF Lists
  <2> QED BY <2>3, <2>5, <2>6
<1>5. /\ Transition(history', session', enabled, io) /\ Issue("ui", SaveOf(history')) /\ cleared'
      /\ UNCHANGED <<nextSession, limit, shuttingDown, storage, listFile, monitor, samples,
                     pastes, copies>>
  BY <1>1 DEF ClearHistory, workerVars
<1> HIDE DEF cut
<1>6. /\ history' \in Lists /\ history'.entries = <<>> /\ history'.loaded = history.loaded
      /\ ~history'.storageFailed /\ history'.nextEntry = history.nextEntry
      /\ history'.recording = history.recording /\ history'.revision = history.revision + 1
  BY <1>1, <1>4, RevisedProof
<1> QED BY <1>1, <1>3, <1>5, <1>6, EmptyCopies

LEMMA ClearKept == ASSUME HistoryInv, ClearHistory PROVE HistoryInv'
<1>1. history.loaded \/ history' = [history EXCEPT !.revision = history'.revision]
  <2>1. SUFFICES ASSUME ~history.loaded
        PROVE  history' = [history EXCEPT !.revision = history'.revision]
    OBVIOUS
  <2>2. history.entries = <<>> /\ ~history.storageFailed /\ history \in Lists
    BY <2>1 DEF HistoryInv, NotLoaded, HistoryTypeOK
  <2>3. /\ history' \in Lists /\ history'.entries = history.entries
        /\ history'.loaded = history.loaded /\ history'.nextEntry = history.nextEntry
        /\ history'.recording = history.recording
    BY <2>2, ClearProof
  <2>4. history'.storageFailed = history.storageFailed
    <3>1. ~history'.storageFailed /\ history'.storageFailed \in BOOLEAN
          /\ history.storageFailed \in BOOLEAN
      BY <2>2, <2>3, ClearProof DEF Lists
    <3> QED BY <2>2, <3>1
  <2> QED BY <2>2, <2>3, <2>4 DEF Lists
<1>2. cleared' \in BOOLEAN
  <2>1. cleared' = TRUE BY DEF ClearHistory
  <2> QED BY <2>1
<1> QED BY <1>1, <1>2, ClearProof, ListTurnKept

LEMMA CrewProof ==
    ASSUME NEW c \in Clicks
    PROVE  ClickWorker(c) \in Crew
  BY DEF Clicks, Crew, ClickWorker

LEMMA AppendProof ==
    ASSUME NEW jobs \in Seq(IoJobs), NEW job \in IoJobs
    PROVE  /\ Append(jobs, job) \in Seq(IoJobs)
           /\ \A i \in DOMAIN jobs :
                 i \in DOMAIN Append(jobs, job) /\ Append(jobs, job)[i] = jobs[i]
           /\ \A i \in DOMAIN Append(jobs, job) :
                 i \in DOMAIN jobs \/ (i = Len(jobs) + 1 /\ Append(jobs, job)[i] = job)
           /\ Len(jobs) + 1 \in DOMAIN Append(jobs, job) /\ Append(jobs, job)[Len(jobs) + 1] = job
  OBVIOUS

LEMMA ShutdownKept == ASSUME HistoryInv, Shutdown PROVE HistoryInv'
<1>1. StopJob \in IoJobs /\ StopJob.kind = "stop" /\ io \in Seq(IoJobs)
  BY DEF StopJob, IoJobs, HistoryInv, HistoryTypeOK
<1>2. /\ io' \in Seq(IoJobs) /\ \A i \in DOMAIN io : i \in DOMAIN io' /\ io'[i] = io[i]
      /\ \A i \in DOMAIN io' : i \in DOMAIN io \/ io'[i].kind = "stop"
  <2>1. io' = Append(io, StopJob) BY DEF Shutdown
  <2> QED BY <1>1, <2>1, AppendProof
<1>3. HistoryTypeOK' BY <1>2 DEF HistoryInv, HistoryTypeOK, Shutdown, reducer, workerVars
<1>4. UNCHANGED <<history, session, storage, listFile, pastes, copies, pending>>
  BY DEF Shutdown, reducer, workerVars
<1> QED BY <1>2, <1>3, <1>4, GrowthProof DEF HistoryInv, NotLoaded

LEMMA ExecuteProof ==
    ASSUME HistoryInv, NEW thread \in HistoryThreads, Execute(thread)
    PROVE  \E c \in Saves \cup Clicks :
           /\ pending[thread] = c
           /\ pending' = [pending EXCEPT ![thread] = NoCommand]
           /\ pending'[thread] = NoCommand
           /\ \A t \in HistoryThreads : t # thread => pending'[t] = pending[t]
           /\ io' \in Seq(IoJobs)
           /\ io' = IF c.kind = "save" THEN Append(io, c) ELSE io
           /\ \A i \in DOMAIN io : i \in DOMAIN io' /\ io'[i] = io[i]
           /\ \A i \in DOMAIN io' : i \in DOMAIN io \/ (io'[i] = c /\ c.kind = "save")
           /\ c.kind = "save" => \E i \in DOMAIN io' : io'[i] = c
           /\ pastes' = IF c.kind = "paste" /\ ~PasteCancelled(c)
                        THEN pastes \cup {ClickWorker(c)} ELSE pastes
           /\ copies' = IF c.kind = "copy" THEN copies \cup {ClickWorker(c)} ELSE copies
           /\ UNCHANGED <<reducer, permitted, shuttingDown, storage, listFile, monitor, samples,
                          cleared>>
<1>1. pending \in [HistoryThreads -> {NoCommand} \cup Saves \cup Clicks] /\ io \in Seq(IoJobs)
  BY DEF HistoryInv, HistoryTypeOK
<1>2. PICK c \in Saves \cup Clicks : c = pending[thread] BY <1>1 DEF Execute, Available
<1>3. /\ pending' = [pending EXCEPT ![thread] = NoCommand]
      /\ io' = IF c.kind = "save" THEN Append(io, c) ELSE io
      /\ pastes' = IF c.kind = "paste" /\ ~PasteCancelled(c)
                   THEN pastes \cup {ClickWorker(c)} ELSE pastes
      /\ copies' = IF c.kind = "copy" THEN copies \cup {ClickWorker(c)} ELSE copies
      /\ UNCHANGED <<reducer, permitted, shuttingDown, storage, listFile, monitor,
                     samples, cleared>>
  BY <1>2 DEF Execute
<1>4. /\ pending'[thread] = NoCommand
      /\ \A t \in HistoryThreads : t # thread => pending'[t] = pending[t]
  BY <1>1, <1>3
<1>5. /\ io' \in Seq(IoJobs)
      /\ \A i \in DOMAIN io : i \in DOMAIN io' /\ io'[i] = io[i]
      /\ \A i \in DOMAIN io' : i \in DOMAIN io \/ (io'[i] = c /\ c.kind = "save")
      /\ c.kind = "save" => \E i \in DOMAIN io' : io'[i] = c
  <2>1. CASE c.kind = "save"
    <3>1. c \in Saves BY <2>1, CommandKinds
    <3>2. io' = Append(io, c) /\ c \in IoJobs BY <1>3, <2>1, <3>1 DEF IoJobs
    <3> QED BY <1>1, <2>1, <3>2, AppendProof
  <2>2. CASE c.kind # "save" BY <1>1, <1>3, <2>2
  <2> QED BY <2>1, <2>2
<1> QED BY <1>2, <1>3, <1>4, <1>5

LEMMA ExecuteKept ==
    ASSUME HistoryInv, NEW thread \in HistoryThreads, Execute(thread) PROVE HistoryInv'
<1>1. PICK c \in Saves \cup Clicks :
           /\ pending[thread] = c
           /\ pending' = [pending EXCEPT ![thread] = NoCommand]
           /\ io' \in Seq(IoJobs)
           /\ \A i \in DOMAIN io : i \in DOMAIN io' /\ io'[i] = io[i]
           /\ \A i \in DOMAIN io' : i \in DOMAIN io \/ (io'[i] = c /\ c.kind = "save")
           /\ pastes' = IF c.kind = "paste" /\ ~PasteCancelled(c)
                        THEN pastes \cup {ClickWorker(c)} ELSE pastes
           /\ copies' = IF c.kind = "copy" THEN copies \cup {ClickWorker(c)} ELSE copies
           /\ UNCHANGED <<reducer, permitted, shuttingDown, storage, listFile, monitor, samples,
                          cleared>>
  BY ExecuteProof
<1>2. c \in Clicks => ClickWorker(c) \in Crew /\ history.loaded
  BY <1>1, CrewProof DEF HistoryInv, NotLoaded
<1>3. c \notin Clicks => c.kind = "save" BY CommandKinds
<1>4. pastes' \subseteq Crew /\ copies' \subseteq Crew
      /\ (history.loaded \/ (pastes' = pastes /\ copies' = copies))
  BY <1>1, <1>2, <1>3, "save" # "paste", "save" # "copy" DEF HistoryInv, HistoryTypeOK
<1>5. /\ pending' \in [HistoryThreads -> {NoCommand} \cup Saves \cup Clicks]
      /\ \A t \in HistoryThreads : pending'[t] = NoCommand \/ pending'[t] = pending[t]
  BY <1>1 DEF HistoryInv, HistoryTypeOK
<1>6. HistoryTypeOK' BY <1>1, <1>4, <1>5 DEF HistoryInv, HistoryTypeOK, reducer
<1>7. \A i \in DOMAIN io' : i \in DOMAIN io \/ io'[i].kind # "load" BY <1>1
<1>8. \A t \in HistoryThreads : history.loaded \/ pending'[t] \notin Clicks
  BY <1>5, CommandKinds DEF HistoryInv, NotLoaded
<1>9. history' = history /\ session' = session /\ storage' = storage /\ listFile' = listFile
  BY <1>1 DEF reducer
<1> QED BY <1>1, <1>4, <1>6, <1>7, <1>8, <1>9, GrowthProof DEF HistoryInv, NotLoaded

LEMMA StepProof ==
    ASSUME NEW w \in Crew,
           NEW stage \in {"started", "captured", "written", "pasted", "failed", "writing"}
    PROVE  /\ Step(w, stage) \in Crew /\ Step(w, stage).session = w.session
           /\ Step(w, stage).request = w.request /\ Step(w, stage).entry = w.entry
           /\ Step(w, stage).stage = stage
  BY DEF Step, Crew

LEMMA PasteStepProof ==
    ASSUME HistoryInv, NEW w \in pastes, PasteAdvances(w) \/ PasteFails(w)
    PROVE  \E stage \in {"captured", "written", "pasted", "failed"} :
              /\ pastes' = (pastes \ {w}) \cup {Step(w, stage)}
              /\ UNCHANGED <<reducer, runtime, pending, copies, cleared>>
  BY DEF PasteAdvances, PasteFails

LEMMA PasteStepKept ==
    ASSUME HistoryInv, NEW w \in pastes, PasteAdvances(w) \/ PasteFails(w) PROVE HistoryInv'
<1>1. PICK stage \in {"captured", "written", "pasted", "failed"} :
        /\ pastes' = (pastes \ {w}) \cup {Step(w, stage)}
        /\ UNCHANGED <<reducer, runtime, pending, copies, cleared>>
  BY PasteStepProof
<1>2. w \in Crew /\ history.loaded BY DEF HistoryInv, HistoryTypeOK, NotLoaded
<1>3. Step(w, stage) \in Crew BY <1>2, StepProof
<1>4. HistoryTypeOK' BY <1>1, <1>3 DEF HistoryInv, HistoryTypeOK, reducer, runtime
<1> QED BY <1>1, <1>2, <1>4 DEF HistoryInv, NotLoaded, LoadOnce, reducer, runtime

LEMMA ResultProof ==
    ASSUME HistoryTypeOK, NEW w
    PROVE  /\ PasteResult(w) \in Windows
           /\ \/ PasteResult(w) = session
              \/ /\ session.id = w.session /\ session.request = w.request
                 /\ PasteResult(w) \in {NoSession, [session EXCEPT !.busy = FALSE]}
<1>1. [session EXCEPT !.busy = FALSE] \in Windows /\ session \in Windows
  BY DEF HistoryTypeOK, Windows
<1> QED BY <1>1, EmptyWindow DEF PasteResult

LEMMA PasteEndKept == ASSUME HistoryInv, NEW w \in pastes, PasteFinished(w) PROVE HistoryInv'
<1>1. history.loaded BY DEF HistoryInv, NotLoaded
<1>2. PasteResult(w) \in Windows BY ResultProof DEF HistoryInv
<1>3. /\ Transition(history, PasteResult(w), enabled, io) /\ pending' = pending
      /\ pastes' \subseteq pastes /\ copies' = copies /\ nextSession' = nextSession
      /\ UNCHANGED <<limit, shuttingDown, storage, listFile, monitor, samples, cleared>>
  BY DEF PasteFinished
<1>4. enabled \in BOOLEAN /\ nextSession \in Nat
      /\ pending \in [HistoryThreads -> {NoCommand} \cup Saves \cup Clicks]
  BY DEF HistoryInv, HistoryTypeOK
<1> QED BY <1>1, <1>2, <1>3, <1>4, TurnKept

LEMMA CopyStartKept == ASSUME HistoryInv, NEW w \in copies, CopyStarts(w) PROVE HistoryInv'
<1>1. w \in Crew /\ history.loaded BY DEF HistoryInv, HistoryTypeOK, NotLoaded
<1>2. Step(w, "writing") \in Crew BY <1>1, StepProof
<1>3. copies' \subseteq Crew /\ UNCHANGED <<reducer, runtime, pending, pastes, cleared>>
  BY <1>2 DEF CopyStarts, HistoryInv, HistoryTypeOK
<1>4. HistoryTypeOK' BY <1>3 DEF HistoryInv, HistoryTypeOK, reducer, runtime
<1> QED BY <1>1, <1>3, <1>4 DEF HistoryInv, NotLoaded, LoadOnce, reducer, runtime

LEMMA CopyEndProof ==
    ASSUME HistoryInv, NEW w \in copies, CopyFinished(w)
    PROVE  \E s \in Windows :
             /\ Transition(history, s, enabled, io) /\ s = [session EXCEPT !.copy = s.copy]
             /\ DOMAIN s.copy = DOMAIN session.copy
             /\ ~CopyCurrent(w) => s.copy = session.copy
             /\ CopyCurrent(w) => ~s.copy[w.entry.id].pending
             /\ \A id \in DOMAIN s.copy : id # w.entry.id => s.copy[id] = session.copy[id]
<1>1. session \in Windows BY DEF HistoryInv, HistoryTypeOK
<1>2. CASE ~CopyCurrent(w)
  <2>1. /\ Transition(history, session, enabled, io)
        /\ session = [session EXCEPT !.copy = session.copy]
    BY <1>1, <1>2 DEF CopyFinished, Windows
  <2> QED BY <1>1, <1>2, <2>1
<1>3. CASE CopyCurrent(w)
  <2> DEFINE id == w.entry.id
             copy == [session.copy EXCEPT ![id] = [session.copy[id] EXCEPT !.pending = FALSE]]
             s == [session EXCEPT !.copy = copy]
  <2>1. PICK ids \in SUBSET Nat : session.copy \in [ids -> [request : Nat, pending : BOOLEAN]]
    BY <1>1 DEF Windows, Copied
  <2>2. id \in ids BY <1>3, <2>1 DEF CopyCurrent
  <2>3. session.copy[id] \in [request : Nat, pending : BOOLEAN] BY <2>1, <2>2
  <2>4. /\ [session.copy[id] EXCEPT !.pending = FALSE] \in [request : Nat, pending : BOOLEAN]
        /\ ~[session.copy[id] EXCEPT !.pending = FALSE].pending
    BY <2>3
  <2>5. /\ copy \in [ids -> [request : Nat, pending : BOOLEAN]]
        /\ ~copy[id].pending /\ \A x \in DOMAIN copy : x # id => copy[x] = session.copy[x]
    BY <2>1, <2>2, <2>4
  <2>6. copy \in Copied /\ DOMAIN copy = DOMAIN session.copy
    <3>1. DOMAIN copy = DOMAIN session.copy BY <2>1, <2>5
    <3> HIDE DEF copy
    <3> QED BY <2>5, <3>1 DEF Copied
  <2>7. Transition(history, s, enabled, io) BY <1>3 DEF CopyFinished
  <2> HIDE DEF copy
  <2>8. s \in Windows /\ s.copy = copy BY <1>1, <2>6 DEF Windows
  <2>9. s = [session EXCEPT !.copy = s.copy] BY <2>8
  <2> HIDE DEF s
  <2> QED BY <1>3, <2>5, <2>6, <2>7, <2>8, <2>9
<1> QED BY <1>2, <1>3

LEMMA CopyEndKept == ASSUME HistoryInv, NEW w \in copies, CopyFinished(w) PROVE HistoryInv'
<1>1. history.loaded BY DEF HistoryInv, NotLoaded
<1>2. PICK s \in Windows : Transition(history, s, enabled, io) BY CopyEndProof
<1>3. /\ pending' = pending
      /\ copies' \subseteq copies /\ pastes' = pastes /\ nextSession' = nextSession
      /\ UNCHANGED <<limit, shuttingDown, storage, listFile, monitor, samples, cleared>>
  BY DEF CopyFinished
<1>4. enabled \in BOOLEAN /\ nextSession \in Nat
      /\ pending \in [HistoryThreads -> {NoCommand} \cup Saves \cup Clicks]
  BY DEF HistoryInv, HistoryTypeOK
<1> QED BY <1>1, <1>2, <1>3, <1>4, TurnKept

----------------------------------------
(* The storage thread.                                                       *)

LEMMA TailProof ==
    ASSUME NEW S, NEW s \in Seq(S), s # <<>>
    PROVE  /\ Tail(s) \in Seq(S) /\ Len(Tail(s)) = Len(s) - 1
           /\ \A i \in DOMAIN Tail(s) : i + 1 \in DOMAIN s /\ Tail(s)[i] = s[i + 1]
           /\ \A i \in DOMAIN s : i # 1 => i - 1 \in DOMAIN Tail(s) /\ Tail(s)[i - 1] = s[i]
           /\ 1 \in DOMAIN s /\ Head(s) = s[1]
  OBVIOUS

LEMMA JobProof ==
    ASSUME HistoryInv, NEW kind, JobIs(kind)
    PROVE  /\ io # <<>> /\ storage.at = "idle" /\ 1 \in DOMAIN io /\ io[1].kind = kind
           /\ Head(io) = io[1]
           /\ pending["storage"] = NoCommand
           /\ kind # "load" => history.loaded
           /\ \A i \in DOMAIN io : i # 1 => io[i].kind # "load"
<1>1. io \in Seq(IoJobs) /\ io # <<>> /\ storage.at = "idle" /\ Head(io).kind = kind
      /\ pending["storage"] = NoCommand
  BY DEF HistoryInv, HistoryTypeOK, JobIs, Available
<1>2. 1 \in DOMAIN io /\ Head(io) = io[1] BY <1>1, TailProof
<1> QED BY <1>1, <1>2, CommandKinds DEF HistoryInv, NotLoaded, LoadOnce, LoadJob

\* After the load nothing can disturb it any more.
LEMMA LoadedProof ==
    ASSUME HistoryTypeOK', history'.loaded, \A i \in DOMAIN io' : io'[i].kind # "load"
    PROVE  HistoryInv'
  BY DEF HistoryInv, NotLoaded, LoadOnce

LEMMA LoadProof ==
    ASSUME HistoryInv, LoadList
    PROVE  /\ HistoryTypeOK' /\ ~history.loaded /\ history'.loaded
           /\ history'.recording = history.recording
           /\ \A i \in DOMAIN io' : (i + 1 \in DOMAIN io /\ io'[i] = io[i + 1])
                                    \/ io'[i].kind = "recording"
           /\ Transition(history', session', enabled, Tail(io)) /\ enabled' = enabled
           /\ UNCHANGED <<nextSession, limit, shuttingDown, storage, listFile, monitor, samples,
                          pastes, copies, cleared>>
           /\ \/ /\ history' = [history EXCEPT !.loaded = TRUE, !.storageFailed = TRUE]
                 /\ history'.storageFailed /\ history'.entries = <<>> /\ history'.nextEntry = 0
                 /\ pending' = pending /\ session' = session
              \/ /\ listFile \in Seq(Entry) /\ ~history'.storageFailed
                 /\ \A i, j \in DOMAIN listFile : listFile[i].id = listFile[j].id => i = j
                 /\ history'.entries = Trim(listFile, limit)
                 /\ \A i \in DOMAIN listFile : listFile[i].id <= history'.nextEntry
                 /\ \/ /\ history'.revision = history.revision /\ history'.entries = listFile
                       /\ pending' = pending /\ session' = session
                    \/ /\ history'.revision = history.revision + 1
                       /\ session' = KeepCopies(session, history'.entries)
                       /\ Issue("storage", SaveOf(history'))
<1>1. /\ history \in Lists /\ io \in Seq(IoJobs) /\ io # <<>> /\ limit \in Nat
      /\ session \in Windows /\ enabled \in BOOLEAN
      /\ pending \in [HistoryThreads -> {NoCommand} \cup Saves \cup Clicks]
  BY JobProof, LimitsAssumption DEF LoadList, HistoryInv, HistoryTypeOK
<1>2. /\ Tail(io) \in Seq(IoJobs)
      /\ \A i \in DOMAIN Tail(io) : i + 1 \in DOMAIN io /\ Tail(io)[i] = io[i + 1]
  BY <1>1, TailProof
<1>3. ~history.loaded BY JobProof DEF LoadList, HistoryInv, LoadOnce
<1>4. /\ history.entries = <<>> /\ ~history.storageFailed
      /\ history.nextEntry = 0 /\ listFile \in Files
  BY <1>3 DEF HistoryInv, NotLoaded
<1>5. UNCHANGED <<nextSession, limit, shuttingDown, storage, listFile, monitor, samples,
                  pastes, copies, cleared>>
  BY DEF LoadList, workerVars
<1> DEFINE failed == [history EXCEPT !.loaded = TRUE, !.storageFailed = TRUE]
           Loads(n) == [history EXCEPT !.loaded = TRUE, !.entries = listFile, !.nextEntry = n]
           Largest(n) == /\ n \in {history.nextEntry} \cup {listFile[i].id : i \in DOMAIN listFile}
                         /\ n >= history.nextEntry /\ \A i \in DOMAIN listFile : n >= listFile[i].id
           largest == CHOOSE n \in {history.nextEntry}
                                      \cup {listFile[i].id : i \in DOMAIN listFile} :
                         n >= history.nextEntry /\ \A i \in DOMAIN listFile : n >= listFile[i].id
           loads == Loads(largest)
<1>6. CASE Transition(failed, session, enabled, Tail(io)) /\ UNCHANGED pending
  <2>1. /\ failed \in Lists /\ failed.loaded /\ failed.storageFailed
        /\ failed.entries = history.entries /\ failed.nextEntry = history.nextEntry
        /\ failed.recording = history.recording
    BY <1>1 DEF Lists
  <2>2. history' = failed /\ session' = session BY <1>6 DEF Transition
  <2> HIDE DEF failed
  <2>3. Transition(history', session', enabled, Tail(io)) /\ history' \in Lists /\ HistoryTypeOK
    BY <1>6, <2>1, <2>2 DEF HistoryInv
  <2>4. /\ enabled' = enabled /\ permitted' \in BOOLEAN /\ io' \in Seq(IoJobs)
        /\ \A i \in DOMAIN io' : i \in DOMAIN Tail(io) \/ io'[i].kind = "recording"
        /\ \A i \in DOMAIN Tail(io) : i \in DOMAIN io' /\ io'[i] = Tail(io)[i]
    BY <1>2, <2>3, TransitionQueue
  <2>5. HistoryTypeOK' BY <1>1, <1>5, <1>6, <2>2, <2>3, <2>4 DEF HistoryInv, HistoryTypeOK
  <2>6. history' = [history EXCEPT !.loaded = TRUE, !.storageFailed = TRUE] BY <2>2 DEF failed
  <2> QED BY <1>2, <1>3, <1>4, <1>5, <1>6, <2>1, <2>2, <2>3, <2>4, <2>5, <2>6
<1>7. CASE listFile # Unreadable /\ ReconcileLimit(loads, limit, "storage")
  <2>1. /\ listFile \in Seq(Entry)
        /\ \A i, j \in DOMAIN listFile : listFile[i].id = listFile[j].id => i = j
    BY <1>4, <1>7, FilesAssumption DEF Entry
  <2>2. Largest(largest)
    <3>1. \E n \in {0} \cup {listFile[i].id : i \in 1..Len(listFile)} :
             n >= 0 /\ \A i \in 1..Len(listFile) : n >= listFile[i].id
      <4> DEFINE ids == [i \in 1..Len(listFile) |-> listFile[i].id]
      <4>1. \A i \in 1..Len(listFile) : listFile[i] \in Entry BY <2>1
      <4>2. \A i \in 1..Len(listFile) : ids[i] \in Nat BY <4>1 DEF Entry
      <4>3. Len(listFile) \in Nat BY <2>1
      <4>4. \A i \in 1..Len(listFile) : ids[i] = listFile[i].id OBVIOUS
      <4> HIDE DEF ids
      <4>5. \E n \in {0} \cup {ids[i] : i \in 1..Len(listFile)} :
               n >= 0 /\ \A i \in 1..Len(listFile) : n >= ids[i]
        BY <4>2, <4>3, LargestNumber
      <4> QED BY <4>4, <4>5
    <3>2. DOMAIN listFile = 1..Len(listFile) BY <2>1
    <3>3. \E n : Largest(n) BY <1>4, <3>1, <3>2
    <3> QED BY <3>3
  <2>3. largest \in Nat
    <3>1. \A i \in DOMAIN listFile : listFile[i] \in Entry BY <2>1
    <3>2. \A i \in DOMAIN listFile : listFile[i].id \in Nat BY <3>1 DEF Entry
    <3> HIDE DEF largest
    <3> QED BY <1>4, <2>2, <3>2
  <2>4. \A i \in DOMAIN listFile : listFile[i].id <= largest
    <3>1. \A i \in DOMAIN listFile : listFile[i] \in Entry BY <2>1
    <3>2. \A i \in DOMAIN listFile : listFile[i].id \in Nat BY <3>1 DEF Entry
    <3>3. \A i \in DOMAIN listFile : largest >= listFile[i].id BY <2>2
    <3> HIDE DEF largest
    <3> QED BY <2>3, <3>2, <3>3
  <2> HIDE DEF largest
  <2>5. /\ loads \in Lists /\ loads.entries = listFile /\ loads.loaded /\ loads.nextEntry = largest
        /\ loads.storageFailed = history.storageFailed /\ loads.revision = history.revision
        /\ loads.recording = history.recording
    BY <1>1, <2>1, <2>3 DEF Lists
  <2> HIDE DEF loads
  <2>6. "storage" \in HistoryThreads /\ HistoryTypeOK BY DEF HistoryThreads, HistoryInv
  <2>7. /\ history' \in Lists /\ session' \in Windows /\ enabled' = enabled
        /\ history'.entries = Trim(listFile, limit) /\ history'.nextEntry = largest
        /\ history'.loaded = loads.loaded /\ history'.storageFailed = loads.storageFailed
        /\ history'.recording = loads.recording
        /\ \/ history' = loads /\ session' = session /\ pending' = pending
           \/ /\ history'.revision = loads.revision + 1
              /\ session' = KeepCopies(session, history'.entries)
              /\ Issue("storage", SaveOf(history'))
        /\ pending' \in [HistoryThreads -> {NoCommand} \cup Saves \cup Clicks]
        /\ Transition(history', session', enabled, Tail(io))
        /\ permitted' \in BOOLEAN /\ io' \in Seq(IoJobs)
        /\ \A i \in DOMAIN io' : i \in DOMAIN Tail(io) \/ io'[i].kind = "recording"
        /\ \A i \in DOMAIN Tail(io) : i \in DOMAIN io' /\ io'[i] = Tail(io)[i]
    BY ZenonT(60), <1>1, <1>2, <1>7, <2>5, <2>6, ReconcileProof
  <2>8. HistoryTypeOK' BY <1>1, <1>5, <2>7 DEF HistoryInv, HistoryTypeOK
  <2>9. history'.loaded /\ ~history'.storageFailed /\ history'.recording = history.recording
    BY <1>4, <2>5, <2>7
  <2>10. \/ /\ history'.revision = history.revision /\ history'.entries = listFile
            /\ pending' = pending /\ session' = session
         \/ /\ history'.revision = history.revision + 1
            /\ session' = KeepCopies(session, history'.entries)
            /\ Issue("storage", SaveOf(history'))
    BY <2>5, <2>7
  <2> QED BY <1>2, <1>3, <1>5, <2>1, <2>4, <2>7, <2>8, <2>9, <2>10
<1> QED BY <1>6, <1>7 DEF LoadList

LEMMA LoadKept == ASSUME HistoryInv, LoadList PROVE HistoryInv'
<1>1. \A i \in DOMAIN io' : io'[i].kind # "load"
  <2>1. \A i \in DOMAIN io : i # 1 => io[i].kind # "load" BY JobProof DEF LoadList
  <2>2. \A i \in DOMAIN io' : i \in Nat \ {0} BY LoadProof DEF HistoryTypeOK
  <2> QED BY <2>1, <2>2, LoadProof
<1> QED BY <1>1, LoadProof, LoadedProof

\* Recording jobs have a switch, and saves a revision and a list.
LEMMA JobTyped ==
    ASSUME NEW jobs \in Seq(IoJobs), NEW i \in DOMAIN jobs
    PROVE  /\ jobs[i] \in IoJobs
           /\ jobs[i].kind \in {"load", "stop", "save", "recording"}
           /\ jobs[i].kind = "save" =>
                 jobs[i] \in Saves /\ jobs[i].revision \in Nat /\ jobs[i].entries \in Seq(Entry)
           /\ jobs[i].kind = "recording" => jobs[i].on \in BOOLEAN
<1>1. jobs[i] \in IoJobs OBVIOUS
<1>2. \A save \in Saves : save.revision \in Nat /\ save.entries \in Seq(Entry) BY DEF Saves
<1> QED BY <1>1, <1>2, CommandKinds

LEMMA SetRecordingProof ==
    ASSUME HistoryInv, SetRecording
    PROVE  \E works \in BOOLEAN :
           /\ HistoryTypeOK' /\ history.loaded
           /\ history' = [history EXCEPT !.recording = io[1].on /\ works]
           /\ history' = [history EXCEPT !.recording = history'.recording]
           /\ (history'.recording <=> (io[1].on /\ works))
           /\ (monitor' <=> (io[1].on /\ works)) /\ io[1].on \in BOOLEAN
           /\ (works \/ (io[1].on /\ ~monitor))
           /\ session' = session /\ enabled' = enabled
           /\ Transition(history', session', enabled, Tail(io))
           /\ \A i \in DOMAIN io' : (i + 1 \in DOMAIN io /\ io'[i] = io[i + 1])
                                    \/ io'[i].kind = "recording"
           /\ UNCHANGED <<nextSession, limit, shuttingDown, storage, listFile, samples, pending,
                          pastes, copies, cleared>>
<1>1. /\ history \in Lists /\ io \in Seq(IoJobs) /\ io # <<>> /\ 1 \in DOMAIN io
      /\ Head(io) = io[1] /\ history.loaded /\ io[1].kind = "recording"
  BY JobProof DEF SetRecording, HistoryInv, HistoryTypeOK
<1>2. io[1].on \in BOOLEAN BY <1>1, JobTyped
<1>3. /\ Tail(io) \in Seq(IoJobs)
      /\ \A i \in DOMAIN Tail(io) : i + 1 \in DOMAIN io /\ Tail(io)[i] = io[i + 1]
  BY <1>1, TailProof
<1>4. PICK works \in IF io[1].on /\ ~monitor THEN BOOLEAN ELSE {TRUE} :
         /\ monitor' = (io[1].on /\ works)
         /\ Transition([history EXCEPT !.recording = io[1].on /\ works], session, enabled, Tail(io))
  BY <1>1 DEF SetRecording
<1>5. works \in BOOLEAN /\ (works \/ (io[1].on /\ ~monitor)) BY <1>4
<1>6. PICK on \in BOOLEAN : on = (io[1].on /\ works) OBVIOUS
<1> DEFINE h == [history EXCEPT !.recording = on]
<1>7. h \in Lists /\ h.recording = on /\ h = [history EXCEPT !.recording = h.recording]
  BY <1>1 DEF Lists
<1>8. Transition(h, session, enabled, Tail(io)) /\ monitor' = on BY <1>4, <1>6
<1>9. history' = h /\ session' = session BY <1>8 DEF Transition
<1> HIDE DEF h
<1>10. history' \in Lists /\ Transition(history', session', enabled, Tail(io)) /\ HistoryTypeOK
  BY <1>7, <1>8, <1>9 DEF HistoryInv
<1>11. /\ enabled' = enabled /\ permitted' \in BOOLEAN /\ io' \in Seq(IoJobs)
       /\ \A i \in DOMAIN io' : i \in DOMAIN Tail(io) \/ io'[i].kind = "recording"
       /\ \A i \in DOMAIN Tail(io) : i \in DOMAIN io' /\ io'[i] = Tail(io)[i]
  BY <1>3, <1>10, TransitionQueue
<1>12. UNCHANGED <<nextSession, limit, shuttingDown, storage, listFile, samples, pending,
                   pastes, copies, cleared>>
  BY DEF SetRecording, workerVars
<1>13. HistoryTypeOK' BY <1>8, <1>9, <1>10, <1>11, <1>12 DEF HistoryInv, HistoryTypeOK
<1>14. \A i \in DOMAIN io' :
        (i + 1 \in DOMAIN io /\ io'[i] = io[i + 1]) \/ io'[i].kind = "recording"
  BY <1>3, <1>11
<1>15. history' = [history EXCEPT !.recording = io[1].on /\ works] BY <1>6, <1>9 DEF h
<1> QED BY <1>1, <1>2, <1>5, <1>6, <1>7, <1>8, <1>9, <1>10, <1>11, <1>12, <1>13, <1>14, <1>15

LEMMA SetRecordingKept == ASSUME HistoryInv, SetRecording PROVE HistoryInv'
<1>1. PICK works \in BOOLEAN :
           /\ HistoryTypeOK' /\ history.loaded
           /\ history' = [history EXCEPT !.recording = history'.recording]
           /\ \A i \in DOMAIN io' : (i + 1 \in DOMAIN io /\ io'[i] = io[i + 1])
                                    \/ io'[i].kind = "recording"
  BY SetRecordingProof
<1>2. history'.loaded
  <2>1. history \in Lists BY DEF HistoryInv, HistoryTypeOK
  <2> QED BY <1>1, <2>1 DEF Lists
<1>3. \A i \in DOMAIN io' : io'[i].kind # "load"
  <2>1. \A i \in DOMAIN io : i # 1 => io[i].kind # "load" BY JobProof DEF SetRecording
  <2>2. \A i \in DOMAIN io' : i \in Nat \ {0} BY <1>1 DEF HistoryTypeOK
  <2> QED BY <2>1, <2>2, <1>1
<1> QED BY <1>1, <1>2, <1>3, LoadedProof

\* The batch of saves at the head of the queue, and the one of them that is written.
LEMMA BatchProof ==
    ASSUME HistoryInv, TakeSave
    PROVE  \E count \in 1..Len(io) : \E pick \in 1..count :
           /\ \A i \in 1..count : io[i].kind = "save" /\ io[i] \in Saves
           /\ \A i \in 1..count : io[pick].revision >= io[i].revision
           /\ storage' = IF io[pick].revision <= storage.revision THEN storage
                         ELSE [storage EXCEPT !.at = "writing", !.revision = io[pick].revision,
                                              !.entries = io[pick].entries]
           /\ io' = SubSeq(io, count + 1, Len(io))
           /\ history.loaded /\ storage.at = "idle"
<1>1. io \in Seq(IoJobs) /\ Len(io) \in Nat BY DEF HistoryInv, HistoryTypeOK
<1>2. /\ 1 \in DOMAIN io /\ io[1].kind = "save" /\ history.loaded /\ storage.at = "idle"
  BY JobProof DEF TakeSave
<1>3. 1 \in 1..Len(io) BY <1>1, <1>2
<1> DEFINE ends == {n \in 1..Len(io) : n = Len(io) \/ io[n + 1].kind # "save"}
<1>4. PICK count \in ends : \A m \in ends : count <= m
  <2>1. Len(io) \in ends /\ ends \in SUBSET Nat BY <1>1, <1>3
  <2> HIDE DEF ends
  <2> QED BY <2>1, LeastNumber
<1>5. count \in 1..Len(io) /\ (count < Len(io) => io[count + 1].kind # "save") BY <1>1, <1>4
<1>6. \A i \in 1..count : io[i].kind = "save"
  <2> DEFINE wrong == {i \in 1..count : io[i].kind # "save"}
  <2>1. SUFFICES ASSUME wrong # {} PROVE FALSE OBVIOUS
  <2>2. wrong \in SUBSET Nat BY <1>5
  <2>3. PICK i \in wrong : \A j \in wrong : i <= j
    <3> HIDE DEF wrong
    <3> QED BY <2>1, <2>2, LeastNumber
  <2>4. i \in 1..count /\ io[i].kind # "save" /\ i # 1 BY <1>2, <2>3
  <2>5. i - 1 \in 1..Len(io) /\ i - 1 < count BY <1>5, <2>4
  <2>6. i - 1 \in ends BY <2>4, <2>5, (i - 1) + 1 = i
  <2>7. count <= i - 1
    <3> HIDE DEF ends
    <3> QED BY <1>4, <2>6
  <2> QED BY <1>5, <2>4, <2>5, <2>7
<1> DEFINE Fits(n) == /\ \A i \in 1..n : io[i].kind = "save"
                      /\ n < Len(io) => io[n + 1].kind # "save"
<1>7. SaveCount = count
  <2>1. Fits(count) BY <1>5, <1>6
  <2>2. \A n \in 1..Len(io) : Fits(n) => n = count
    <3> SUFFICES ASSUME NEW n \in 1..Len(io), Fits(n) PROVE n = count OBVIOUS
    <3>1. CASE n < count
      <4>1. n + 1 \in 1..count /\ n < Len(io) BY <1>1, <1>5, <3>1
      <4> QED BY <1>6, <4>1
    <3>2. CASE count < n
      <4>1. count + 1 \in 1..n /\ count < Len(io) BY <1>1, <1>5, <3>2
      <4> QED BY <1>5, <4>1
    <3> QED BY <1>1, <1>5, <3>1, <3>2
  <2>3. SaveCount = CHOOSE n \in 1..Len(io) : Fits(n) BY DEF SaveCount
  <2> HIDE DEF Fits, ends
  <2> QED BY <1>5, <2>1, <2>2, <2>3
<1>8. \A i \in 1..count : io[i] \in Saves /\ io[i].revision \in Nat
  <2>1. \A i \in 1..count : i \in DOMAIN io BY <1>1, <1>5
  <2> HIDE DEF ends
  <2> QED BY <1>1, <1>6, <2>1, JobTyped
<1> DEFINE Newer(i) == \A j \in 1..count : io[i].revision >= io[j].revision
           newest == CHOOSE i \in 1..count : Newer(i)
<1>9. newest \in 1..count /\ Newer(newest)
  <2> DEFINE revisions == [i \in 1..count |-> io[i].revision]
  <2>1. count \in Nat /\ 1 \in 1..count /\ \A i \in 1..count : revisions[i] \in Nat BY <1>5, <1>8
  <2>2. \A i \in 1..count : revisions[i] = io[i].revision OBVIOUS
  <2> HIDE DEF revisions
  <2>3. PICK n \in {revisions[1]} \cup {revisions[i] : i \in 1..count} :
           n >= revisions[1] /\ \A i \in 1..count : n >= revisions[i]
    BY <2>1, LargestNumber
  <2>4. PICK i \in 1..count : n = revisions[i] BY <2>1, <2>3
  <2>5. Newer(i) BY <2>2, <2>3, <2>4
  <2> HIDE DEF Newer
  <2> QED BY <2>5
<1>10. storage' = IF io[newest].revision <= storage.revision THEN storage
                  ELSE [storage EXCEPT !.at = "writing", !.revision = io[newest].revision,
                                       !.entries = io[newest].entries]
  BY <1>7 DEF TakeSave
<1>11. io' = SubSeq(io, count + 1, Len(io)) BY <1>7 DEF TakeSave
<1>12. \A i \in 1..count : io[newest].revision >= io[i].revision BY <1>9
<1>13. count \in 1..Len(io) BY <1>5
<1> HIDE DEF newest, ends
<1> QED BY <1>2, <1>6, <1>8, <1>9, <1>10, <1>11, <1>12, <1>13

LEMMA TakeSaveProof ==
    ASSUME HistoryInv, TakeSave
    PROVE  \E count \in 1..Len(io), pick \in DOMAIN io :
           /\ \A i \in 1..count : io[i].kind = "save" /\ io[pick].revision >= io[i].revision
           /\ io[pick].kind = "save" /\ io[pick] \in Saves /\ history.loaded /\ storage.at = "idle"
           /\ storage' \in Storages /\ storage'.success = storage.success
           /\ \/ io[pick].revision <= storage.revision /\ storage' = storage
              \/ /\ io[pick].revision > storage.revision /\ storage'.at = "writing"
                 /\ storage'.revision = io[pick].revision /\ storage'.entries = io[pick].entries
           /\ io' \in Seq(IoJobs)
           /\ \A i \in DOMAIN io' :
                     i + count \in DOMAIN io /\ io'[i] = io[i + count] /\ i + count # 1
           /\ \A i \in DOMAIN io :
                  i \in 1..count \/ (i - count \in DOMAIN io' /\ io'[i - count] = io[i])
           /\ UNCHANGED <<reducer, permitted, shuttingDown, listFile, monitor, samples, pending,
                          pastes, copies, cleared>>
<1>0. PICK count \in 1..Len(io) : \E pick \in 1..count :
           /\ \A i \in 1..count : io[i].kind = "save" /\ io[i] \in Saves
           /\ \A i \in 1..count : io[pick].revision >= io[i].revision
           /\ storage' = IF io[pick].revision <= storage.revision THEN storage
                         ELSE [storage EXCEPT !.at = "writing", !.revision = io[pick].revision,
                                              !.entries = io[pick].entries]
           /\ io' = SubSeq(io, count + 1, Len(io))
           /\ history.loaded /\ storage.at = "idle"
  BY BatchProof
<1>1. PICK pick \in 1..count :
           /\ \A i \in 1..count : io[i].kind = "save" /\ io[i] \in Saves
           /\ \A i \in 1..count : io[pick].revision >= io[i].revision
           /\ storage' = IF io[pick].revision <= storage.revision THEN storage
                         ELSE [storage EXCEPT !.at = "writing", !.revision = io[pick].revision,
                                              !.entries = io[pick].entries]
           /\ io' = SubSeq(io, count + 1, Len(io))
           /\ history.loaded /\ storage.at = "idle"
  BY <1>0
<1>2. io \in Seq(IoJobs) /\ storage \in Storages /\ storage.revision \in Nat
  BY DEF HistoryInv, HistoryTypeOK, Storages
<1>3. pick \in DOMAIN io /\ io[pick] \in Saves /\ io[pick].kind = "save" BY <1>1, <1>2
<1>4. io[pick].revision \in Nat /\ io[pick].entries \in Seq(Entry) BY <1>3 DEF Saves
<1>5. /\ storage' \in Storages /\ storage'.success = storage.success
      /\ \/ io[pick].revision <= storage.revision /\ storage' = storage
         \/ /\ io[pick].revision > storage.revision /\ storage'.at = "writing"
            /\ storage'.revision = io[pick].revision /\ storage'.entries = io[pick].entries
  <2>1. PICK revision \in Nat, entries \in Seq(Entry) :
           revision = io[pick].revision /\ entries = io[pick].entries
    BY <1>4
  <2>2. CASE io[pick].revision <= storage.revision BY <1>1, <1>2, <2>2
  <2>3. CASE ~ (io[pick].revision <= storage.revision)
    <3>1. storage' = [storage EXCEPT !.at = "writing", !.revision = revision, !.entries = entries]
      BY <1>1, <2>1, <2>3
    <3>2. storage' \in Storages /\ storage'.success = storage.success /\ storage'.at = "writing"
          /\ storage'.revision = revision /\ storage'.entries = entries
      BY <1>2, <3>1 DEF Storages
    <3>3. io[pick].revision > storage.revision BY <1>2, <1>4, <2>3
    <3> QED BY <2>1, <3>2, <3>3
  <2> QED BY <2>2, <2>3
<1>6. /\ io' \in Seq(IoJobs)
      /\ \A i \in DOMAIN io' : i + count \in DOMAIN io /\ io'[i] = io[i + count] /\ i + count # 1
      /\ \A i \in DOMAIN io : i \in 1..count \/ (i - count \in DOMAIN io' /\ io'[i - count] = io[i])
  <2>1. io' = SubSeq(io, count + 1, Len(io)) /\ count \in 1..Len(io) BY <1>1
  <2>2. io' \in Seq(IoJobs) /\ Len(io') = Len(io) - count BY <1>2, <2>1
  <2>3. \A i \in 1..Len(io') : io'[i] = io[i + count] BY <1>2, <2>1, <2>2
  <2> QED BY <1>2, <2>1, <2>2, <2>3
<1>7. UNCHANGED <<reducer, permitted, shuttingDown, listFile, monitor, samples, pending,
                  pastes, copies, cleared>>
  BY DEF TakeSave, workerVars
<1>8. \A i \in 1..count : io[i].kind = "save" /\ io[pick].revision >= io[i].revision BY <1>1
<1> QED BY <1>1, <1>3, <1>5, <1>6, <1>7, <1>8

LEMMA TakeSaveKept == ASSUME HistoryInv, TakeSave PROVE HistoryInv'
<1>1. PICK count \in 1..Len(io), pick \in DOMAIN io :
           /\ history.loaded /\ storage' \in Storages /\ io' \in Seq(IoJobs)
           /\ \A i \in DOMAIN io' :
                     i + count \in DOMAIN io /\ io'[i] = io[i + count] /\ i + count # 1
           /\ UNCHANGED <<reducer, permitted, shuttingDown, listFile, monitor, samples, pending,
                          pastes, copies, cleared>>
  BY TakeSaveProof
<1>2. HistoryTypeOK' BY <1>1 DEF HistoryInv, HistoryTypeOK, reducer
<1>3. \A i \in DOMAIN io' : io'[i].kind # "load" BY <1>1 DEF HistoryInv, LoadOnce
<1> QED BY <1>1, <1>2, <1>3, LoadedProof DEF reducer

LEMMA WriteProof ==
    ASSUME HistoryInv, WriteList
    PROVE  /\ storage.at = "writing" /\ history.loaded
           /\ storage' \in Storages /\ storage'.at = "idle" /\ storage'.revision = storage.revision
           /\ storage'.success => listFile' = storage.entries
           /\ UNCHANGED <<reducer, permitted, shuttingDown, io, monitor, samples, pending,
                          pastes, copies, cleared>>
<1>1. PICK success \in BOOLEAN :
         /\ listFile' = IF success THEN storage.entries ELSE listFile
         /\ storage' = [storage EXCEPT !.at = "idle", !.entries = <<>>, !.success = success]
  BY DEF WriteList
<1>2. storage \in Storages /\ <<>> \in Seq(Entry) BY DEF HistoryInv, HistoryTypeOK
<1>3. storage' \in Storages /\ storage'.at = "idle" /\ storage'.revision = storage.revision
      /\ storage'.success = success
  BY <1>1, <1>2 DEF Storages
<1>4. storage.at = "writing" /\ "writing" # "idle" BY DEF WriteList
<1> QED BY <1>1, <1>3, <1>4 DEF WriteList, HistoryInv, NotLoaded, workerVars

LEMMA WriteKept == ASSUME HistoryInv, WriteList PROVE HistoryInv'
  BY WriteProof DEF HistoryInv, HistoryTypeOK, NotLoaded, LoadOnce, reducer

LEMMA StopProof ==
    ASSUME HistoryInv, StopStorage
    PROVE  /\ storage' \in Storages /\ storage'.at = "stopped" /\ history.loaded
           /\ storage.at = "idle" /\ storage'.revision = storage.revision
           /\ storage'.success = storage.success
           /\ 1 \in DOMAIN io /\ io[1].kind = "stop"
           /\ io' \in Seq(IoJobs) /\ ~monitor'
           /\ \A i \in DOMAIN io' : i + 1 \in DOMAIN io /\ io'[i] = io[i + 1] /\ i + 1 # 1
           /\ \A i \in DOMAIN io : i # 1 => i - 1 \in DOMAIN io' /\ io'[i - 1] = io[i]
           /\ UNCHANGED <<reducer, permitted, shuttingDown, listFile, samples, pending, pastes,
                          copies, cleared>>
<1>1. io \in Seq(IoJobs) /\ io # <<>> /\ 1 \in DOMAIN io /\ io[1].kind = "stop" /\ history.loaded
      /\ storage.at = "idle"
  BY JobProof DEF StopStorage, HistoryInv, HistoryTypeOK
<1>2. storage' \in Storages /\ storage'.at = "stopped" /\ storage'.revision = storage.revision
      /\ storage'.success = storage.success
  BY DEF StopStorage, HistoryInv, HistoryTypeOK, Storages
<1>3. io' = Tail(io) /\ ~monitor' BY DEF StopStorage
<1>4. \A i \in DOMAIN Tail(io) : i + 1 # 1 BY <1>1
<1> QED BY <1>1, <1>2, <1>3, <1>4, TailProof DEF StopStorage, workerVars

LEMMA StopKept == ASSUME HistoryInv, StopStorage PROVE HistoryInv'
<1>1. HistoryTypeOK'
  <2>1. monitor' \in BOOLEAN
    <3>1. monitor' = FALSE BY DEF StopStorage
    <3> QED BY <3>1
  <2> QED BY <2>1, StopProof DEF HistoryInv, HistoryTypeOK, reducer
<1>2. \A i \in DOMAIN io' : io'[i].kind # "load" BY StopProof DEF HistoryInv, LoadOnce
<1> QED BY <1>1, <1>2, StopProof, LoadedProof DEF reducer

LEMMA NextKept == ASSUME HistoryInv, [HistoryNext]_historyVars PROVE HistoryInv'
<1>1. CASE HistoryUser
  <2>1. \A id \in 1..history.nextEntry : id \in Nat BY DEF HistoryInv, HistoryTypeOK, Lists
  <2> QED
    BY <1>1, <2>1, OpenKept, PinKept, EndKept, ClearKept, DeleteKept, CopyKept, PasteKept
    DEF HistoryUser
<1>2. CASE SwitchRecording \/ Shutdown \/ StorageThread
  BY <1>2, SwitchKept, ShutdownKept, LoadKept, SetRecordingKept, TakeSaveKept, WriteKept, StopKept
  DEF StorageThread
<1>3. CASE \E n \in Limits : ChangeLimit(n) BY <1>3, LimitKept
<1>4. CASE \E text \in ClipTexts : SampleText(text) \/ Captured(text)
  BY <1>4, SampleKept, CapturedKept
<1>5. CASE \E thread \in HistoryThreads : Execute(thread) BY <1>5, ExecuteKept
<1>6. CASE \E w \in pastes : PasteWorker(w) BY <1>6, PasteStepKept, PasteEndKept DEF PasteWorker
<1>7. CASE \E w \in copies : CopyWorker(w) BY <1>7, CopyStartKept, CopyEndKept DEF CopyWorker
<1>8. CASE UNCHANGED historyVars
  BY <1>8 DEF HistoryInv, HistoryTypeOK, NotLoaded, LoadOnce, historyVars, reducer, runtime,
              workerVars
<1> QED BY <1>1, <1>2, <1>3, <1>4, <1>5, <1>6, <1>7, <1>8 DEF HistoryNext

----------------------------------------
(* What a step does to the list, its saves and its file.                     *)

QuietStep ==
    /\ history'.entries = history.entries /\ history'.revision = history.revision
    /\ history'.loaded <=> history.loaded
    /\ history'.storageFailed <=> history.storageFailed
    /\ Waiting(io', pending') = Waiting(io, pending)
    /\ listFile' = listFile /\ cleared' = cleared
    /\ \/ storage' = storage
       \/ /\ storage.at # "writing" /\ storage'.at # "writing"
          /\ storage'.revision = storage.revision /\ storage'.success = storage.success

RevisingStep ==
    /\ history' \in Lists /\ history'.revision = history.revision + 1
    /\ history'.loaded <=> history.loaded
    /\ Waiting(io', pending') = Waiting(io, pending) \cup ({SaveOf(history')} \cap Saves)
    /\ listFile' = listFile /\ storage' = storage
    /\ history.loaded \/ "early clear" \in UserActions
    /\ \/ cleared'
       \/ /\ cleared' = cleared /\ history.loaded
          /\ history'.storageFailed <=> history.storageFailed

LoadingStep ==
    /\ ~history.loaded /\ history'.loaded /\ history' \in Lists
    /\ listFile' = listFile /\ storage' = storage /\ storage.at = "idle" /\ cleared' = cleared
    /\ \/ history'.storageFailed /\ Waiting(io', pending') = Waiting(io, pending)
          /\ history'.revision = history.revision
       \/ /\ ~history'.storageFailed
          /\ \/ /\ history'.revision = history.revision /\ history'.entries = listFile
                /\ Waiting(io', pending') = Waiting(io, pending)
             \/ /\ history'.revision = history.revision + 1
                /\ Waiting(io', pending') = Waiting(io, pending)
                                            \cup ({SaveOf(history')} \cap Saves)

TakingStep ==
    /\ UNCHANGED <<history, listFile, cleared>> /\ storage.at = "idle"
    /\ storage'.success = storage.success
    /\ \E pick \in Waiting(io, pending) :
       /\ Waiting(io', pending') \subseteq Waiting(io, pending)
       /\ \A save \in Waiting(io, pending) :
             save \in Waiting(io', pending') \/ save.revision <= pick.revision
       /\ \/ pick.revision <= storage.revision /\ storage' = storage
          \/ /\ pick.revision > storage.revision /\ storage'.at = "writing"
             /\ storage'.revision = pick.revision /\ storage'.entries = pick.entries

WritingStep ==
    /\ UNCHANGED <<history, io, pending, cleared>> /\ storage.at = "writing"
    /\ storage'.at = "idle" /\ storage'.revision = storage.revision
    /\ storage'.success => listFile' = storage.entries

\* Jobs that are added to a queue and are not saves leave its saves alone.
LEMMA QueueWaits ==
    ASSUME NEW jobs,
           \A i \in DOMAIN jobs : i \in DOMAIN io' /\ io'[i] = jobs[i],
           \A i \in DOMAIN io' : i \in DOMAIN jobs \/ io'[i].kind # "save"
    PROVE  Waiting(io', pending') = Waiting(jobs, pending')
<1>1. \A i \in DOMAIN io' : i \in DOMAIN jobs \/ io'[i] \notin Saves BY CommandKinds
<1>2. \A save \in Saves : (\E i \in DOMAIN io' : io'[i] = save)
                          <=> \E i \in DOMAIN jobs : jobs[i] = save
  BY <1>1
<1> QED BY <1>2 DEF Waiting

LEMMA IssueWaits ==
    ASSUME HistoryTypeOK, NEW jobs, NEW thread \in HistoryThreads, Available(thread),
           NEW c \in {NoCommand} \cup Saves \cup Clicks, Issue(thread, c)
    PROVE  Waiting(jobs, pending') = Waiting(jobs, pending) \cup ({c} \cap Saves)
<1>1. pending'[thread] = c /\ \A t \in HistoryThreads : t # thread => pending'[t] = pending[t]
  BY IssueProof
<1>2. pending[thread] \notin Saves BY CommandKinds DEF Available
<1>3. \A save \in Saves : (\E t \in HistoryThreads : pending'[t] = save)
                          <=> (\E t \in HistoryThreads : pending[t] = save) \/ save = c
  BY <1>1, <1>2
<1> QED BY <1>3 DEF Waiting

\* A job at the head that is not a save leaves them alone when it is taken.
LEMMA TailWaits ==
    ASSUME HistoryInv, 1 \in DOMAIN io, io[1].kind # "save"
    PROVE  Waiting(Tail(io), pending) = Waiting(io, pending)
<1>1. /\ \A i \in DOMAIN Tail(io) : i + 1 \in DOMAIN io /\ Tail(io)[i] = io[i + 1]
      /\ \A i \in DOMAIN io : i # 1 => i - 1 \in DOMAIN Tail(io) /\ Tail(io)[i - 1] = io[i]
  <2>1. io \in Seq(IoJobs) /\ io # <<>> BY DEF HistoryInv, HistoryTypeOK
  <2> QED BY <2>1, TailProof
<1>2. io[1] \notin Saves BY CommandKinds
<1>3. \A save \in Saves : (\E i \in DOMAIN Tail(io) : Tail(io)[i] = save)
                          <=> \E i \in DOMAIN io : io[i] = save
  BY <1>1, <1>2
<1> QED BY <1>3 DEF Waiting

LEMMA TurnQuiet ==
    ASSUME HistoryInv, NEW s, NEW on \in BOOLEAN, Transition(history, s, on, io),
           \/ pending' = pending
           \/ \E thread \in HistoryThreads, c \in Clicks : Available(thread) /\ Issue(thread, c),
           UNCHANGED <<storage, listFile, cleared>>
    PROVE  QuietStep
<1>1. /\ history' = history
      /\ \A i \in DOMAIN io : i \in DOMAIN io' /\ io'[i] = io[i]
      /\ \A i \in DOMAIN io' : i \in DOMAIN io \/ io'[i].kind # "save"
  <2>1. HistoryTypeOK /\ history \in Lists /\ io \in Seq(IoJobs) BY DEF HistoryInv, HistoryTypeOK
  <2> QED BY <2>1, TransitionProof
<1>2. Waiting(io', pending') = Waiting(io, pending') BY <1>1, QueueWaits
<1>3. Waiting(io, pending') = Waiting(io, pending)
  <2>1. CASE pending' = pending BY <2>1
  <2>2. CASE \E thread \in HistoryThreads, c \in Clicks : Available(thread) /\ Issue(thread, c)
    <3>1. PICK thread \in HistoryThreads, c \in Clicks : Available(thread) /\ Issue(thread, c)
      BY <2>2
    <3>2. c \notin Saves BY CommandKinds
    <3>3. Waiting(io, pending') = Waiting(io, pending) \cup ({c} \cap Saves)
      BY <3>1, IssueWaits DEF HistoryInv
    <3> QED BY <3>2, <3>3
  <2> QED BY <2>1, <2>2
<1> QED BY <1>1, <1>2, <1>3 DEF QuietStep

LEMMA ReviseProof ==
    ASSUME HistoryInv, history' \in Lists, NEW thread \in HistoryThreads, Available(thread),
           NEW jobs \in Seq(IoJobs), Transition(history', session', enabled, jobs),
           Issue(thread, SaveOf(history'))
    PROVE  Waiting(io', pending') = Waiting(jobs, pending) \cup ({SaveOf(history')} \cap Saves)
<1>1. /\ \A i \in DOMAIN jobs : i \in DOMAIN io' /\ io'[i] = jobs[i]
      /\ \A i \in DOMAIN io' : i \in DOMAIN jobs \/ io'[i].kind # "save"
  BY TransitionQueue DEF HistoryInv
<1>2. PICK c \in {NoCommand} \cup Saves \cup Clicks : c = SaveOf(history') BY SaveOfProof
<1>3. Waiting(io', pending') = Waiting(jobs, pending') BY <1>1, QueueWaits
<1>4. Waiting(jobs, pending') = Waiting(jobs, pending) \cup ({c} \cap Saves)
  BY <1>2, IssueWaits DEF HistoryInv
<1> QED BY <1>2, <1>3, <1>4

LEMMA UserShapes == ASSUME HistoryInv, HistoryUser PROVE QuietStep \/ RevisingStep
<1>1. HistoryTypeOK /\ enabled \in BOOLEAN /\ io \in Seq(IoJobs) /\ "ui" \in HistoryThreads
  BY DEF HistoryInv, HistoryTypeOK, HistoryThreads
<1>2. CASE OpenHistory BY <1>1, <1>2, TurnQuiet DEF OpenHistory
<1>3. CASE SetPinned BY <1>1, <1>3, TurnQuiet DEF SetPinned, UserTurn
<1>4. CASE LeaveSession BY <1>1, <1>4, TurnQuiet DEF LeaveSession
<1>5. CASE CloseHistory BY <1>1, <1>5, TurnQuiet DEF CloseHistory, UserTurn
<1>6. CASE ClearHistory
  <2>1. Available("ui") /\ (history.loaded \/ "early clear" \in UserActions)
    BY <1>6 DEF ClearHistory
  <2>2. Waiting(io', pending') = Waiting(io, pending) \cup ({SaveOf(history')} \cap Saves)
    BY <1>1, <1>6, <2>1, ClearProof, ReviseProof
  <2> QED BY <1>6, <2>1, <2>2, ClearProof DEF RevisingStep
<1>7. ASSUME NEW id \in 1..history.nextEntry, DeleteEntry(id) PROVE RevisingStep
  <2>1. Available("ui") /\ id \in Nat BY <1>7 DEF DeleteEntry, HistoryInv, HistoryTypeOK, Lists
  <2>2. Waiting(io', pending') = Waiting(io, pending) \cup ({SaveOf(history')} \cap Saves)
    BY <1>1, <1>7, <2>1, DeleteProof, ReviseProof
  <2> QED BY <1>7, <2>1, <2>2, DeleteProof DEF RevisingStep
<1>8. ASSUME NEW i \in DOMAIN history.entries, CopyEntry(i) PROVE QuietStep
  <2>1. PICK s \in Windows, c \in Clicks : UserTurn(s) /\ Issue("ui", c)
    BY ZenonT(60), <1>8, CopyProof
  <2>2. /\ Transition(history, s, enabled, io) /\ Available("ui")
        /\ UNCHANGED <<storage, listFile, cleared>>
    BY <2>1 DEF UserTurn
  <2> QED BY <1>1, <2>1, <2>2, TurnQuiet
<1>9. ASSUME NEW i \in DOMAIN history.entries, PasteEntry(i) PROVE QuietStep
  <2> DEFINE c == [kind |-> "paste", session |-> session.id, request |-> session.request + 1,
                   entry |-> history.entries[i]]
             s == [session EXCEPT !.busy = TRUE, !.request = @ + 1]
  <2>1. UserTurn(s) /\ Issue("ui", c) BY <1>9 DEF PasteEntry
  <2>2. c \in Clicks
    <3>1. session.request + 1 \in Nat BY <1>1 DEF HistoryTypeOK, Windows
    <3> QED BY <1>1, <3>1, ClickedTyped
  <2> HIDE DEF c, s
  <2>3. /\ Transition(history, s, enabled, io) /\ Available("ui")
        /\ UNCHANGED <<storage, listFile, cleared>>
    BY <2>1 DEF UserTurn
  <2> QED BY <1>1, <2>1, <2>2, <2>3, TurnQuiet
<1> QED BY <1>2, <1>3, <1>4, <1>5, <1>6, <1>7, <1>8, <1>9 DEF HistoryUser

LEMMA CapturedShapes ==
    ASSUME HistoryInv, NEW text \in ClipTexts, SampleText(text) \/ Captured(text)
    PROVE  QuietStep \/ RevisingStep
<1>1. /\ HistoryTypeOK /\ enabled \in BOOLEAN /\ io \in Seq(IoJobs) /\ "monitor" \in HistoryThreads
      /\ history \in Lists /\ limit \in Nat
  BY LimitsAssumption DEF HistoryInv, HistoryTypeOK, HistoryThreads
<1>2. CASE SampleText(text) BY <1>2 DEF SampleText, QuietStep, reducer
<1>3. CASE Captured(text) /\ ~ (history.loaded /\ enabled)
  <2>1. Transition(history, session, enabled, io) /\ pending' = pending
        /\ UNCHANGED <<storage, listFile, cleared>>
    BY <1>3 DEF Captured
  <2> QED BY <1>1, <2>1, TurnQuiet
<1>4. CASE Captured(text) /\ history.loaded /\ enabled
  <2>1. PICK h \in Recorded(history, text, limit) :
           /\ Transition(h, KeepCopies(session, h.entries), enabled, io)
           /\ Issue("monitor", SaveOf(h))
    BY <1>4 DEF Captured
  <2>2. /\ h \in Lists /\ h.revision = history.revision + 1 /\ h.loaded = history.loaded
        /\ h.storageFailed = history.storageFailed
    BY <1>1, RecordedProof
  <2>3. history' = h /\ session' = KeepCopies(session, h.entries) BY <2>1 DEF Transition
  <2>4. Available("monitor") /\ UNCHANGED <<storage, listFile, cleared>> BY <1>4 DEF Captured
  <2>5. /\ history' \in Lists /\ Transition(history', session', enabled, io)
        /\ Issue("monitor", SaveOf(history'))
    BY <2>1, <2>2, <2>3
  <2>6. Waiting(io', pending') = Waiting(io, pending) \cup ({SaveOf(history')} \cap Saves)
    BY <1>1, <2>4, <2>5, ReviseProof
  <2> QED BY <1>4, <2>2, <2>3, <2>4, <2>6 DEF RevisingStep
<1> QED BY <1>2, <1>3, <1>4

LEMMA LimitShapes ==
    ASSUME HistoryInv, NEW n \in Limits, ChangeLimit(n) PROVE QuietStep \/ RevisingStep
<1>1. /\ HistoryTypeOK /\ history \in Lists /\ n \in Nat /\ "settings" \in HistoryThreads
      /\ io \in Seq(IoJobs) /\ "settings" # "storage"
  BY LimitsAssumption DEF HistoryInv, HistoryTypeOK, HistoryThreads
<1>2. /\ ReconcileLimit(history, n, "settings") /\ Available("settings")
      /\ UNCHANGED <<storage, listFile, cleared>>
  BY DEF ChangeLimit
<1>3. /\ history' \in Lists /\ history'.loaded = history.loaded
      /\ history'.storageFailed = history.storageFailed
      /\ \/ history' = history /\ pending' = pending
         \/ /\ history.entries # <<>> /\ history'.revision = history.revision + 1
            /\ Issue("settings", SaveOf(history'))
      /\ Transition(history', session', enabled, io)
      /\ \A i \in DOMAIN io : i \in DOMAIN io' /\ io'[i] = io[i]
      /\ \A i \in DOMAIN io' : i \in DOMAIN io \/ io'[i].kind = "recording"
  BY <1>1, <1>2, ReconcileProof
<1>4. CASE history' = history /\ pending' = pending
  <2>1. Waiting(io', pending') = Waiting(io, pending') BY <1>3, QueueWaits
  <2> QED BY <1>2, <1>4, <2>1 DEF QuietStep
<1>5. CASE history.entries # <<>> /\ history'.revision = history.revision + 1
           /\ Issue("settings", SaveOf(history'))
  <2>1. Waiting(io', pending') = Waiting(io, pending) \cup ({SaveOf(history')} \cap Saves)
    BY <1>1, <1>2, <1>3, <1>5, ReviseProof
  <2>2. history.loaded BY <1>5 DEF HistoryInv, NotLoaded
  <2> QED BY <1>2, <1>3, <1>5, <2>1, <2>2 DEF RevisingStep
<1> QED BY <1>3, <1>4, <1>5

LEMMA ExecuteShape ==
    ASSUME HistoryInv, NEW thread \in HistoryThreads, Execute(thread) PROVE QuietStep
<1>1. PICK c \in Saves \cup Clicks :
           /\ pending[thread] = c /\ pending'[thread] = NoCommand
           /\ \A t \in HistoryThreads : t # thread => pending'[t] = pending[t]
           /\ \A i \in DOMAIN io : i \in DOMAIN io' /\ io'[i] = io[i]
           /\ \A i \in DOMAIN io' : i \in DOMAIN io \/ (io'[i] = c /\ c.kind = "save")
           /\ c.kind = "save" => \E i \in DOMAIN io' : io'[i] = c
           /\ UNCHANGED <<reducer, storage, listFile, cleared>>
  BY ExecuteProof
<1>2. c \in Saves => c.kind = "save" BY CommandKinds
<1>3. NoCommand \notin Saves BY CommandKinds
<1>4. Waiting(io', pending') = Waiting(io, pending)
  <2>1. ASSUME NEW save \in Waiting(io', pending') PROVE save \in Waiting(io, pending)
    BY <1>1, <1>3 DEF Waiting
  <2>2. ASSUME NEW save \in Waiting(io, pending) PROVE save \in Waiting(io', pending')
    BY <1>1, <1>2 DEF Waiting
  <2> QED BY <2>1, <2>2
<1> QED BY <1>1, <1>4 DEF QuietStep, reducer

LEMMA WorkerShapes ==
    ASSUME HistoryInv,
           (\E w \in pastes : PasteWorker(w)) \/ (\E w \in copies : CopyWorker(w))
    PROVE  QuietStep
<1>1. CASE UNCHANGED <<reducer, runtime, pending, cleared>> BY <1>1 DEF QuietStep, reducer, runtime
<1>2. CASE \E s : Transition(history, s, enabled, io)
           /\ UNCHANGED <<pending, storage, listFile, cleared>>
  BY <1>2, TurnQuiet DEF HistoryInv, HistoryTypeOK
<1>3. ASSUME NEW w \in pastes, PasteWorker(w) PROVE QuietStep
  <2>1. CASE PasteAdvances(w) \/ PasteFails(w)
    <3>1. UNCHANGED <<reducer, runtime, pending, cleared>> BY <2>1 DEF PasteAdvances, PasteFails
    <3> QED BY <1>1, <3>1
  <2>2. CASE PasteFinished(w) BY <1>2, <2>2 DEF PasteFinished
  <2> QED BY <1>3, <2>1, <2>2 DEF PasteWorker
<1>4. ASSUME NEW w \in copies, CopyWorker(w) PROVE QuietStep
  <2>1. CASE CopyStarts(w) BY <1>1, <2>1 DEF CopyStarts
  <2>2. CASE CopyFinished(w)
    <3>1. \E s : Transition(history, s, enabled, io) BY <2>2 DEF CopyFinished
    <3>2. UNCHANGED <<pending, storage, listFile, cleared>> BY <2>2 DEF CopyFinished
    <3> QED BY <1>2, <3>1, <3>2
  <2> QED BY <1>4, <2>1, <2>2 DEF CopyWorker
<1> QED BY <1>3, <1>4

LEMMA ShutdownShape == ASSUME HistoryInv, Shutdown PROVE QuietStep
<1>1. io' = Append(io, StopJob) /\ StopJob \in IoJobs /\ StopJob.kind = "stop"
      /\ io \in Seq(IoJobs)
  BY DEF Shutdown, StopJob, IoJobs, HistoryInv, HistoryTypeOK
<1>2. /\ \A i \in DOMAIN io : i \in DOMAIN io' /\ io'[i] = io[i]
      /\ \A i \in DOMAIN io' : i \in DOMAIN io \/ io'[i].kind # "save"
  BY <1>1, AppendProof
<1>3. Waiting(io', pending') = Waiting(io, pending') BY <1>2, QueueWaits
<1> QED BY <1>3 DEF QuietStep, Shutdown, reducer

\* A transition of the storage thread over a job that is not a save.
LEMMA HeadWaits ==
    ASSUME HistoryInv, 1 \in DOMAIN io, io[1].kind # "save", history' \in Lists,
           Transition(history', session', enabled, Tail(io))
    PROVE  Waiting(io', pending') = Waiting(Tail(io), pending')
<1>1. HistoryTypeOK /\ Tail(io) \in Seq(IoJobs) BY TailProof DEF HistoryInv, HistoryTypeOK
<1>2. /\ \A i \in DOMAIN Tail(io) : i \in DOMAIN io' /\ io'[i] = Tail(io)[i]
      /\ \A i \in DOMAIN io' : i \in DOMAIN Tail(io) \/ io'[i].kind # "save"
  BY <1>1, TransitionQueue
<1> QED BY <1>2, QueueWaits

LEMMA LoadShape == ASSUME HistoryInv, LoadList PROVE LoadingStep
<1>1. 1 \in DOMAIN io /\ io[1].kind = "load" /\ Available("storage") /\ storage.at = "idle"
  BY JobProof DEF LoadList, JobIs
<1>2. /\ ~history.loaded /\ history'.loaded /\ history' \in Lists
      /\ Transition(history', session', enabled, Tail(io))
      /\ UNCHANGED <<storage, listFile, cleared>>
      /\ \/ /\ history' = [history EXCEPT !.loaded = TRUE, !.storageFailed = TRUE]
            /\ history'.storageFailed /\ pending' = pending
         \/ /\ ~history'.storageFailed
            /\ \/ /\ history'.revision = history.revision /\ history'.entries = listFile
                  /\ pending' = pending
               \/ /\ history'.revision = history.revision + 1
                  /\ Issue("storage", SaveOf(history'))
  BY LoadProof DEF HistoryTypeOK
<1>3. Waiting(io', pending') = Waiting(Tail(io), pending') BY <1>1, <1>2, HeadWaits
<1>4. Waiting(Tail(io), pending) = Waiting(io, pending) BY <1>1, TailWaits
<1>5. HistoryTypeOK /\ "storage" \in HistoryThreads /\ Tail(io) \in Seq(IoJobs)
  BY <1>1, TailProof DEF HistoryInv, HistoryTypeOK, HistoryThreads
<1>6. CASE history' = [history EXCEPT !.loaded = TRUE, !.storageFailed = TRUE]
           /\ history'.storageFailed /\ pending' = pending
  <2>1. history'.revision = history.revision BY <1>5, <1>6 DEF HistoryTypeOK, Lists
  <2> QED BY <1>1, <1>2, <1>3, <1>4, <1>6, <2>1 DEF LoadingStep
<1>7. CASE /\ ~history'.storageFailed /\ history'.revision = history.revision
           /\ history'.entries = listFile /\ pending' = pending
  BY <1>1, <1>2, <1>3, <1>4, <1>7 DEF LoadingStep
<1>8. CASE /\ ~history'.storageFailed /\ history'.revision = history.revision + 1
           /\ Issue("storage", SaveOf(history'))
  <2>1. Waiting(io', pending') = Waiting(Tail(io), pending) \cup ({SaveOf(history')} \cap Saves)
    BY <1>1, <1>2, <1>5, <1>8, ReviseProof
  <2> QED BY <1>1, <1>2, <1>4, <1>8, <2>1 DEF LoadingStep
<1> QED BY <1>2, <1>6, <1>7, <1>8

LEMMA RecordingShape == ASSUME HistoryInv, SetRecording PROVE QuietStep
<1>1. 1 \in DOMAIN io /\ io[1].kind # "save"
  <2>1. 1 \in DOMAIN io /\ io[1].kind = "recording" BY JobProof DEF SetRecording
  <2> QED BY <2>1
<1>2. /\ history' = [history EXCEPT !.recording = history'.recording] /\ history' \in Lists
      /\ Transition(history', session', enabled, Tail(io))
      /\ UNCHANGED <<storage, listFile, pending, cleared>>
  BY SetRecordingProof DEF HistoryTypeOK
<1>3. Waiting(io', pending') = Waiting(Tail(io), pending') BY <1>1, <1>2, HeadWaits
<1>4. Waiting(Tail(io), pending) = Waiting(io, pending) BY <1>1, TailWaits
<1>5. /\ history'.entries = history.entries /\ history'.revision = history.revision
      /\ history'.loaded = history.loaded /\ history'.storageFailed = history.storageFailed
  BY <1>2 DEF HistoryInv, HistoryTypeOK, Lists
<1> QED BY <1>2, <1>3, <1>4, <1>5 DEF QuietStep

LEMMA StopShape == ASSUME HistoryInv, StopStorage PROVE QuietStep
<1>1. io' = Tail(io) /\ 1 \in DOMAIN io /\ io[1].kind = "stop" BY StopProof DEF StopStorage
<1>2. Waiting(Tail(io), pending) = Waiting(io, pending) BY <1>1, TailWaits
<1>3. /\ storage.at = "idle" /\ storage'.at = "stopped" /\ storage'.revision = storage.revision
      /\ storage'.success = storage.success
      /\ UNCHANGED <<reducer, pending, listFile, cleared>>
  BY StopProof
<1> QED BY <1>1, <1>2, <1>3 DEF QuietStep, reducer

LEMMA TakeShape == ASSUME HistoryInv, TakeSave PROVE TakingStep
<1>1. PICK count \in 1..Len(io), p \in DOMAIN io :
           /\ \A i \in 1..count : io[i].kind = "save" /\ io[p].revision >= io[i].revision
           /\ io[p].kind = "save" /\ io[p] \in Saves /\ storage.at = "idle"
           /\ storage'.success = storage.success
           /\ \/ io[p].revision <= storage.revision /\ storage' = storage
              \/ /\ io[p].revision > storage.revision /\ storage'.at = "writing"
                 /\ storage'.revision = io[p].revision /\ storage'.entries = io[p].entries
           /\ \A i \in DOMAIN io' : i + count \in DOMAIN io /\ io'[i] = io[i + count]
           /\ \A i \in DOMAIN io :
                  i \in 1..count \/ (i - count \in DOMAIN io' /\ io'[i - count] = io[i])
           /\ UNCHANGED <<reducer, listFile, pending, cleared>>
  BY TakeSaveProof
<1>2. PICK pick \in Saves : pick = io[p] BY <1>1
<1>3. pick \in Waiting(io, pending) BY <1>2 DEF Waiting
<1>4. Waiting(io', pending') \subseteq Waiting(io, pending) BY <1>1 DEF Waiting
<1>5. ASSUME NEW save \in Waiting(io, pending), save \notin Waiting(io', pending')
      PROVE  save.revision <= pick.revision
  <2>1. \A t \in HistoryThreads : pending[t] # save BY <1>1, <1>5 DEF Waiting
  <2>2. PICK i \in DOMAIN io : io[i] = save BY <2>1 DEF Waiting
  <2>3. i \in 1..count BY <1>1, <1>5, <2>2 DEF Waiting
  <2>4. pick.revision >= save.revision /\ save \in Saves BY <1>1, <1>2, <2>2, <2>3 DEF Waiting
  <2>5. pick.revision \in Nat /\ save.revision \in Nat BY <2>4 DEF Saves
  <2> QED BY <2>4, <2>5
<1>6. \/ pick.revision <= storage.revision /\ storage' = storage
      \/ /\ pick.revision > storage.revision /\ storage'.at = "writing"
         /\ storage'.revision = pick.revision /\ storage'.entries = pick.entries
  BY <1>1, <1>2
<1>7. storage.at = "idle" /\ storage'.success = storage.success
      /\ UNCHANGED <<history, listFile, cleared>>
  BY <1>1 DEF reducer
<1> QED BY <1>3, <1>4, <1>5, <1>6, <1>7 DEF TakingStep

LEMMA StepShapes ==
    ASSUME HistoryInv, [HistoryNext]_historyVars
    PROVE  QuietStep \/ RevisingStep \/ LoadingStep \/ TakingStep \/ WritingStep
<1>1. CASE HistoryUser BY <1>1, UserShapes
<1>2. CASE SwitchRecording
  <2>1. /\ Transition(history, session, ~enabled, io) /\ pending' = pending
        /\ UNCHANGED <<storage, listFile, cleared>> /\ (~enabled) \in BOOLEAN
    BY <1>2 DEF SwitchRecording
  <2> QED BY <2>1, TurnQuiet
<1>3. CASE Shutdown BY <1>3, ShutdownShape
<1>4. CASE StorageThread
  <2>1. CASE WriteList
    <3>1. UNCHANGED <<history, io, pending, cleared>> BY <2>1 DEF WriteList, reducer
    <3> QED BY <2>1, <3>1, WriteProof DEF WritingStep
  <2> QED BY <1>4, <2>1, LoadShape, RecordingShape, TakeShape, StopShape DEF StorageThread
<1>5. CASE \E n \in Limits : ChangeLimit(n) BY <1>5, LimitShapes
<1>6. CASE \E text \in ClipTexts : SampleText(text) \/ Captured(text) BY <1>6, CapturedShapes
<1>7. CASE \E thread \in HistoryThreads : Execute(thread) BY <1>7, ExecuteShape
<1>8. CASE (\E w \in pastes : PasteWorker(w)) \/ (\E w \in copies : CopyWorker(w))
  BY <1>8, WorkerShapes
<1>9. CASE UNCHANGED historyVars BY <1>9 DEF QuietStep, historyVars, reducer, runtime
<1> QED BY <1>1, <1>2, <1>3, <1>4, <1>5, <1>6, <1>7, <1>8, <1>9 DEF HistoryNext

----------------------------------------
LEMMA WritableInit == ASSUME HistoryInit PROVE Writable /\ FollowInv
<1>1. \A i \in DOMAIN io : io[i] = LoadJob BY DEF HistoryInit
<1>2. LoadJob \notin Saves /\ NoCommand \notin Saves BY CommandKinds DEF LoadJob
<1>3. Waiting(io, pending) = {} BY <1>1, <1>2 DEF Waiting, HistoryInit
<1>4. /\ history.revision = 0 /\ ~history.loaded /\ ~history.recording
      /\ storage.at = "idle" /\ storage.revision = 0 /\ ~permitted /\ ~monitor
  BY DEF HistoryInit
<1>5. \A i \in DOMAIN io : io[i].kind = "load" BY <1>1 DEF LoadJob
<1> QED
  BY <1>3, <1>4, <1>5 DEF Writable, FollowInv, SavesKnown, LatestKept, RecordingFollows, QueueAgrees

LEMMA WritableKept ==
    ASSUME HistoryInv, Writable, [HistoryNext]_historyVars PROVE Writable'
<1>1. (storage'.at = "writing" \/ Waiting(io', pending') # {}) => Justified'
  <2>1. CASE QuietStep
    <3>1. cleared' = cleared /\ (history'.loaded <=> history.loaded)
          /\ (history'.storageFailed <=> history.storageFailed)
      BY <2>1 DEF QuietStep
    <3>2. Justified => Justified' BY <3>1 DEF Justified
    <3>3. storage'.at = "writing" => storage.at = "writing" BY <2>1 DEF QuietStep
    <3> QED BY <2>1, <3>2, <3>3 DEF QuietStep, Writable
  <2>2. CASE RevisingStep
    <3>1. SaveOf(history') \in Saves => ~history'.storageFailed
      BY <2>2, SaveOfProof, CommandKinds DEF RevisingStep
    <3>2. Justified => Justified' BY <2>2 DEF RevisingStep, Justified
    <3>3. Waiting(io', pending') = Waiting(io, pending) \/ Justified'
      <4>1. CASE SaveOf(history') \in Saves BY <2>2, <3>1, <4>1 DEF RevisingStep, Justified
      <4>2. CASE SaveOf(history') \notin Saves BY <2>2, <4>2 DEF RevisingStep
      <4> QED BY <4>1, <4>2
    <3>4. storage' = storage BY <2>2 DEF RevisingStep
    <3> QED BY <3>2, <3>3, <3>4 DEF Writable
  <2>3. CASE LoadingStep
    <3>1. Waiting(io, pending) = {} \/ cleared BY <2>3 DEF LoadingStep, Writable, Justified
    <3> QED BY <2>3, <3>1 DEF LoadingStep, Justified
  <2>4. CASE TakingStep BY <2>4 DEF TakingStep, Writable, Justified
  <2>5. CASE WritingStep BY <2>5 DEF WritingStep, Writable, Justified
  <2> QED BY <2>1, <2>2, <2>3, <2>4, <2>5, StepShapes
<1> QED BY <1>1 DEF Writable

\* A file that could not be loaded is left as it is until the user clears the history.
THEOREM UnreadableIsKept == HistorySpec => UnreadableKept
<1>1. HistoryInit => HistoryInv /\ Writable BY InitKept, WritableInit
<1>2. HistoryInv /\ Writable /\ [HistoryNext]_historyVars => (HistoryInv /\ Writable)'
  BY NextKept, WritableKept
<1>3. HistoryInv /\ Writable /\ [HistoryNext]_historyVars
      => [listFile' # listFile => cleared \/ (history.loaded /\ ~history.storageFailed)]_historyVars
  <2>1. ASSUME HistoryInv, Writable, [HistoryNext]_historyVars, listFile' # listFile
        PROVE  Justified
    BY <2>1, StepShapes
    DEF Writable, QuietStep, RevisingStep, LoadingStep, TakingStep, WritingStep
  <2> QED BY <2>1 DEF Justified
<1> QED BY <1>1, <1>2, <1>3, PTL DEF HistorySpec, UnreadableKept

----------------------------------------
(* The file follows the list.                                                *)

LEMMA WaitingTyped ==
    ASSUME NEW save \in Waiting(io, pending)
    PROVE  save \in Saves /\ save.revision \in Nat /\ save.entries \in Seq(Entry)
  BY DEF Waiting, Saves

LEMMA RevisionsTyped ==
    ASSUME HistoryInv
    PROVE  history.revision \in Nat /\ storage.revision \in Nat /\ storage.success \in BOOLEAN
  BY DEF HistoryInv, HistoryTypeOK, Lists, Storages

LEMMA QuietFollows ==
    ASSUME HistoryInv, SavesKnown, LatestKept, QuietStep PROVE SavesKnown' /\ LatestKept'
<1>1. \A save : SaveOK(save) => SaveOK(save)' BY DEF QuietStep, SaveOK
<1>2. SavesKnown'
  <2>1. \A save \in Waiting(io', pending') : SaveOK(save)' BY <1>1 DEF QuietStep, SavesKnown
  <2>2. storage'.at = "writing" => storage' = storage BY DEF QuietStep
  <2>3. storage'.at = "writing" => SaveOK(storage)' BY <2>2 DEF QuietStep, SavesKnown, SaveOK
  <2>4. storage'.revision <= history'.revision /\ (~history'.loaded => history'.revision = 0)
    BY DEF QuietStep, SavesKnown
  <2> QED BY <2>1, <2>3, <2>4 DEF SavesKnown
<1>3. LatestKept' BY DEF QuietStep, LatestKept
<1> QED BY <1>2, <1>3

\* A new revision has a save of its own, which no other save can replace.
LEMMA NewRevision ==
    ASSUME HistoryInv, SavesKnown, history' \in Lists, history'.revision = history.revision + 1,
           Waiting(io', pending') = Waiting(io, pending) \cup ({SaveOf(history')} \cap Saves),
           storage' = storage, history'.loaded,
           storage.at = "writing" => history.loaded
    PROVE  SavesKnown' /\ LatestKept'
<1>1. history.revision \in Nat /\ storage.revision \in Nat BY RevisionsTyped
<1>2. ASSUME NEW save, save.revision \in Nat, SaveOK(save) PROVE SaveOK(save)'
  BY <1>1, <1>2 DEF SaveOK
<1>3. \A save \in Waiting(io', pending') : SaveOK(save)'
  <2>1. ASSUME NEW save \in Waiting(io', pending') PROVE SaveOK(save)'
    <3>1. CASE save \in Waiting(io, pending) BY <1>2, <3>1, WaitingTyped DEF SavesKnown
    <3>2. CASE save = SaveOf(history') /\ save \in Saves
      <4>1. save.revision = history'.revision /\ save.entries = history'.entries
        BY <3>2, SaveOfProof, CommandKinds
      <4>2. save.revision \in 1..history'.revision BY <1>1, <4>1
      <4> QED BY <4>1, <4>2 DEF SaveOK
    <3> QED BY <2>1, <3>1, <3>2
  <2> QED BY <2>1
<1>4. storage'.at = "writing" => SaveOK(storage)'
  <2>1. SUFFICES ASSUME storage.at = "writing" PROVE SaveOK(storage)' OBVIOUS
  <2>2. storage.revision \in 1..history.revision BY <2>1 DEF SavesKnown, SaveOK
  <2>3. storage'.revision \in 1..history'.revision /\ storage'.revision # history'.revision
    BY <1>1, <2>2
  <2> QED BY <2>3 DEF SaveOK
<1>5. storage'.revision <= history'.revision /\ storage'.revision # history'.revision
  BY <1>1 DEF SavesKnown
<1>6. ~history'.storageFailed =>
        \E save \in Waiting(io', pending') : save.revision = history'.revision
  <2>1. SUFFICES ASSUME ~history'.storageFailed
        PROVE  \E save \in Waiting(io', pending') : save.revision = history'.revision
    OBVIOUS
  <2>2. SaveOf(history').kind = "save" /\ SaveOf(history').revision = history'.revision
    BY <2>1, SaveOfProof
  <2>3. SaveOf(history') \in Saves BY <2>2, SaveOfProof, CommandKinds
  <2> QED BY <2>2, <2>3
<1> QED BY <1>3, <1>4, <1>5, <1>6 DEF SavesKnown, LatestKept

LEMMA LoadingFollows ==
    ASSUME HistoryInv, SavesKnown, LatestKept, LoadingStep PROVE SavesKnown' /\ LatestKept'
<1>1. history.revision = 0 /\ storage.revision = 0 BY RevisionsTyped DEF LoadingStep, SavesKnown
<1>2. CASE history'.revision = history.revision /\ Waiting(io', pending') = Waiting(io, pending)
           /\ (history'.storageFailed \/ history'.entries = listFile)
  <2>1. Waiting(io', pending') = {}
    <3>1. \A save \in Waiting(io, pending) : save.revision \in 1..0 BY <1>1 DEF SavesKnown, SaveOK
    <3> QED BY <1>2, <3>1
  <2>2. /\ storage'.at = "idle" /\ storage'.revision = 0 /\ history'.revision = 0
        /\ history'.loaded /\ listFile' = listFile
    BY <1>1, <1>2 DEF LoadingStep
  <2> QED BY <1>2, <2>1, <2>2 DEF SavesKnown, LatestKept
<1>3. CASE /\ history'.revision = history.revision + 1
           /\ Waiting(io', pending') = Waiting(io, pending) \cup ({SaveOf(history')} \cap Saves)
  <2>1. /\ history' \in Lists /\ storage' = storage /\ history'.loaded
        /\ storage.at # "writing"
    BY DEF LoadingStep
  <2> QED BY <1>3, <2>1, NewRevision
<1> QED BY <1>2, <1>3 DEF LoadingStep

LEMMA TakingFollows ==
    ASSUME HistoryInv, SavesKnown, LatestKept, TakingStep PROVE SavesKnown' /\ LatestKept'
<1>1. history.revision \in Nat /\ storage.revision \in Nat /\ history' = history
      /\ listFile' = listFile /\ storage.at = "idle" /\ storage'.success = storage.success
  BY RevisionsTyped DEF TakingStep
<1>2. PICK pick \in Waiting(io, pending) :
        /\ Waiting(io', pending') \subseteq Waiting(io, pending)
        /\ \A save \in Waiting(io, pending) :
              save \in Waiting(io', pending') \/ save.revision <= pick.revision
        /\ \/ pick.revision <= storage.revision /\ storage' = storage
           \/ /\ pick.revision > storage.revision /\ storage'.at = "writing"
              /\ storage'.revision = pick.revision /\ storage'.entries = pick.entries
  BY DEF TakingStep
<1>3. pick.revision \in 1..history.revision /\ SaveOK(pick) BY DEF SavesKnown, SaveOK
<1>4. \A save : SaveOK(save)' <=> SaveOK(save) BY <1>1 DEF SaveOK
<1>5. SavesKnown'
  <2>1. \A save \in Waiting(io', pending') : SaveOK(save)' BY <1>2, <1>4 DEF SavesKnown
  <2>2. storage'.at = "writing" => SaveOK(storage)'
    BY <1>1, <1>2, <1>3, "idle" # "writing" DEF SaveOK
  <2>3. storage'.revision <= history'.revision BY <1>1, <1>2, <1>3 DEF SavesKnown
  <2>4. ~history'.loaded => history'.revision = 0 BY <1>1 DEF SavesKnown
  <2> QED BY <2>1, <2>2, <2>3, <2>4 DEF SavesKnown
<1>6. LatestKept'
  <2>1. SUFFICES ASSUME history.loaded, ~history.storageFailed
        PROVE  /\ \/ storage'.revision = history.revision
                  \/ \E save \in Waiting(io', pending') : save.revision = history.revision
               /\ (storage'.revision = history.revision /\ storage'.at # "writing"
                   /\ storage'.success) => listFile = history.entries
    BY <1>1 DEF LatestKept
  <2>2. \/ storage'.revision = history.revision
        \/ \E save \in Waiting(io', pending') : save.revision = history.revision
    <3>1. CASE storage.revision = history.revision
      <4>1. storage' = storage BY <1>1, <1>2, <1>3, <3>1
      <4> QED BY <3>1, <4>1
    <3>2. CASE \E save \in Waiting(io, pending) : save.revision = history.revision
      <4>1. PICK save \in Waiting(io, pending) : save.revision = history.revision BY <3>2
      <4>2. CASE save \in Waiting(io', pending') BY <4>1, <4>2
      <4>3. CASE save.revision <= pick.revision
        <5>1. pick.revision = history.revision BY <1>1, <1>3, <4>1, <4>3
        <5>2. storage'.revision = history.revision BY <1>1, <1>2, <5>1 DEF SavesKnown
        <5> QED BY <5>2
      <4> QED BY <1>2, <4>2, <4>3
    <3> QED BY <2>1, <3>1, <3>2 DEF LatestKept
  <2>3. (storage'.revision = history.revision /\ storage'.at # "writing" /\ storage'.success)
        => listFile = history.entries
    BY <1>1, <1>2, <2>1, "idle" # "writing" DEF LatestKept
  <2> QED BY <2>2, <2>3
<1> QED BY <1>5, <1>6

LEMMA WritingFollows ==
    ASSUME HistoryInv, SavesKnown, LatestKept, WritingStep PROVE SavesKnown' /\ LatestKept'
<1>1. /\ history' = history /\ Waiting(io', pending') = Waiting(io, pending)
      /\ storage.at = "writing" /\ storage'.at = "idle" /\ storage'.revision = storage.revision
      /\ storage'.success => listFile' = storage.entries
  BY DEF WritingStep
<1>2. \A save : SaveOK(save)' <=> SaveOK(save) BY <1>1 DEF SaveOK
<1>3. SavesKnown' BY <1>1, <1>2 DEF SavesKnown
<1>4. storage.revision = history.revision => storage.entries = history.entries
  BY <1>1 DEF SavesKnown, SaveOK
<1> QED BY <1>1, <1>3, <1>4 DEF LatestKept

LEMMA SavesKept ==
    ASSUME "early clear" \notin UserActions, HistoryInv, SavesKnown, LatestKept,
           [HistoryNext]_historyVars
    PROVE  SavesKnown' /\ LatestKept'
<1>1. CASE RevisingStep
  <2>1. /\ history' \in Lists /\ history'.revision = history.revision + 1
        /\ Waiting(io', pending') = Waiting(io, pending) \cup ({SaveOf(history')} \cap Saves)
        /\ storage' = storage /\ history'.loaded /\ history.loaded
    BY <1>1 DEF RevisingStep
  <2> QED BY <2>1, NewRevision
<1> QED BY <1>1, StepShapes, QuietFollows, LoadingFollows, TakingFollows, WritingFollows

----------------------------------------
(* The monitor follows the settings.                                         *)

LEMMA TransitionRecords ==
    ASSUME permitted \in BOOLEAN, ~shuttingDown, history' \in Lists, enabled' \in BOOLEAN,
           NEW jobs \in Seq(IoJobs), Transition(history', session', enabled', jobs),
           QueueAgrees(jobs, permitted, monitor')
    PROVE  /\ permitted' <=> (history'.loaded /\ enabled')
           /\ QueueAgrees(io', permitted', monitor')
<1>1. PICK wanted \in BOOLEAN : wanted = (history'.loaded /\ enabled') OBVIOUS
<1>2. CASE permitted = wanted
  <2>1. io' = jobs /\ permitted' = permitted BY <1>1, <1>2 DEF Transition
  <2> QED BY <1>1, <1>2, <2>1
<1>3. CASE permitted # wanted
  <2>1. io' = Append(jobs, RecordingJob(wanted)) /\ permitted' = wanted BY <1>1, <1>3 DEF Transition
  <2>2. /\ RecordingJob(wanted) \in IoJobs /\ RecordingJob(wanted).kind = "recording"
        /\ RecordingJob(wanted).on = wanted
    BY DEF RecordingJob, IoJobs
  <2>3. PICK job \in IoJobs : job = RecordingJob(wanted) BY <2>2
  <2>4. /\ io' \in Seq(IoJobs) /\ Len(jobs) \in Nat /\ Len(io') = Len(jobs) + 1
        /\ io'[Len(jobs) + 1] = job
        /\ \A i \in DOMAIN jobs : io'[i] = jobs[i]
    BY <2>1, <2>3
  <2>5. \A i \in DOMAIN io' : i \in DOMAIN jobs \/ i = Len(jobs) + 1 BY <2>4
  <2>6. \A i \in DOMAIN io' : io'[i].kind # "stop"
    BY <2>2, <2>3, <2>4, <2>5, "recording" # "stop" DEF QueueAgrees
  <2>7. /\ Len(jobs) + 1 \in DOMAIN io' /\ io'[Len(jobs) + 1].kind = "recording"
        /\ io'[Len(jobs) + 1].on = wanted
    BY <2>2, <2>3, <2>4
  <2>8. ASSUME NEW i \in DOMAIN io', \A j \in DOMAIN io' : j > i => io'[j].kind # "recording"
        PROVE  io'[i].on <=> wanted
    <3>1. ~ (Len(jobs) + 1 > i) BY <2>7, <2>8
    <3>2. i = Len(jobs) + 1 BY <2>4, <3>1
    <3> QED BY <2>7, <3>2
  <2>9. ~ \A i \in DOMAIN io' : io'[i].kind # "recording" BY <2>7
  <2> QED BY <1>1, <2>1, <2>6, <2>8, <2>9 DEF QueueAgrees
<1> QED BY <1>2, <1>3

\* Jobs that are not about recording change nothing at the end of the queue...
LEMMA QueueGrows ==
    ASSUME NEW q, NEW r, NEW asked, NEW on, QueueAgrees(q, asked, on),
           \A i \in DOMAIN q : i \in DOMAIN r /\ r[i] = q[i],
           \A i \in DOMAIN r : i \in DOMAIN q \/ r[i].kind = "save"
    PROVE  QueueAgrees(r, asked, on)
  BY "save" # "stop", "save" # "recording" DEF QueueAgrees

\* ...nor at its head.
LEMMA QueueShrinks ==
    ASSUME NEW q \in Seq(IoJobs), NEW r \in Seq(IoJobs), NEW n \in Nat, NEW asked, NEW on, NEW now,
           QueueAgrees(q, asked, on),
           \A i \in DOMAIN r : i + n \in DOMAIN q /\ r[i] = q[i + n],
           \A i \in DOMAIN q : i \in 1..n \/ (i - n \in DOMAIN r /\ r[i - n] = q[i]),
           (\A i \in DOMAIN r : r[i].kind # "recording") => (now => asked)
    PROVE  QueueAgrees(r, asked, now)
<1>1. \A i \in DOMAIN r : r[i].kind # "stop" BY DEF QueueAgrees
<1>2. ASSUME NEW i \in DOMAIN r, r[i].kind = "recording",
             \A j \in DOMAIN r : j > i => r[j].kind # "recording"
      PROVE  r[i].on <=> asked
  <2>1. i + n \in DOMAIN q /\ q[i + n] = r[i] OBVIOUS
  <2>2. ASSUME NEW j \in DOMAIN q, j > i + n PROVE q[j].kind # "recording"
    <3>1. j \notin 1..n BY <2>2
    <3>2. j - n \in DOMAIN r /\ r[j - n] = q[j] /\ j - n > i BY <2>2, <3>1
    <3> QED BY <1>2, <3>2
  <2> QED BY <1>2, <2>1, <2>2 DEF QueueAgrees
<1> QED BY <1>1, <1>2 DEF QueueAgrees

\* Steps after which the monitor, the settings and the jobs about recording are what they were.
LEMMA SilentFollows ==
    ASSUME HistoryInv, RecordingFollows, shuttingDown' = shuttingDown,
           UNCHANGED <<permitted, enabled, history, monitor>>,
           \A i \in DOMAIN io : i \in DOMAIN io' /\ io'[i] = io[i],
           \A i \in DOMAIN io' : i \in DOMAIN io \/ io'[i].kind = "save"
    PROVE  RecordingFollows'
<1>1. PICK r : r = io' OBVIOUS
<1>2. QueueAgrees(io, permitted, monitor) => QueueAgrees(r, permitted, monitor) BY <1>1, QueueGrows
<1>3. QueueAgrees(io, permitted, monitor) => QueueAgrees(io', permitted', monitor') BY <1>1, <1>2
<1> QED BY <1>3 DEF RecordingFollows

LEMMA TurnFollows ==
    ASSUME HistoryInv, RecordingFollows, shuttingDown' = shuttingDown, history' \in Lists,
           Transition(history', session', enabled', io), enabled' \in BOOLEAN,
           history'.recording = history.recording, monitor' = monitor
    PROVE  RecordingFollows'
<1>1. SUFFICES ASSUME ~shuttingDown
      PROVE  /\ permitted' <=> (history'.loaded /\ enabled')
             /\ history'.recording <=> monitor'
             /\ QueueAgrees(io', permitted', monitor')
  BY DEF RecordingFollows
<1>2. permitted \in BOOLEAN /\ io \in Seq(IoJobs) BY DEF HistoryInv, HistoryTypeOK
<1>3. QueueAgrees(io, permitted, monitor') /\ (history.recording <=> monitor)
  BY <1>1 DEF RecordingFollows
<1> QED BY <1>1, <1>2, <1>3, TransitionRecords

\* The turns that leave the list alone.
LEMMA WindowFollows ==
    ASSUME HistoryInv, RecordingFollows, NEW s, NEW on \in BOOLEAN, Transition(history, s, on, io),
           UNCHANGED <<shuttingDown, monitor>>
    PROVE  RecordingFollows'
<1>1. history' = history /\ session' = s /\ enabled' = on BY DEF Transition
<1>2. history' \in Lists /\ enabled' \in BOOLEAN /\ Transition(history', session', enabled', io)
  BY <1>1 DEF HistoryInv, HistoryTypeOK
<1> QED BY <1>1, <1>2, TurnFollows

LEMMA UserFollows ==
    ASSUME HistoryInv, RecordingFollows, HistoryUser PROVE RecordingFollows'
<1>1. enabled \in BOOLEAN /\ history \in Lists BY DEF HistoryInv, HistoryTypeOK
<1>2. CASE OpenHistory BY <1>1, <1>2, WindowFollows DEF OpenHistory
<1>3. ASSUME NEW s, UserTurn(s) PROVE RecordingFollows' BY <1>1, <1>3, WindowFollows DEF UserTurn
<1>4. CASE SetPinned \/ CloseHistory BY <1>3, <1>4 DEF SetPinned, CloseHistory
<1>5. CASE LeaveSession BY SMTT(30), <1>1, <1>5, WindowFollows DEF LeaveSession
<1>6. CASE \E i \in DOMAIN history.entries : CopyEntry(i) \/ PasteEntry(i)
  BY <1>3, <1>6 DEF CopyEntry, PasteEntry
<1>7. ASSUME history' \in Lists, Transition(history', session', enabled, io),
             history'.recording = history.recording, UNCHANGED <<shuttingDown, monitor>>
      PROVE  RecordingFollows'
  <2>1. enabled' = enabled BY <1>7 DEF Transition
  <2>2. Transition(history', session', enabled', io) BY <1>7, <2>1
  <2> QED BY <1>1, <1>7, <2>1, <2>2, TurnFollows
<1>8. CASE ClearHistory BY <1>7, <1>8, ClearProof
<1>9. CASE \E id \in 1..history.nextEntry : DeleteEntry(id)
  <2>1. PICK id \in 1..history.nextEntry : DeleteEntry(id) BY <1>9
  <2>2. id \in Nat BY <1>1 DEF Lists
  <2> QED BY <1>7, <2>1, <2>2, DeleteProof
<1> QED BY <1>2, <1>4, <1>5, <1>6, <1>8, <1>9 DEF HistoryUser

LEMMA ListFollows ==
    ASSUME HistoryInv, RecordingFollows,
           \/ \E n \in Limits : ChangeLimit(n)
           \/ \E text \in ClipTexts : SampleText(text) \/ Captured(text)
    PROVE  RecordingFollows'
<1>1. /\ enabled \in BOOLEAN /\ history \in Lists /\ limit \in Nat /\ io \in Seq(IoJobs)
      /\ HistoryTypeOK /\ "settings" \in HistoryThreads /\ "settings" # "storage"
  BY LimitsAssumption DEF HistoryInv, HistoryTypeOK, HistoryThreads
<1>2. ASSUME history' \in Lists, Transition(history', session', enabled, io),
             history'.recording = history.recording, UNCHANGED <<shuttingDown, monitor>>
      PROVE  RecordingFollows'
  <2>1. enabled' = enabled BY <1>2 DEF Transition
  <2>2. Transition(history', session', enabled', io) BY <1>2, <2>1
  <2> QED BY <1>1, <1>2, <2>1, <2>2, TurnFollows
<1>3. ASSUME NEW n \in Limits, ChangeLimit(n) PROVE RecordingFollows'
  <2>1. ReconcileLimit(history, n, "settings") /\ UNCHANGED <<shuttingDown, monitor>> /\ n \in Nat
    BY <1>3, LimitsAssumption DEF ChangeLimit
  <2>2. /\ history' \in Lists /\ Transition(history', session', enabled, io)
        /\ history'.recording = history.recording
    BY <1>1, <2>1, ReconcileProof
  <2> QED BY <1>2, <2>1, <2>2
<1>4. ASSUME NEW text \in ClipTexts, SampleText(text) PROVE RecordingFollows'
  BY <1>4 DEF SampleText, RecordingFollows, reducer
<1>5. ASSUME NEW text \in ClipTexts, Captured(text) PROVE RecordingFollows'
  <2>1. UNCHANGED <<shuttingDown, monitor>> BY <1>5 DEF Captured
  <2>2. CASE Transition(history, session, enabled, io) BY <1>1, <2>1, <2>2, WindowFollows
  <2>3. CASE \E h \in Recorded(history, text, limit) :
                Transition(h, KeepCopies(session, h.entries), enabled, io)
    <3>1. PICK h \in Recorded(history, text, limit) :
                  Transition(h, KeepCopies(session, h.entries), enabled, io)
      BY <2>3
    <3>2. h \in Lists /\ h.recording = history.recording BY <1>1, RecordedProof
    <3>3. history' = h /\ session' = KeepCopies(session, h.entries) BY <3>1 DEF Transition
    <3>4. Transition(history', session', enabled, io) BY <3>1, <3>3
    <3> QED BY <1>2, <2>1, <3>2, <3>3, <3>4
  <2> QED BY <1>5, <2>2, <2>3 DEF Captured
<1> QED BY <1>3, <1>4, <1>5

LEMMA WorkFollows ==
    ASSUME HistoryInv, RecordingFollows,
           \/ \E thread \in HistoryThreads : Execute(thread)
           \/ \E w \in pastes : PasteWorker(w)
           \/ \E w \in copies : CopyWorker(w)
    PROVE  RecordingFollows'
<1>1. enabled \in BOOLEAN BY DEF HistoryInv, HistoryTypeOK
<1>2. CASE UNCHANGED <<reducer, runtime>> BY <1>2 DEF RecordingFollows, reducer, runtime
<1>3. ASSUME NEW thread \in HistoryThreads, Execute(thread) PROVE RecordingFollows'
  <2>1. /\ \A i \in DOMAIN io : i \in DOMAIN io' /\ io'[i] = io[i]
        /\ \A i \in DOMAIN io' : i \in DOMAIN io \/ io'[i].kind = "save"
        /\ UNCHANGED <<reducer, permitted, shuttingDown, monitor>>
    BY <1>3, ExecuteProof
  <2>2. UNCHANGED <<permitted, enabled, history, monitor, shuttingDown>> BY <2>1 DEF reducer
  <2> QED BY <2>1, <2>2, SilentFollows
<1>4. ASSUME NEW w \in pastes, PasteWorker(w) PROVE RecordingFollows'
  <2>1. CASE PasteFinished(w)
    <3>1. Transition(history, PasteResult(w), enabled, io) /\ UNCHANGED <<shuttingDown, monitor>>
      BY <2>1 DEF PasteFinished
    <3> QED BY <1>1, <3>1, WindowFollows
  <2> QED BY <1>2, <1>4, <2>1 DEF PasteWorker, PasteAdvances, PasteFails
<1>5. ASSUME NEW w \in copies, CopyWorker(w) PROVE RecordingFollows'
  <2>1. CASE CopyFinished(w)
    <3>1. \E s : Transition(history, s, enabled, io) BY <2>1 DEF CopyFinished
    <3>2. UNCHANGED <<shuttingDown, monitor>> BY <2>1 DEF CopyFinished
    <3> QED BY <1>1, <3>1, <3>2, WindowFollows
  <2> QED BY <1>2, <1>5, <2>1 DEF CopyWorker, CopyStarts
<1> QED BY <1>3, <1>4, <1>5

LEMMA ShrinksByOne ==
    ASSUME HistoryInv, ~shuttingDown, RecordingFollows, 1 \in DOMAIN io, NEW now \in BOOLEAN,
           (\A i \in DOMAIN io : i # 1 => io[i].kind # "recording") => (now => permitted)
    PROVE  QueueAgrees(Tail(io), permitted, now) /\ Tail(io) \in Seq(IoJobs)
<1>1. io \in Seq(IoJobs) /\ io # <<>> /\ Tail(io) \in Seq(IoJobs)
  BY TailProof DEF HistoryInv, HistoryTypeOK
<1>2. /\ \A i \in DOMAIN Tail(io) : i + 1 \in DOMAIN io /\ Tail(io)[i] = io[i + 1]
      /\ \A i \in DOMAIN io : i # 1 => i - 1 \in DOMAIN Tail(io) /\ Tail(io)[i - 1] = io[i]
  BY <1>1, TailProof
<1>3. \A i \in DOMAIN io : i \in 1..1 \/ (i - 1 \in DOMAIN Tail(io) /\ Tail(io)[i - 1] = io[i])
  BY <1>2
<1>4. (\A i \in DOMAIN Tail(io) : Tail(io)[i].kind # "recording") => (now => permitted) BY <1>2
<1>5. QueueAgrees(io, permitted, monitor) BY DEF RecordingFollows
<1>6. PICK rest \in Seq(IoJobs) : rest = Tail(io) BY <1>1
<1>7. QueueAgrees(rest, permitted, now)
  <2>1. io \in Seq(IoJobs) /\ rest \in Seq(IoJobs) /\ 1 \in Nat BY <1>1, <1>6
  <2>2. \A i \in DOMAIN rest : i + 1 \in DOMAIN io /\ rest[i] = io[i + 1] BY <1>2, <1>6
  <2>3. \A i \in DOMAIN io : i \in 1..1 \/ (i - 1 \in DOMAIN rest /\ rest[i - 1] = io[i])
    BY <1>3, <1>6
  <2>4. (\A i \in DOMAIN rest : rest[i].kind # "recording") => (now => permitted) BY <1>4, <1>6
  <2> QED BY ONLY <1>5, <2>1, <2>2, <2>3, <2>4, QueueShrinks
<1> QED BY <1>1, <1>6, <1>7

LEMMA LoadFollows == ASSUME HistoryInv, RecordingFollows, LoadList PROVE RecordingFollows'
<1>1. SUFFICES ASSUME ~shuttingDown
      PROVE  /\ permitted' <=> (history'.loaded /\ enabled')
             /\ history'.recording <=> monitor'
             /\ QueueAgrees(io', permitted', monitor')
  BY LoadProof DEF RecordingFollows
<1>2. /\ history' \in Lists /\ enabled' \in BOOLEAN /\ monitor' = monitor
      /\ history'.recording = history.recording /\ enabled' = enabled
      /\ Transition(history', session', enabled, Tail(io))
  BY LoadProof DEF HistoryTypeOK
<1>3. 1 \in DOMAIN io /\ io[1].kind # "recording" /\ permitted \in BOOLEAN /\ monitor \in BOOLEAN
  <2>1. 1 \in DOMAIN io /\ io[1].kind = "load" BY JobProof DEF LoadList
  <2> QED BY <2>1 DEF HistoryInv, HistoryTypeOK
<1>4. (\A i \in DOMAIN io : i # 1 => io[i].kind # "recording") => (monitor => permitted)
  BY <1>1, <1>3 DEF RecordingFollows, QueueAgrees
<1>5. QueueAgrees(Tail(io), permitted, monitor') /\ Tail(io) \in Seq(IoJobs)
  BY <1>1, <1>2, <1>3, <1>4, ShrinksByOne
<1>6. Transition(history', session', enabled', Tail(io)) BY <1>2
<1> QED BY <1>1, <1>2, <1>3, <1>5, <1>6, TransitionRecords DEF RecordingFollows

LEMMA SwitchFollows == ASSUME HistoryInv, RecordingFollows, SetRecording PROVE RecordingFollows'
<1>1. PICK works \in BOOLEAN :
           /\ HistoryTypeOK' /\ (history'.recording <=> (io[1].on /\ works))
           /\ (monitor' <=> (io[1].on /\ works)) /\ io[1].on \in BOOLEAN
           /\ enabled' = enabled /\ Transition(history', session', enabled, Tail(io))
           /\ shuttingDown' = shuttingDown
  BY SetRecordingProof
<1>2. SUFFICES ASSUME ~shuttingDown
      PROVE  /\ permitted' <=> (history'.loaded /\ enabled')
             /\ history'.recording <=> monitor'
             /\ QueueAgrees(io', permitted', monitor')
  BY <1>1 DEF RecordingFollows
<1>3. 1 \in DOMAIN io /\ io[1].kind = "recording" /\ permitted \in BOOLEAN
  BY JobProof DEF SetRecording, HistoryInv, HistoryTypeOK
<1>4. io \in Seq(IoJobs) BY DEF HistoryInv, HistoryTypeOK
<1>5. (\A i \in DOMAIN io : i # 1 => io[i].kind # "recording") => (io[1].on <=> permitted)
  <2>1. \A j \in DOMAIN io : j > 1 => j # 1 BY <1>4
  <2> QED BY <1>2, <1>3, <2>1 DEF RecordingFollows, QueueAgrees
<1>6. PICK now \in BOOLEAN : now = monitor' BY <1>1 DEF HistoryTypeOK
<1>7. (\A i \in DOMAIN io : i # 1 => io[i].kind # "recording") => (now => permitted)
  BY <1>1, <1>5, <1>6
<1>8. QueueAgrees(Tail(io), permitted, now) /\ Tail(io) \in Seq(IoJobs)
  BY <1>2, <1>3, <1>7, ShrinksByOne
<1>9. QueueAgrees(Tail(io), permitted, monitor') BY <1>6, <1>8
<1>10. /\ history' \in Lists /\ enabled' \in BOOLEAN
       /\ Transition(history', session', enabled', Tail(io))
  BY <1>1 DEF HistoryTypeOK
<1>11. (permitted' <=> (history'.loaded /\ enabled')) /\ QueueAgrees(io', permitted', monitor')
  BY <1>2, <1>3, <1>8, <1>9, <1>10, TransitionRecords
<1> QED BY <1>1, <1>11

LEMMA TakeFollows == ASSUME HistoryInv, RecordingFollows, TakeSave PROVE RecordingFollows'
<1>1. PICK count \in 1..Len(io) :
           /\ \A i \in 1..count : io[i].kind = "save"
           /\ io' \in Seq(IoJobs)
           /\ \A i \in DOMAIN io' : i + count \in DOMAIN io /\ io'[i] = io[i + count]
           /\ \A i \in DOMAIN io :
                  i \in 1..count \/ (i - count \in DOMAIN io' /\ io'[i - count] = io[i])
           /\ UNCHANGED <<reducer, permitted, shuttingDown, monitor>>
  BY TakeSaveProof
<1>2. SUFFICES ASSUME ~shuttingDown PROVE QueueAgrees(io', permitted, monitor)
  BY <1>1 DEF RecordingFollows, reducer
<1>3. io \in Seq(IoJobs) /\ QueueAgrees(io, permitted, monitor) /\ count \in Nat
  BY <1>2 DEF RecordingFollows, HistoryInv, HistoryTypeOK
<1>4. PICK rest \in Seq(IoJobs) : rest = io' BY <1>1
<1>5. /\ \A i \in DOMAIN rest : i + count \in DOMAIN io /\ rest[i] = io[i + count]
      /\ \A i \in DOMAIN io :
             i \in 1..count \/ (i - count \in DOMAIN rest /\ rest[i - count] = io[i])
  BY <1>1, <1>4
<1>6. (\A i \in DOMAIN rest : rest[i].kind # "recording") => (monitor => permitted)
  <2>1. SUFFICES ASSUME \A i \in DOMAIN rest : rest[i].kind # "recording"
        PROVE  \A i \in DOMAIN io : io[i].kind # "recording"
    BY <1>3 DEF QueueAgrees
  <2> QED BY <1>1, <1>5, <2>1, "save" # "recording"
<1>7. QueueAgrees(rest, permitted, monitor) BY <1>3, <1>5, <1>6, QueueShrinks
<1> QED BY <1>4, <1>7

LEMMA RecordingKept ==
    ASSUME HistoryInv, RecordingFollows, [HistoryNext]_historyVars PROVE RecordingFollows'
<1>1. CASE SwitchRecording
  <2>1. /\ Transition(history, session, ~enabled, io) /\ UNCHANGED <<shuttingDown, monitor>>
        /\ (~enabled) \in BOOLEAN
    BY <1>1 DEF SwitchRecording
  <2> QED BY <2>1, WindowFollows
<1>2. CASE Shutdown BY <1>2 DEF Shutdown, RecordingFollows
<1>3. CASE StopStorage
  <2>1. shuttingDown \/ \A i \in DOMAIN io : io[i].kind # "stop"
    BY DEF RecordingFollows, QueueAgrees
  <2>2. shuttingDown' = shuttingDown /\ shuttingDown BY <1>3, <2>1, StopProof
  <2> QED BY <2>2 DEF RecordingFollows
<1>4. CASE WriteList BY <1>4, WriteProof DEF RecordingFollows, reducer
<1>5. CASE StorageThread
  BY <1>3, <1>4, <1>5, LoadFollows, SwitchFollows, TakeFollows DEF StorageThread
<1>6. CASE UNCHANGED historyVars BY <1>6 DEF RecordingFollows, historyVars, reducer, runtime
<1> QED BY <1>1, <1>2, <1>5, <1>6, UserFollows, ListFollows, WorkFollows DEF HistoryNext

\* Once every save was carried out the file holds the list, and once every job about recording
\* was, the window tells whether the clipboard is recorded, for any number of texts, saves and
\* threads' turns.  A list cleared before it was loaded is outside: what the file holds comes
\* back with the load, in the list but not in the saves.
THEOREM StorageIsFollowed ==
    ASSUME "early clear" \notin UserActions
    PROVE  HistorySpec => []StorageFollows
<1>1. HistoryInit => HistoryInv /\ FollowInv BY InitKept, WritableInit
<1>2. HistoryInv /\ FollowInv /\ [HistoryNext]_historyVars => (HistoryInv /\ FollowInv)'
  BY NextKept, SavesKept, RecordingKept DEF FollowInv
<1>3. HistoryInv /\ FollowInv => StorageFollows
  <2>1. ASSUME HistoryInv, FollowInv PROVE DiskLatest
    <3>1. SUFFICES ASSUME StorageQuiet, storage.success, ~history.storageFailed
          PROVE  listFile = history.entries
      BY DEF DiskLatest
    <3>2. Waiting(io, pending) = {}
      BY ZenonT(60), <3>1, CommandKinds DEF StorageQuiet, Queued, Waiting
    <3>3. history.loaded
      <4>1. SUFFICES ASSUME ~history.loaded PROVE FALSE OBVIOUS
      <4>2. io # <<>> /\ io[1] = LoadJob /\ io \in Seq(IoJobs)
        BY <2>1, <4>1 DEF HistoryInv, NotLoaded, HistoryTypeOK
      <4>3. 1 \in DOMAIN io /\ io[1].kind = "load"
        <5>1. 1 \in DOMAIN io BY <4>2, TailProof
        <5>2. LoadJob.kind = "load" BY DEF LoadJob
        <5> QED BY <4>2, <5>1, <5>2
      <4> QED BY <3>1, <4>3 DEF StorageQuiet, Queued
    <3> QED BY <2>1, <3>1, <3>2, <3>3 DEF FollowInv, LatestKept, StorageQuiet
  <2>2. ASSUME HistoryInv, FollowInv PROVE RecordingShown
    <3>1. SUFFICES ASSUME ~Queued("recording"), ~shuttingDown
          PROVE  history.recording = monitor /\ (monitor => enabled)
      BY DEF RecordingShown
    <3>2. \A i \in DOMAIN io : io[i].kind # "recording" BY <3>1 DEF Queued
    <3>3. (history.recording <=> monitor) /\ (monitor => enabled)
      BY <2>2, <3>1, <3>2 DEF FollowInv, RecordingFollows, QueueAgrees
    <3>4. history.recording \in BOOLEAN /\ monitor \in BOOLEAN
      BY <2>2 DEF HistoryInv, HistoryTypeOK, Lists
    <3> QED BY <3>3, <3>4
  <2> QED BY <2>1, <2>2 DEF StorageFollows
<1> QED BY <1>1, <1>2, <1>3, PTL DEF HistorySpec

----------------------------------------
(* Clicks are served.                                                        *)

LEMMA OrderedTyped ==
    ASSUME HistoryInv, NEW kind \in {"copy", "paste"}, NEW workers \in {pastes, copies},
           NEW w \in Ordered(pending, workers, kind)
    PROVE  w.entry \in Entry /\ w.entry.id \in Nat
<1>1. w \in Crew \/ w \in Clicks BY DEF HistoryInv, HistoryTypeOK, Ordered
<1>2. w.entry \in Entry BY <1>1 DEF Crew, Clicks
<1> QED BY <1>2 DEF Entry

LEMMA NamedTyped ==
    ASSUME HistoryInv
    PROVE  /\ \A e \in Named(pending, pastes, copies) : e \in Entry /\ e.id \in Nat
           /\ \A i \in DOMAIN history.entries : history.entries[i] \in Entry
                                                /\ history.entries[i].id \in Nat
           /\ history.nextEntry \in Nat
<1>1. history.entries \in Seq(Entry) /\ history.nextEntry \in Nat
  BY DEF HistoryInv, HistoryTypeOK, Lists
<1>2. \A i \in DOMAIN history.entries : history.entries[i] \in Entry BY <1>1
<1>3. \A e \in Entry : e.id \in Nat BY DEF Entry
<1> QED BY <1>1, <1>2, <1>3, OrderedTyped DEF Named

\* A command that is given or not carried out changes who works, nothing else.
LEMMA IssueOrders ==
    ASSUME HistoryTypeOK, NEW thread \in HistoryThreads, Available(thread),
           NEW c \in {NoCommand} \cup Saves \cup Clicks, Issue(thread, c), NEW workers, NEW kind
    PROVE  Ordered(pending', workers, kind)
             = Ordered(pending, workers, kind) \cup {x \in Clicks : x.kind = kind /\ x = c}
<1>1. pending'[thread] = c /\ \A t \in HistoryThreads : t # thread => pending'[t] = pending[t]
  BY IssueProof
<1>2. pending[thread] \notin Clicks BY CommandKinds DEF Available
<1>3. \A x \in Clicks : (\E t \in HistoryThreads : pending'[t] = x)
                        <=> (\E t \in HistoryThreads : pending[t] = x) \/ x = c
  BY <1>1, <1>2
<1> QED BY <1>3 DEF Ordered

LEMMA SaveOrders ==
    ASSUME HistoryTypeOK, NEW thread \in HistoryThreads, Available(thread),
           NEW c \in {NoCommand} \cup Saves, Issue(thread, c), NEW workers, NEW kind
    PROVE  Ordered(pending', workers, kind) = Ordered(pending, workers, kind)
<1>1. c \notin Clicks BY CommandKinds
<1> QED BY <1>1, IssueOrders

\* Part of the list, in whatever order, keeps the numbers right.
LEMMA IdsAgreePart ==
    ASSUME NEW old, NEW given, NEW named, IdsAgree(old, given, named), NEW new,
           \A i \in DOMAIN new : \E p \in DOMAIN old : new[i] = old[p],
           \A i, j \in DOMAIN new : i # j =>
               \E p, q \in DOMAIN old : p # q /\ new[i] = old[p] /\ new[j] = old[q]
    PROVE  IdsAgree(new, given, named)
<1>1. \A i, j \in DOMAIN new : new[i].id = new[j].id => i = j BY DEF IdsAgree
<1> QED BY <1>1 DEF IdsAgree

LEMMA IdsAgreeTrim ==
    ASSUME NEW old \in Seq(Entry), NEW n \in Nat, NEW given, NEW named, IdsAgree(old, given, named)
    PROVE  IdsAgree(Trim(old, n), given, named)
<1>1. \A i \in DOMAIN Trim(old, n) : i \in DOMAIN old /\ Trim(old, n)[i] = old[i] BY TrimProof
<1>2. \A i, j \in DOMAIN Trim(old, n) : i # j =>
          \E p, q \in DOMAIN old : p # q /\ Trim(old, n)[i] = old[p] /\ Trim(old, n)[j] = old[q]
  BY <1>1
<1>3. PICK new : new = Trim(old, n) OBVIOUS
<1>4. IdsAgree(new, given, named) BY <1>1, <1>2, <1>3, IdsAgreePart
<1> QED BY <1>3, <1>4

\* A text that is recorded has its number, or one that was never given.
LEMMA IdsAgreeRecorded ==
    ASSUME HistoryInv, ClickInv, NEW text \in ClipTexts, NEW h \in Recorded(history, text, limit)
    PROVE  IdsAgree(h.entries, h.nextEntry, Named(pending, pastes, copies))
<1> DEFINE named == Named(pending, pastes, copies)
           old == history.entries
<1>1. old \in Seq(Entry) /\ history \in Lists /\ limit \in Nat /\ history.nextEntry \in Nat
  BY LimitsAssumption DEF HistoryInv, HistoryTypeOK, Lists
<1>2. PICK known \in SUBSET DOMAIN old :
        /\ known = {i \in DOMAIN old : old[i].text = text}
        /\ h.nextEntry = IF known = {} THEN history.nextEntry + 1 ELSE history.nextEntry
        /\ \E rest \in Retained(old, DOMAIN old \ known), id \in Nat :
           /\ IF known = {} THEN id = history.nextEntry + 1 ELSE \E p \in known : id = old[p].id
           /\ h.entries = Trim(<<[id |-> id, text |-> text]>> \o rest, limit)
  BY ZenonT(60), <1>1, RecordedProof
<1>3. PICK rest \in Retained(old, DOMAIN old \ known), id \in Nat :
        /\ IF known = {} THEN id = history.nextEntry + 1 ELSE \E p \in known : id = old[p].id
        /\ h.entries = Trim(<<[id |-> id, text |-> text]>> \o rest, limit)
  BY <1>2
<1> DEFINE e == [id |-> id, text |-> text]
           all == <<e>> \o rest
<1>4. DOMAIN old \ known \in SUBSET DOMAIN old OBVIOUS
<1>5. /\ rest \in Seq(Entry)
      /\ \A i \in DOMAIN rest : \E p \in DOMAIN old \ known : rest[i] = old[p]
      /\ \A i, j \in DOMAIN rest : i # j =>
            \E p, q \in DOMAIN old \ known : p # q /\ rest[i] = old[p] /\ rest[j] = old[q]
  BY <1>1, <1>4, RetainedProof
<1>6. IdsAgree(old, history.nextEntry, named) BY DEF ClickInv
<1>7. /\ \A x \in named : x.id \in Nat
      /\ \A p \in DOMAIN old : old[p] \in Entry /\ old[p].id \in Nat
  BY NamedTyped
<1>8. e \in Entry /\ e.id = id /\ h.nextEntry \in Nat /\ h.nextEntry >= history.nextEntry
  BY <1>1, <1>2 DEF Entry
<1>9. /\ all \in Seq(Entry) /\ all[1] = e
      /\ \A i \in DOMAIN all : i = 1 \/ (i - 1 \in DOMAIN rest /\ all[i] = rest[i - 1])
  BY <1>5, <1>8
<1> HIDE DEF named, all
<1>10. id <= h.nextEntry /\ \A p \in DOMAIN old \ known : old[p].id # id
  <2>1. CASE known = {}
    <3>1. \A p \in DOMAIN old : old[p].id <= history.nextEntry BY <1>6 DEF IdsAgree
    <3> QED BY <1>1, <1>2, <1>3, <1>7, <2>1, <3>1
  <2>2. CASE known # {}
    <3>1. PICK p \in known : id = old[p].id BY <1>3, <2>2
    <3>2. h.nextEntry = history.nextEntry /\ p \in DOMAIN old BY <1>2, <2>2
    <3> QED BY <1>6, <3>1, <3>2 DEF IdsAgree
  <2> QED BY <2>1, <2>2
<1>11. \A x \in named : x.id = id => x = e
  <2>1. CASE known = {}
    <3>1. \A x \in named : x.id <= history.nextEntry BY <1>6 DEF IdsAgree
    <3>2. id = history.nextEntry + 1 BY <1>3, <2>1
    <3> QED BY <1>1, <1>7, <3>1, <3>2
  <2>2. CASE known # {}
    <3>1. PICK p \in known : id = old[p].id BY <1>3, <2>2
    <3>2. p \in DOMAIN old /\ old[p].text = text BY <1>2
    <3>3. old[p] = e BY <1>7, <3>1, <3>2 DEF Entry
    <3> QED BY <1>6, <3>1, <3>2, <3>3 DEF IdsAgree
  <2> QED BY <2>1, <2>2
<1>12. IdsAgree(all, h.nextEntry, named)
  <2>1. \A i \in DOMAIN all : i # 1 => \E p \in DOMAIN old \ known : all[i] = old[p] BY <1>5, <1>9
  <2>2. \A i \in DOMAIN all : all[i].id <= h.nextEntry
    <3>1. \A p \in DOMAIN old : old[p].id <= h.nextEntry BY <1>1, <1>6, <1>7, <1>8 DEF IdsAgree
    <3> QED BY <1>8, <1>9, <1>10, <2>1, <3>1
  <2>3. ASSUME NEW i \in DOMAIN all, NEW j \in DOMAIN all, all[i].id = all[j].id PROVE i = j
    <3>1. CASE i = 1 \/ j = 1 BY <1>8, <1>9, <1>10, <2>1, <2>3, <3>1
    <3>2. CASE i # 1 /\ j # 1
      <4>1. /\ i - 1 \in DOMAIN rest /\ all[i] = rest[i - 1]
            /\ j - 1 \in DOMAIN rest /\ all[j] = rest[j - 1] /\ i \in Nat /\ j \in Nat
        BY <1>9, <3>2
      <4>2. i - 1 = j - 1 BY <1>5, <1>6, <2>3, <4>1 DEF IdsAgree
      <4> QED BY <4>1, <4>2
    <3> QED BY <3>1, <3>2
  <2>4. \A x \in named : x.id <= h.nextEntry BY <1>1, <1>6, <1>7, <1>8 DEF IdsAgree
  <2>5. ASSUME NEW x \in named, NEW i \in DOMAIN all, all[i].id = x.id PROVE all[i] = x
    <3>1. CASE i = 1 BY <1>8, <1>9, <1>11, <2>5, <3>1
    <3>2. CASE i # 1 BY <1>6, <2>1, <2>5, <3>2 DEF IdsAgree
    <3> QED BY <3>1, <3>2
  <2> QED BY <2>2, <2>3, <2>4, <2>5 DEF IdsAgree
<1>13. IdsAgree(Trim(all, limit), h.nextEntry, named) BY <1>1, <1>9, <1>12, IdsAgreeTrim
<1> QED BY <1>3, <1>13 DEF all, named

\* What changes the list forgets the copies of entries that are gone.
LEMMA ListClicks ==
    ASSUME HistoryInv, ClickInv, UNCHANGED <<pastes, copies>>, shuttingDown' \/ ~shuttingDown,
           \/ pending' = pending
           \/ \E thread \in HistoryThreads :
                 Available(thread) /\ \E c \in {NoCommand} \cup Saves : Issue(thread, c),
           IdsAgree(history'.entries, history'.nextEntry, Named(pending, pastes, copies)),
           session'.id = session.id, session'.busy = session.busy,
           session'.request = session.request,
           \A id \in DOMAIN session'.copy :
               /\ id \in DOMAIN session.copy /\ session'.copy[id] = session.copy[id]
               /\ Holds(history'.entries, id)
    PROVE  ClickInv'
<1>1. \A workers, kind : Ordered(pending', workers, kind) = Ordered(pending, workers, kind)
  <2>1. CASE pending' = pending BY <2>1
  <2>2. CASE \E thread \in HistoryThreads :
                 Available(thread) /\ \E c \in {NoCommand} \cup Saves : Issue(thread, c)
    BY <2>2, SaveOrders DEF HistoryInv
  <2> QED BY <2>1, <2>2
<1>2. Named(pending', pastes', copies') = Named(pending, pastes, copies) BY <1>1 DEF Named
<1>3. shuttingDown' \/ PasteAwaited(session', pending', pastes') BY <1>1 DEF ClickInv, PasteAwaited
<1>4. CopiesAwaited(session', pending', copies') BY <1>1 DEF ClickInv, CopiesAwaited
<1>5. CopiesListed(session', history'.entries) BY DEF CopiesListed
<1> QED BY <1>2, <1>3, <1>4, <1>5 DEF ClickInv

\* Steps that leave the list, the window and the clicks alone.
LEMMA SameClicks ==
    ASSUME HistoryInv, ClickInv, UNCHANGED <<pastes, copies, pending, session>>,
           history'.entries = history.entries, history'.nextEntry = history.nextEntry,
           shuttingDown' \/ ~shuttingDown
    PROVE  ClickInv'
<1>1. IdsAgree(history'.entries, history'.nextEntry, Named(pending, pastes, copies)) BY DEF ClickInv
<1>2. \A id \in DOMAIN session'.copy :
         /\ id \in DOMAIN session.copy /\ session'.copy[id] = session.copy[id]
         /\ Holds(history'.entries, id)
  BY DEF ClickInv, CopiesListed
<1> QED BY <1>1, <1>2, ListClicks

\* A window that was opened, or is gone, waits for nothing.
LEMMA FreshClicks ==
    ASSUME HistoryInv, ClickInv, UNCHANGED <<pastes, copies, pending, history>>,
           ~session'.busy, DOMAIN session'.copy = {}
    PROVE  ClickInv'
<1>1. Named(pending', pastes', copies') = Named(pending, pastes, copies) OBVIOUS
<1> QED BY <1>1 DEF ClickInv, PasteAwaited, CopiesAwaited, CopiesListed

LEMMA FreshWindow ==
    ~NoSession.busy /\ \A id : ~[NoSession EXCEPT !.id = id].busy
<1>1. \A id : [NoSession EXCEPT !.id = id].busy = FALSE /\ NoSession.busy = FALSE BY DEF NoSession
<1> QED BY <1>1

LEMMA ChangeClicks ==
    ASSUME HistoryInv, ClickInv, UNCHANGED <<pastes, copies>>, shuttingDown' = shuttingDown,
           NEW thread \in HistoryThreads, Available(thread), history' \in Lists,
           session' = KeepCopies(session, history'.entries), Issue(thread, SaveOf(history')),
           IdsAgree(history'.entries, history'.nextEntry, Named(pending, pastes, copies))
    PROVE  ClickInv'
<1>1. PICK entries : entries = history'.entries OBVIOUS
<1>2. session \in Windows BY DEF HistoryInv, HistoryTypeOK
<1>3. session' = [session EXCEPT !.copy = KeepCopies(session, entries).copy]
  BY <1>1, <1>2, KeepProof
<1>4. \A id \in DOMAIN session'.copy :
         /\ id \in DOMAIN session.copy /\ session'.copy[id] = session.copy[id]
         /\ Holds(history'.entries, id)
  BY <1>1, <1>2, KeepProof
<1>5. /\ session'.id = session.id /\ session'.busy = session.busy
      /\ session'.request = session.request
  BY <1>2, <1>3 DEF Windows
<1>6. \E c \in {NoCommand} \cup Saves : Issue(thread, c) BY SaveOfProof
<1> QED BY <1>4, <1>5, <1>6, ListClicks

LEMMA CapturedClicks ==
    ASSUME HistoryInv, ClickInv, NEW text \in ClipTexts, Captured(text) PROVE ClickInv'
<1>1. UNCHANGED <<pastes, copies, shuttingDown>> /\ Available("monitor")
      /\ "monitor" \in HistoryThreads
  BY DEF Captured, workerVars, HistoryThreads
<1>2. CASE Transition(history, session, enabled, io) /\ UNCHANGED pending
  BY <1>1, <1>2, SameClicks DEF Transition
<1>3. CASE \E h \in Recorded(history, text, limit) :
              /\ Transition(h, KeepCopies(session, h.entries), enabled, io)
              /\ Issue("monitor", SaveOf(h))
  <2>1. PICK h \in Recorded(history, text, limit) :
              /\ Transition(h, KeepCopies(session, h.entries), enabled, io)
              /\ Issue("monitor", SaveOf(h))
    BY <1>3
  <2>2. history' = h /\ session' = KeepCopies(session, h.entries) BY <2>1 DEF Transition
  <2>3. h \in Lists BY LimitsAssumption, RecordedProof DEF HistoryInv, HistoryTypeOK
  <2>4. IdsAgree(h.entries, h.nextEntry, Named(pending, pastes, copies)) BY IdsAgreeRecorded
  <2> QED BY <1>1, <2>1, <2>2, <2>3, <2>4, ChangeClicks
<1> QED BY <1>2, <1>3 DEF Captured

LEMMA LimitClicks ==
    ASSUME HistoryInv, ClickInv, NEW n \in Limits, ChangeLimit(n) PROVE ClickInv'
<1>1. /\ HistoryTypeOK /\ history \in Lists /\ n \in Nat /\ "settings" \in HistoryThreads
      /\ io \in Seq(IoJobs) /\ "settings" # "storage" /\ history.entries \in Seq(Entry)
  BY LimitsAssumption DEF HistoryInv, HistoryTypeOK, HistoryThreads, Lists
<1>2. /\ ReconcileLimit(history, n, "settings") /\ Available("settings")
      /\ UNCHANGED <<shuttingDown, pastes, copies>>
  BY DEF ChangeLimit, workerVars
<1>3. /\ history' \in Lists /\ history'.entries = Trim(history.entries, n)
      /\ history'.nextEntry = history.nextEntry
      /\ \/ history' = history /\ session' = session /\ pending' = pending
         \/ /\ session' = KeepCopies(session, history'.entries)
            /\ Issue("settings", SaveOf(history'))
  BY <1>1, <1>2, ReconcileProof
<1>4. IdsAgree(history'.entries, history'.nextEntry, Named(pending, pastes, copies))
  BY <1>1, <1>3, IdsAgreeTrim DEF ClickInv
<1>5. CASE history' = history /\ session' = session /\ pending' = pending BY <1>2, <1>5, SameClicks
<1>6. CASE session' = KeepCopies(session, history'.entries) /\ Issue("settings", SaveOf(history'))
  BY <1>1, <1>2, <1>3, <1>4, <1>6, ChangeClicks
<1> QED BY <1>3, <1>5, <1>6

\* Before the load nothing was clicked, so that any numbers may come with the file.
LEMMA LoadClicks == ASSUME HistoryInv, ClickInv, LoadList PROVE ClickInv'
<1>1. /\ ~history.loaded /\ UNCHANGED <<pastes, copies, shuttingDown>> /\ Available("storage")
      /\ history' \in Lists /\ listFile' = listFile /\ "storage" \in HistoryThreads
  BY LoadProof DEF LoadList, JobIs, HistoryTypeOK, HistoryThreads
<1>2. pastes = {} /\ copies = {} /\ \A t \in HistoryThreads : pending[t] \notin Clicks
  BY <1>1 DEF HistoryInv, NotLoaded
<1>3. Named(pending, pastes, copies) = {} BY <1>2 DEF Named, Ordered
<1>4. CASE /\ history' = [history EXCEPT !.loaded = TRUE, !.storageFailed = TRUE]
           /\ pending' = pending /\ session' = session
  <2>1. history'.entries = history.entries /\ history'.nextEntry = history.nextEntry
    BY <1>4 DEF HistoryInv, HistoryTypeOK, Lists
  <2> QED BY <1>1, <1>4, <2>1, SameClicks
<1>5. CASE /\ listFile \in Seq(Entry)
           /\ \A i, j \in DOMAIN listFile : listFile[i].id = listFile[j].id => i = j
           /\ history'.entries = Trim(listFile, limit)
           /\ \A i \in DOMAIN listFile : listFile[i].id <= history'.nextEntry
           /\ \/ pending' = pending /\ session' = session
              \/ /\ session' = KeepCopies(session, history'.entries)
                 /\ Issue("storage", SaveOf(history'))
  <2>1. PICK given : given = history'.nextEntry OBVIOUS
  <2>2. IdsAgree(listFile, given, {}) BY <1>5, <2>1 DEF IdsAgree
  <2>3. IdsAgree(Trim(listFile, limit), given, {})
    BY <1>5, <2>2, IdsAgreeTrim, LimitsAssumption DEF HistoryInv, HistoryTypeOK
  <2>4. IdsAgree(history'.entries, history'.nextEntry, Named(pending, pastes, copies))
    BY <1>3, <1>5, <2>1, <2>3
  <2>5. CASE pending' = pending /\ session' = session
    <3>1. DOMAIN session'.copy = {} BY <1>1, <2>5 DEF HistoryInv, NotLoaded
    <3> QED BY <1>1, <2>4, <2>5, <3>1, ListClicks
  <2>6. CASE session' = KeepCopies(session, history'.entries) /\ Issue("storage", SaveOf(history'))
    BY <1>1, <2>4, <2>6, ChangeClicks
  <2> QED BY <1>5, <2>5, <2>6
<1> QED BY <1>4, <1>5, LoadProof

LEMMA DeleteClicks ==
    ASSUME HistoryInv, ClickInv, NEW id \in Nat, DeleteEntry(id) PROVE ClickInv'
<1> DEFINE places == {i \in DOMAIN history.entries : history.entries[i].id # id}
<1>1. /\ history' \in Lists /\ history'.nextEntry = history.nextEntry
      /\ history'.entries \in Retained(history.entries, places)
      /\ session' = [session EXCEPT !.copy = session'.copy]
      /\ DOMAIN session'.copy = DOMAIN session.copy \ {id}
      /\ \A i \in DOMAIN session'.copy : session'.copy[i] = session.copy[i]
      /\ Issue("ui", SaveOf(history')) /\ UNCHANGED <<shuttingDown, pastes, copies>>
  BY DeleteProof
<1>2. history.entries \in Seq(Entry) /\ places \in SUBSET DOMAIN history.entries
      /\ session \in Windows
  BY DEF HistoryInv, HistoryTypeOK, Lists
<1>3. Available("ui") /\ "ui" \in HistoryThreads BY DEF DeleteEntry, HistoryThreads
<1>4. PICK kept \in Retained(history.entries, places) : kept = history'.entries BY <1>1
<1> HIDE DEF places
<1>5. /\ \A i \in DOMAIN kept : \E p \in places : kept[i] = history.entries[p]
      /\ \A i, j \in DOMAIN kept : i # j => \E p, q \in places :
            p # q /\ kept[i] = history.entries[p] /\ kept[j] = history.entries[q]
      /\ \A p \in places : \E i \in DOMAIN kept : kept[i] = history.entries[p]
  BY <1>2, RetainedProof
<1>6. IdsAgree(kept, history.nextEntry, Named(pending, pastes, copies))
  <2>1. IdsAgree(history.entries, history.nextEntry, Named(pending, pastes, copies)) BY DEF ClickInv
  <2> QED BY <1>2, <1>5, <2>1, IdsAgreePart
<1>7. \A i \in DOMAIN session'.copy : Holds(history'.entries, i)
  <2>1. SUFFICES ASSUME NEW i \in DOMAIN session'.copy PROVE Holds(kept, i) BY <1>4
  <2>2. i # id /\ Holds(history.entries, i) BY <1>1 DEF ClickInv, CopiesListed
  <2>3. PICK p \in DOMAIN history.entries : history.entries[p].id = i BY <2>2 DEF Holds
  <2>4. p \in places BY <2>2, <2>3 DEF places
  <2> QED BY <1>5, <2>3, <2>4 DEF Holds
<1>8. /\ session'.id = session.id /\ session'.busy = session.busy
      /\ session'.request = session.request
  BY <1>1, <1>2 DEF Windows
<1>9. \E c \in {NoCommand} \cup Saves : Issue("ui", c) BY <1>1, SaveOfProof
<1>10. IdsAgree(history'.entries, history'.nextEntry, Named(pending, pastes, copies))
  BY <1>1, <1>4, <1>6
<1>11. \A i \in DOMAIN session'.copy :
         /\ i \in DOMAIN session.copy /\ session'.copy[i] = session.copy[i]
         /\ Holds(history'.entries, i)
  BY <1>1, <1>7
<1> QED BY <1>1, <1>3, <1>8, <1>9, <1>10, <1>11, ListClicks

LEMMA ClearClicks == ASSUME HistoryInv, ClickInv, ClearHistory PROVE ClickInv'
<1>1. /\ history' \in Lists /\ history'.nextEntry = history.nextEntry /\ history'.entries = <<>>
      /\ session' = [session EXCEPT !.copy = session'.copy] /\ DOMAIN session'.copy = {}
      /\ Issue("ui", SaveOf(history')) /\ UNCHANGED <<shuttingDown, pastes, copies>>
  BY ClearProof
<1>2. Available("ui") /\ "ui" \in HistoryThreads /\ session \in Windows
  BY DEF ClearHistory, HistoryThreads, HistoryInv, HistoryTypeOK
<1>3. IdsAgree(history'.entries, history'.nextEntry, Named(pending, pastes, copies))
  BY <1>1 DEF ClickInv, IdsAgree
<1>4. /\ session'.id = session.id /\ session'.busy = session.busy
      /\ session'.request = session.request
  BY <1>1, <1>2 DEF Windows
<1>5. \E c \in {NoCommand} \cup Saves : Issue("ui", c) BY <1>1, SaveOfProof
<1> QED BY <1>1, <1>2, <1>3, <1>4, <1>5, ListClicks

LEMMA ClickTyped ==
    ASSUME HistoryInv
    PROVE  /\ session \in Windows /\ session.request \in Nat /\ session.id \in Nat
           /\ pastes \subseteq Crew /\ copies \subseteq Crew
           /\ \A id \in DOMAIN session.copy :
                 /\ id \in Nat /\ session.copy[id] \in [request : Nat, pending : BOOLEAN]
                 /\ session.copy[id].request \in Nat /\ session.copy[id].pending \in BOOLEAN
<1>1. session \in Windows /\ pastes \subseteq Crew /\ copies \subseteq Crew
  BY DEF HistoryInv, HistoryTypeOK
<1>2. PICK ids \in SUBSET Nat : session.copy \in [ids -> [request : Nat, pending : BOOLEAN]]
  BY <1>1 DEF Windows, Copied
<1> QED BY <1>1, <1>2 DEF Windows

LEMMA PinClicks == ASSUME HistoryInv, ClickInv, SetPinned PROVE ClickInv'
<1>1. /\ history' = history /\ session' = [session EXCEPT !.pinned = ~@]
      /\ UNCHANGED <<pending, pastes, copies, shuttingDown>>
  BY DEF SetPinned, UserTurn, Transition, workerVars
<1>2. /\ session'.id = session.id /\ session'.busy = session.busy
      /\ session'.request = session.request /\ session'.copy = session.copy
  BY <1>1, ClickTyped DEF Windows
<1>3. IdsAgree(history'.entries, history'.nextEntry, Named(pending, pastes, copies))
  BY <1>1 DEF ClickInv
<1>4. \A id \in DOMAIN session'.copy :
         /\ id \in DOMAIN session.copy /\ session'.copy[id] = session.copy[id]
         /\ Holds(history'.entries, id)
  BY <1>1, <1>2 DEF ClickInv, CopiesListed
<1> QED BY <1>1, <1>2, <1>3, <1>4, ListClicks

\* A click on a listed entry.
LEMMA NamedClick ==
    ASSUME HistoryInv, ClickInv, NEW i \in DOMAIN history.entries, NEW c \in Clicks,
           c.entry = history.entries[i], Available("ui"), Issue("ui", c)
    PROVE  IdsAgree(history.entries, history.nextEntry, Named(pending', pastes, copies))
<1>1. /\ Ordered(pending', pastes, "paste")
           \subseteq Ordered(pending, pastes, "paste") \cup {c}
      /\ Ordered(pending', copies, "copy")
           \subseteq Ordered(pending, copies, "copy") \cup {c}
  BY IssueOrders DEF HistoryInv, HistoryThreads
<1>2. Named(pending', pastes, copies)
        \subseteq Named(pending, pastes, copies) \cup {history.entries[i]}
  BY <1>1 DEF Named
<1> QED BY <1>2 DEF ClickInv, IdsAgree

LEMMA CopyClicks ==
    ASSUME HistoryInv, ClickInv, NEW i \in DOMAIN history.entries, CopyEntry(i) PROVE ClickInv'
<1> DEFINE e == history.entries[i]
<1>1. PICK request \in Nat \ {0}, s \in Windows :
             /\ s = [session EXCEPT !.copy = s.copy]
             /\ DOMAIN s.copy = DOMAIN session.copy \cup {e.id}
             /\ \A id \in DOMAIN s.copy : id # e.id => s.copy[id] = session.copy[id]
             /\ s.copy[e.id] = [request |-> request, pending |-> TRUE]
             /\ UserTurn(s)
             /\ [kind |-> "copy", session |-> session.id, request |-> request,
                 entry |-> e] \in Clicks
             /\ Issue("ui", [kind |-> "copy", session |-> session.id, request |-> request,
                             entry |-> e])
  BY CopyProof
<1>2. PICK c \in Clicks : c = [kind |-> "copy", session |-> session.id, request |-> request,
                               entry |-> e]
  BY <1>1
<1>3. /\ history' = history /\ session' = s /\ Available("ui") /\ "ui" \in HistoryThreads
      /\ UNCHANGED <<pastes, copies, shuttingDown>>
  BY <1>1 DEF UserTurn, Transition, workerVars, HistoryThreads
<1>4. Issue("ui", c) /\ c.kind = "copy" /\ c.session = session.id /\ c.request = request
      /\ c.entry = e
  BY <1>1, <1>2
<1>5. s.id = session.id /\ s.busy = session.busy /\ s.request = session.request
  BY <1>1, ClickTyped DEF Windows
<1>6. /\ Ordered(pending', pastes, "paste") = Ordered(pending, pastes, "paste")
      /\ Ordered(pending', copies, "copy") = Ordered(pending, copies, "copy") \cup {c}
  <2>1. /\ Ordered(pending', pastes, "paste")
             = Ordered(pending, pastes, "paste") \cup {x \in Clicks : x.kind = "paste" /\ x = c}
        /\ Ordered(pending', copies, "copy")
             = Ordered(pending, copies, "copy") \cup {x \in Clicks : x.kind = "copy" /\ x = c}
    BY <1>3, <1>4, IssueOrders DEF HistoryInv
  <2>2. /\ {x \in Clicks : x.kind = "paste" /\ x = c} = {}
        /\ {x \in Clicks : x.kind = "copy" /\ x = c} = {c}
    BY <1>4
  <2> QED BY <2>1, <2>2
<1>7. IdsAgree(history'.entries, history'.nextEntry, Named(pending', pastes', copies'))
  <2>1. IdsAgree(history.entries, history.nextEntry, Named(pending', pastes, copies))
    BY <1>3, <1>4, NamedClick
  <2> QED BY <1>3, <2>1
<1>8. CopiesListed(session', history'.entries) BY <1>1, <1>3 DEF ClickInv, CopiesListed, Holds
<1>9. shuttingDown' \/ PasteAwaited(session', pending', pastes')
  BY <1>3, <1>5, <1>6 DEF ClickInv, PasteAwaited
<1>10. CopiesAwaited(s, pending', copies)
  <2>1. SUFFICES ASSUME NEW id \in DOMAIN s.copy, s.copy[id].pending
        PROVE  \E w \in Ordered(pending', copies, "copy") :
                  w.session = s.id /\ w.request = s.copy[id].request /\ w.entry.id = id
    BY DEF CopiesAwaited
  <2>2. CASE id = e.id BY <1>1, <1>4, <1>5, <1>6, <2>2
  <2>3. CASE id # e.id BY <1>1, <1>5, <1>6, <2>1, <2>3 DEF ClickInv, CopiesAwaited
  <2> QED BY <2>2, <2>3
<1> QED BY <1>3, <1>7, <1>8, <1>9, <1>10 DEF ClickInv

LEMMA PasteClicks ==
    ASSUME HistoryInv, ClickInv, NEW i \in DOMAIN history.entries, PasteEntry(i) PROVE ClickInv'
<1> DEFINE c == [kind |-> "paste", session |-> session.id, request |-> session.request + 1,
                 entry |-> history.entries[i]]
           s == [session EXCEPT !.busy = TRUE, !.request = @ + 1]
<1>1. /\ history' = history /\ session' = s /\ Available("ui") /\ "ui" \in HistoryThreads
      /\ Issue("ui", c) /\ UNCHANGED <<pastes, copies, shuttingDown>>
  BY DEF PasteEntry, UserTurn, Transition, workerVars, HistoryThreads
<1>2. c \in Clicks BY ClickTyped, ClickedTyped DEF HistoryInv
<1>3. s.id = session.id /\ s.request = session.request + 1 /\ s.copy = session.copy
  BY ClickTyped DEF Windows
<1>4. c.kind = "paste" /\ c.session = session.id /\ c.request = session.request + 1
      /\ c.entry = history.entries[i]
  OBVIOUS
<1> HIDE DEF c, s
<1>5. /\ Ordered(pending', pastes, "paste") = Ordered(pending, pastes, "paste") \cup {c}
      /\ Ordered(pending', copies, "copy") = Ordered(pending, copies, "copy")
  <2>1. /\ Ordered(pending', pastes, "paste")
             = Ordered(pending, pastes, "paste") \cup {x \in Clicks : x.kind = "paste" /\ x = c}
        /\ Ordered(pending', copies, "copy")
             = Ordered(pending, copies, "copy") \cup {x \in Clicks : x.kind = "copy" /\ x = c}
    BY <1>1, <1>2, IssueOrders DEF HistoryInv
  <2>2. /\ {x \in Clicks : x.kind = "paste" /\ x = c} = {c}
        /\ {x \in Clicks : x.kind = "copy" /\ x = c} = {}
    BY <1>2, <1>4
  <2> QED BY <2>1, <2>2
<1>6. IdsAgree(history'.entries, history'.nextEntry, Named(pending', pastes', copies'))
  <2>1. IdsAgree(history.entries, history.nextEntry, Named(pending', pastes, copies))
    BY <1>1, <1>2, <1>4, NamedClick
  <2> QED BY <1>1, <2>1
<1>7. CopiesListed(session', history'.entries) BY <1>1, <1>3 DEF ClickInv, CopiesListed
<1>8. PasteAwaited(s, pending', pastes) BY <1>3, <1>4, <1>5 DEF PasteAwaited
<1>9. CopiesAwaited(s, pending', copies) BY <1>3, <1>5 DEF ClickInv, CopiesAwaited
<1> QED BY <1>1, <1>6, <1>7, <1>8, <1>9 DEF ClickInv

LEMMA UserClicks == ASSUME HistoryInv, ClickInv, HistoryUser PROVE ClickInv'
<1>1. CASE OpenHistory
  <2>1. /\ history' = history /\ session' = [NoSession EXCEPT !.id = nextSession']
        /\ UNCHANGED <<pastes, copies, pending>> /\ nextSession' \in Nat
    BY <1>1 DEF OpenHistory, Transition, workerVars, HistoryInv, HistoryTypeOK
  <2>2. ~session'.busy /\ DOMAIN session'.copy = {} BY <2>1, EmptyWindow, FreshWindow
  <2> QED BY <2>1, <2>2, FreshClicks DEF ClickInv
<1>2. CASE LeaveSession \/ CloseHistory
  <2>1. /\ history' = history /\ session' = NoSession /\ UNCHANGED <<pastes, copies, pending>>
    BY <1>2 DEF LeaveSession, CloseHistory, UserTurn, Transition, workerVars
  <2>2. ~session'.busy /\ DOMAIN session'.copy = {} BY <2>1, EmptyWindow, FreshWindow
  <2> QED BY <2>1, <2>2, FreshClicks
<1>3. CASE \E id \in 1..history.nextEntry : DeleteEntry(id)
  <2>1. \A id \in 1..history.nextEntry : id \in Nat BY DEF HistoryInv, HistoryTypeOK, Lists
  <2> QED BY <1>3, <2>1, DeleteClicks
<1> QED BY <1>1, <1>2, <1>3, PinClicks, ClearClicks, CopyClicks, PasteClicks DEF HistoryUser

\* What a window waits for is what its copy or paste carries, so that it is not dropped.
LEMMA AwaitedCurrent ==
    ASSUME HistoryInv, ClickInv, NEW id \in DOMAIN session.copy, session.copy[id].pending
    PROVE  \E w \in Ordered(pending, copies, "copy") :
              /\ w.session = session.id /\ w.request = session.copy[id].request
              /\ w.entry.id = id /\ CopyCurrent(w)
<1>1. PICK w \in Ordered(pending, copies, "copy") :
         w.session = session.id /\ w.request = session.copy[id].request /\ w.entry.id = id
  BY DEF ClickInv, CopiesAwaited
<1>2. session.copy[id] = [request |-> w.request, pending |-> TRUE] BY <1>1, ClickTyped
<1>3. Holds(history.entries, id) BY DEF ClickInv, CopiesListed
<1> QED BY <1>1, <1>2, <1>3 DEF CopyCurrent

\* Steps of the workers that leave the window alone: who is awaited goes on.
LEMMA WorkClicks ==
    ASSUME HistoryInv, ClickInv, UNCHANGED <<history, session, shuttingDown>>,
           Named(pending', pastes', copies') \subseteq Named(pending, pastes, copies),
           \A w \in Ordered(pending, pastes, "paste") :
               \/ PasteCancelled(w)
               \/ \E v \in Ordered(pending', pastes', "paste") :
                     v.session = w.session /\ v.request = w.request,
           \A w \in Ordered(pending, copies, "copy") :
               \/ ~CopyCurrent(w)
               \/ \E v \in Ordered(pending', copies', "copy") :
                     v.session = w.session /\ v.request = w.request /\ v.entry = w.entry
    PROVE  ClickInv'
<1>1. IdsAgree(history'.entries, history'.nextEntry, Named(pending', pastes', copies'))
  BY DEF ClickInv, IdsAgree
<1>2. shuttingDown' \/ PasteAwaited(session', pending', pastes')
  BY DEF ClickInv, PasteAwaited, PasteCancelled
<1>3. CopiesAwaited(session', pending', copies')
  <2>1. SUFFICES ASSUME NEW id \in DOMAIN session.copy, session.copy[id].pending
        PROVE  \E v \in Ordered(pending', copies', "copy") :
                  v.session = session.id /\ v.request = session.copy[id].request /\ v.entry.id = id
    BY DEF CopiesAwaited
  <2>2. PICK w \in Ordered(pending, copies, "copy") :
              /\ w.session = session.id /\ w.request = session.copy[id].request
              /\ w.entry.id = id /\ CopyCurrent(w)
    BY <2>1, AwaitedCurrent
  <2> QED BY <2>2
<1>4. CopiesListed(session', history'.entries) BY DEF ClickInv
<1> QED BY <1>1, <1>2, <1>3, <1>4 DEF ClickInv

LEMMA ExecuteClicks ==
    ASSUME HistoryInv, ClickInv, NEW thread \in HistoryThreads, Execute(thread) PROVE ClickInv'
<1>1. PICK c \in Saves \cup Clicks :
           /\ pending[thread] = c /\ pending'[thread] = NoCommand
           /\ \A t \in HistoryThreads : t # thread => pending'[t] = pending[t]
           /\ pastes' = IF c.kind = "paste" /\ ~PasteCancelled(c)
                        THEN pastes \cup {ClickWorker(c)} ELSE pastes
           /\ copies' = IF c.kind = "copy" THEN copies \cup {ClickWorker(c)} ELSE copies
           /\ UNCHANGED <<reducer, shuttingDown>>
  BY ExecuteProof
<1>2. ASSUME c \in Clicks
      PROVE  /\ ClickWorker(c).session = c.session /\ ClickWorker(c).request = c.request
             /\ ClickWorker(c).entry = c.entry
  BY DEF ClickWorker
<1>3. NoCommand \notin Clicks /\ (c \in Saves => c \notin Clicks /\ c.kind = "save") BY CommandKinds
<1>4. \A kind, workers : \A w \in Ordered(pending', workers, kind) :
         w \in Ordered(pending, workers, kind)
  BY <1>1, <1>3 DEF Ordered
<1>5. \A kind, workers : \A w \in Ordered(pending, workers, kind) :
         w \in Ordered(pending', workers, kind) \/ (w = c /\ c \in Clicks /\ c.kind = kind)
  BY <1>1 DEF Ordered
<1>6. Named(pending', pastes', copies') \subseteq Named(pending, pastes, copies)
  <2>1. ASSUME NEW w \in Ordered(pending', pastes', "paste")
        PROVE  \E v \in Ordered(pending, pastes, "paste") : v.entry = w.entry
    <3>1. CASE w \in Ordered(pending', pastes, "paste") BY <1>4, <3>1
    <3>2. CASE w \notin Ordered(pending', pastes, "paste")
      <4>1. w = ClickWorker(c) /\ c.kind = "paste" BY <1>1, <2>1, <3>2 DEF Ordered
      <4>2. c \in Clicks BY <1>3, <4>1, "save" # "paste"
      <4>3. c \in Ordered(pending, pastes, "paste") BY <1>1, <4>1, <4>2 DEF Ordered
      <4> QED BY <1>2, <4>1, <4>2, <4>3
    <3> QED BY <3>1, <3>2
  <2>2. ASSUME NEW w \in Ordered(pending', copies', "copy")
        PROVE  \E v \in Ordered(pending, copies, "copy") : v.entry = w.entry
    <3>1. CASE w \in Ordered(pending', copies, "copy") BY <1>4, <3>1
    <3>2. CASE w \notin Ordered(pending', copies, "copy")
      <4>1. w = ClickWorker(c) /\ c.kind = "copy" BY <1>1, <2>2, <3>2 DEF Ordered
      <4>2. c \in Clicks BY <1>3, <4>1, "save" # "copy"
      <4>3. c \in Ordered(pending, copies, "copy") BY <1>1, <4>1, <4>2 DEF Ordered
      <4> QED BY <1>2, <4>1, <4>2, <4>3
    <3> QED BY <3>1, <3>2
  <2> QED BY <2>1, <2>2 DEF Named
<1>7. ASSUME NEW w \in Ordered(pending, pastes, "paste"), ~PasteCancelled(w)
      PROVE  \E v \in Ordered(pending', pastes', "paste") :
                v.session = w.session /\ v.request = w.request
  <2>1. CASE w \in Ordered(pending', pastes, "paste") BY <1>1, <2>1 DEF Ordered
  <2>2. CASE w = c /\ c \in Clicks /\ c.kind = "paste"
    <3>1. ClickWorker(c) \in Ordered(pending', pastes', "paste") BY <1>1, <1>7, <2>2 DEF Ordered
    <3> QED BY <1>2, <2>2, <3>1
  <2> QED BY <1>5, <2>1, <2>2
<1>8. ASSUME NEW w \in Ordered(pending, copies, "copy")
      PROVE  \E v \in Ordered(pending', copies', "copy") :
                v.session = w.session /\ v.request = w.request /\ v.entry = w.entry
  <2>1. CASE w \in Ordered(pending', copies, "copy") BY <1>1, <2>1 DEF Ordered
  <2>2. CASE w = c /\ c \in Clicks /\ c.kind = "copy"
    <3>1. ClickWorker(c) \in Ordered(pending', copies', "copy") BY <1>1, <2>2 DEF Ordered
    <3> QED BY <1>2, <2>2, <3>1
  <2> QED BY <1>5, <2>1, <2>2
<1>9. UNCHANGED <<history, session, shuttingDown>> BY <1>1 DEF reducer
<1> QED BY <1>6, <1>7, <1>8, <1>9, WorkClicks

LEMMA PasteStepClicks ==
    ASSUME HistoryInv, ClickInv, NEW w \in pastes, PasteAdvances(w) \/ PasteFails(w) PROVE ClickInv'
<1>1. PICK stage \in {"captured", "written", "pasted", "failed"} :
        /\ pastes' = (pastes \ {w}) \cup {Step(w, stage)}
        /\ UNCHANGED <<reducer, runtime, pending, copies, cleared>>
  BY PasteStepProof
<1>2. /\ Step(w, stage).session = w.session /\ Step(w, stage).request = w.request
      /\ Step(w, stage).entry = w.entry
  BY StepProof, ClickTyped
<1>3. /\ \A v \in Ordered(pending', pastes', "paste") :
            v \in Ordered(pending, pastes, "paste") \/ v = Step(w, stage)
      /\ Ordered(pending', copies', "copy") = Ordered(pending, copies, "copy")
      /\ w \in Ordered(pending, pastes, "paste")
      /\ Step(w, stage) \in Ordered(pending', pastes', "paste")
      /\ \A v \in Ordered(pending, pastes, "paste") :
            v \in Ordered(pending', pastes', "paste") \/ v = w
  BY <1>1 DEF Ordered
<1>4. Named(pending', pastes', copies') \subseteq Named(pending, pastes, copies)
  BY <1>2, <1>3 DEF Named
<1>5. UNCHANGED <<history, session, shuttingDown>> BY <1>1 DEF reducer, runtime
<1>6. \A v \in Ordered(pending, pastes, "paste") :
               \/ PasteCancelled(v)
               \/ \E u \in Ordered(pending', pastes', "paste") :
                     u.session = v.session /\ u.request = v.request
  BY <1>2, <1>3
<1>7. \A v \in Ordered(pending, copies, "copy") :
               \/ ~CopyCurrent(v)
               \/ \E u \in Ordered(pending', copies', "copy") :
                     u.session = v.session /\ u.request = v.request /\ u.entry = v.entry
  BY <1>3
<1> QED BY <1>4, <1>5, <1>6, <1>7, WorkClicks

LEMMA CopyStartClicks ==
    ASSUME HistoryInv, ClickInv, NEW w \in copies, CopyStarts(w) PROVE ClickInv'
<1>1. /\ copies' = (copies \ {w}) \cup (IF CopyCurrent(w) THEN {Step(w, "writing")} ELSE {})
      /\ UNCHANGED <<reducer, runtime, pending, pastes, cleared>>
  BY DEF CopyStarts
<1>2. /\ Step(w, "writing").session = w.session /\ Step(w, "writing").request = w.request
      /\ Step(w, "writing").entry = w.entry
  BY StepProof, ClickTyped
<1>3. /\ \A v \in Ordered(pending', copies', "copy") :
            v \in Ordered(pending, copies, "copy") \/ v = Step(w, "writing")
      /\ Ordered(pending', pastes', "paste") = Ordered(pending, pastes, "paste")
      /\ w \in Ordered(pending, copies, "copy")
      /\ CopyCurrent(w) => Step(w, "writing") \in Ordered(pending', copies', "copy")
      /\ \A v \in Ordered(pending, copies, "copy") :
            v \in Ordered(pending', copies', "copy") \/ v = w
  BY <1>1 DEF Ordered
<1>4. Named(pending', pastes', copies') \subseteq Named(pending, pastes, copies)
  BY <1>2, <1>3 DEF Named
<1>5. UNCHANGED <<history, session, shuttingDown>> BY <1>1 DEF reducer, runtime
<1>6. \A v \in Ordered(pending, pastes, "paste") :
               \/ PasteCancelled(v)
               \/ \E u \in Ordered(pending', pastes', "paste") :
                     u.session = v.session /\ u.request = v.request
  BY <1>3
<1>7. \A v \in Ordered(pending, copies, "copy") :
               \/ ~CopyCurrent(v)
               \/ \E u \in Ordered(pending', copies', "copy") :
                     u.session = v.session /\ u.request = v.request /\ u.entry = v.entry
  BY <1>2, <1>3
<1> QED BY <1>4, <1>5, <1>6, <1>7, WorkClicks

LEMMA PasteEndClicks ==
    ASSUME HistoryInv, ClickInv, NEW w \in pastes, PasteFinished(w) PROVE ClickInv'
<1>1. /\ history' = history /\ session' = PasteResult(w) /\ pastes' = pastes \ {w}
      /\ UNCHANGED <<pending, copies, shuttingDown>>
  BY DEF PasteFinished, Transition
<1>2. /\ Ordered(pending', copies', "copy") = Ordered(pending, copies, "copy")
      /\ Ordered(pending', pastes', "paste") \subseteq Ordered(pending, pastes, "paste")
      /\ \A v \in Ordered(pending, pastes, "paste") :
            v \in Ordered(pending', pastes', "paste") \/ v = w
  BY <1>1 DEF Ordered
<1>3. Named(pending', pastes', copies') \subseteq Named(pending, pastes, copies) BY <1>2 DEF Named
<1>4. IdsAgree(history'.entries, history'.nextEntry, Named(pending', pastes', copies'))
  BY <1>1, <1>3 DEF ClickInv, IdsAgree
<1>5. \/ session' = NoSession
      \/ /\ ~session'.busy /\ session'.id = session.id /\ session'.copy = session.copy
      \/ /\ session' = session
         /\ ~ (session.id = w.session /\ session.request = w.request /\ session.busy)
  <2>1. PICK idle \in BOOLEAN : idle = FALSE OBVIOUS
  <2>2. [session EXCEPT !.busy = FALSE] = [session EXCEPT !.busy = idle] BY <2>1
  <2>3. /\ [session EXCEPT !.busy = idle].busy = idle
        /\ [session EXCEPT !.busy = idle].id = session.id
        /\ [session EXCEPT !.busy = idle].copy = session.copy
    BY ClickTyped DEF Windows
  <2> HIDE DEF PasteResult
  <2>4. CASE session.id = w.session /\ session.request = w.request /\ session.busy
    BY <1>1, <2>1, <2>2, <2>3, <2>4 DEF PasteResult
  <2>5. CASE ~ (session.id = w.session /\ session.request = w.request /\ session.busy)
    BY <1>1, <2>5 DEF PasteResult
  <2> QED BY <2>4, <2>5
<1>6. CASE session' = NoSession
  <2>1. ~session'.busy /\ DOMAIN session'.copy = {} BY <1>6, EmptyWindow, FreshWindow
  <2> QED BY <1>4, <2>1 DEF ClickInv, CopiesListed, PasteAwaited, CopiesAwaited
<1>7. CASE ~session'.busy /\ session'.id = session.id /\ session'.copy = session.copy
  <2>1. CopiesAwaited(session', pending', copies') /\ CopiesListed(session', history'.entries)
    BY <1>1, <1>2, <1>7 DEF ClickInv, CopiesAwaited, CopiesListed
  <2>2. PasteAwaited(session', pending', pastes') BY <1>7 DEF PasteAwaited
  <2> QED BY <1>4, <2>1, <2>2 DEF ClickInv
<1>8. CASE /\ session' = session
           /\ ~ (session.id = w.session /\ session.request = w.request /\ session.busy)
  <2>1. CopiesAwaited(session', pending', copies') /\ CopiesListed(session', history'.entries)
    BY <1>1, <1>2, <1>8 DEF ClickInv, CopiesAwaited, CopiesListed
  <2>2. shuttingDown' \/ PasteAwaited(session', pending', pastes')
    BY <1>1, <1>2, <1>8 DEF ClickInv, PasteAwaited
  <2> QED BY <1>4, <2>1, <2>2 DEF ClickInv
<1> QED BY <1>5, <1>6, <1>7, <1>8

LEMMA CopyEndClicks ==
    ASSUME HistoryInv, ClickInv, NEW w \in copies, CopyFinished(w) PROVE ClickInv'
<1>1. PICK s \in Windows :
             /\ Transition(history, s, enabled, io) /\ s = [session EXCEPT !.copy = s.copy]
             /\ DOMAIN s.copy = DOMAIN session.copy
             /\ ~CopyCurrent(w) => s.copy = session.copy
             /\ CopyCurrent(w) => ~s.copy[w.entry.id].pending
             /\ \A id \in DOMAIN s.copy : id # w.entry.id => s.copy[id] = session.copy[id]
  BY CopyEndProof
<1>2. /\ history' = history /\ session' = s /\ copies' = copies \ {w}
      /\ UNCHANGED <<pending, pastes, shuttingDown>>
  BY <1>1 DEF CopyFinished, Transition
<1>3. /\ Ordered(pending', pastes', "paste") = Ordered(pending, pastes, "paste")
      /\ Ordered(pending', copies', "copy") \subseteq Ordered(pending, copies, "copy")
      /\ \A v \in Ordered(pending, copies, "copy") :
            v \in Ordered(pending', copies', "copy") \/ v = w
  BY <1>2 DEF Ordered
<1>4. Named(pending', pastes', copies') \subseteq Named(pending, pastes, copies) BY <1>3 DEF Named
<1>5. IdsAgree(history'.entries, history'.nextEntry, Named(pending', pastes', copies'))
  BY <1>2, <1>4 DEF ClickInv, IdsAgree
<1>6. s.id = session.id /\ s.busy = session.busy /\ s.request = session.request
  BY <1>1, ClickTyped DEF Windows
<1>7. CopiesListed(session', history'.entries) BY <1>1, <1>2 DEF ClickInv, CopiesListed
<1>8. shuttingDown' \/ PasteAwaited(session', pending', pastes')
  BY <1>2, <1>3, <1>6 DEF ClickInv, PasteAwaited
<1>9. CopiesAwaited(s, pending', copies')
  <2>1. SUFFICES ASSUME NEW id \in DOMAIN s.copy, s.copy[id].pending
        PROVE  \E v \in Ordered(pending', copies', "copy") :
                  v.session = s.id /\ v.request = s.copy[id].request /\ v.entry.id = id
    BY DEF CopiesAwaited
  <2>2. s.copy[id] = session.copy[id] /\ (id = w.entry.id => ~CopyCurrent(w)) BY <1>1, <2>1
  <2>3. PICK v \in Ordered(pending, copies, "copy") :
              /\ v.session = session.id /\ v.request = session.copy[id].request
              /\ v.entry.id = id /\ CopyCurrent(v)
    BY <1>1, <2>1, <2>2, AwaitedCurrent
  <2>4. v # w BY <2>2, <2>3
  <2> QED BY <1>3, <1>6, <2>2, <2>3, <2>4
<1> QED BY <1>2, <1>5, <1>7, <1>8, <1>9 DEF ClickInv

LEMMA ClicksKept ==
    ASSUME HistoryInv, ClickInv, [HistoryNext]_historyVars PROVE ClickInv'
<1>1. CASE SwitchRecording BY <1>1, SameClicks DEF SwitchRecording, Transition, workerVars
<1>2. CASE Shutdown
  <2>1. shuttingDown' \/ ~shuttingDown BY <1>2 DEF Shutdown
  <2> QED BY <1>2, <2>1, SameClicks DEF Shutdown, reducer, workerVars
<1>3. CASE TakeSave \/ WriteList \/ StopStorage
  <2>1. UNCHANGED <<history, session, shuttingDown, pending, pastes, copies>>
    BY <1>3 DEF TakeSave, WriteList, StopStorage, reducer, workerVars
  <2> QED BY <2>1, SameClicks
<1>4. CASE SetRecording
  <2>1. /\ history' = [history EXCEPT !.recording = history'.recording] /\ session' = session
        /\ UNCHANGED <<shuttingDown, pending, pastes, copies>>
    BY <1>4, SetRecordingProof
  <2>2. history'.entries = history.entries /\ history'.nextEntry = history.nextEntry
    BY <2>1 DEF HistoryInv, HistoryTypeOK, Lists
  <2> QED BY <2>1, <2>2, SameClicks
<1>5. CASE StorageThread BY <1>3, <1>4, <1>5, LoadClicks DEF StorageThread
<1>6. CASE \E text \in ClipTexts : SampleText(text) \/ Captured(text)
  <2>1. ASSUME NEW text \in ClipTexts, SampleText(text) PROVE ClickInv'
    BY <2>1, SameClicks DEF SampleText, reducer, workerVars
  <2> QED BY <1>6, <2>1, CapturedClicks
<1>7. CASE (\E w \in pastes : PasteWorker(w)) \/ (\E w \in copies : CopyWorker(w))
  BY <1>7, PasteStepClicks, PasteEndClicks, CopyStartClicks, CopyEndClicks
  DEF PasteWorker, CopyWorker
<1>8. CASE UNCHANGED historyVars BY <1>8, SameClicks DEF historyVars, reducer, runtime, workerVars
<1> QED
  BY <1>1, <1>2, <1>5, <1>6, <1>7, <1>8, UserClicks, LimitClicks, ExecuteClicks DEF HistoryNext

LEMMA ClickInit == ASSUME HistoryInit PROVE ClickInv
<1>1. /\ history.entries = <<>> /\ session = NoSession /\ pastes = {} /\ copies = {}
      /\ \A t \in HistoryThreads : pending[t] = NoCommand
  BY DEF HistoryInit
<1>2. Named(pending, pastes, copies) = {} BY <1>1, CommandKinds DEF Named, Ordered
<1>3. ~session.busy /\ DOMAIN session.copy = {} BY <1>1, EmptyWindow, FreshWindow
<1> QED BY <1>1, <1>2, <1>3 DEF ClickInv, IdsAgree, CopiesListed, PasteAwaited, CopiesAwaited

LEMMA OrdersAre ==
    ASSUME HistoryInv
    PROVE  /\ \A kind \in {"copy", "paste"} :
                 \A workers : Ordered(pending, workers, kind) = Orders(workers, kind)
           /\ \A c \in Clicked : c.entry \in Named(pending, pastes, copies)
<1>1. \A t \in HistoryThreads : pending[t] \in {NoCommand} \cup Saves \cup Clicks
  BY DEF HistoryInv, HistoryTypeOK
<1>2. \A c : c \in Clicked <=> (c \in Clicks /\ \E t \in HistoryThreads : pending[t] = c)
  <2>1. ASSUME NEW c \in Clicked PROVE c \in Clicks /\ \E t \in HistoryThreads : pending[t] = c
    <3>1. PICK t \in HistoryThreads : pending[t] = c /\ c.kind \in {"copy", "paste"} BY DEF Clicked
    <3>2. c \notin Saves /\ c # NoCommand
      BY <3>1, CommandKinds, "save" \notin {"copy", "paste"}, "none" \notin {"copy", "paste"}
    <3> QED BY <1>1, <3>1, <3>2
  <2>2. ASSUME NEW c \in Clicks, \E t \in HistoryThreads : pending[t] = c PROVE c \in Clicked
    BY <2>2, CommandKinds DEF Clicked
  <2> QED BY <2>1, <2>2
<1>3. \A c \in Clicks : c.kind = "copy" \/ c.kind = "paste" BY CommandKinds
<1>4. \A c \in Clicked :
         c \in Ordered(pending, pastes, "paste") \/ c \in Ordered(pending, copies, "copy")
  BY <1>2, <1>3 DEF Ordered
<1> QED BY <1>2, <1>4 DEF Ordered, Orders, Named

\* What a click asked for is done to the text that was clicked, and a window that refuses clicks
\* waits for work that is under way, for any number of texts, windows and clicks, whatever is
\* recorded, deleted, cleared, pinned or reopened meanwhile.
THEOREM ClicksAreServed == HistorySpec => []ClicksServed
<1>1. HistoryInit => HistoryInv /\ ClickInv BY InitKept, ClickInit
<1>2. HistoryInv /\ ClickInv /\ [HistoryNext]_historyVars => (HistoryInv /\ ClickInv)'
  BY NextKept, ClicksKept
<1>3. HistoryInv /\ ClickInv => ClicksServed
  <2>1. ASSUME HistoryInv, ClickInv PROVE IdsNameTexts
    <3>1. SUFFICES ASSUME NEW order \in pastes \cup copies \cup Clicked,
                          NEW i \in DOMAIN history.entries,
                          history.entries[i].id = order.entry.id
          PROVE  history.entries[i] = order.entry
      BY DEF IdsNameTexts
    <3>2. order.entry \in Named(pending, pastes, copies) BY <2>1, OrdersAre DEF Named, Ordered
    <3> QED BY <2>1, <3>1, <3>2 DEF ClickInv, IdsAgree
  <2>2. ASSUME HistoryInv, ClickInv PROVE ClicksComeBack
    <3>1. /\ Ordered(pending, pastes, "paste") = Orders(pastes, "paste")
          /\ Ordered(pending, copies, "copy") = Orders(copies, "copy")
      BY <2>2, OrdersAre
    <3> QED BY <2>2, <3>1 DEF ClickInv, PasteAwaited, CopiesAwaited, ClicksComeBack
  <2> QED BY <2>1, <2>2 DEF ClicksServed
<1> QED BY <1>1, <1>2, <1>3, PTL DEF HistorySpec

========================================
