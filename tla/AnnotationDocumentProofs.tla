----------------------- MODULE AnnotationDocumentProofs -----------------------
(***************************************************************************)
(* Theorems about AnnotationDocument, for any tools and any number of       *)
(* objects and edits: the slot of the snapshot belongs to one operation,    *)
(* and undo goes back over the documents the user left.                     *)
(*                                                                         *)
(* The handlers are compositions of operators on the registry.  Each        *)
(* operator is described once by what it does to the slot, to its owners    *)
(* and to the history; objects, looks and texts never matter.               *)
(***************************************************************************)
EXTENDS AnnotationDocument, SequenceTheorems, TLAPS

FieldNames ==
    {"objects", "selected", "undo", "before", "created", "patch", "patchBefore", "mode", "crop",
     "panel", "bound", "defaults", "edit", "posted", "deferred", "gesture", "editor"}

GestureNames ==
    {"erase", "place", "move", "resize", "handle", "draw", "create", "delete", "control",
     "toggle", "selection"}

\* A sequence, whatever its elements are.
IsSequence(q) == q \in Seq({q[i] : i \in DOMAIN q})

\* A record with these fields.
HasFields(r, names) == r = [name \in names |-> r[name]]

IsEdit(edit) == edit = Unset \/ (HasFields(edit, {"kind", "target"}) /\ edit.kind = "edit")

IsGesture(gesture) ==
    \/ gesture = Unset
    \/ /\ HasFields(gesture, {"kind", "original", "editing", "active"})
       /\ gesture.kind \in GestureNames

\* The part of the registry's type that the slot and the history depend on.
IsRegistry(r) ==
    /\ HasFields(r, FieldNames)
    /\ IsSequence(r.undo) /\ IsEdit(r.edit) /\ IsGesture(r.gesture)

\* Who owns the slot of the snapshot.
Owned(r) ==
    /\ (r.before # Unset) <=> (r.edit # Unset \/ OwnsTransaction(r.gesture))
    /\ ~(r.edit # Unset /\ OwnsTransaction(r.gesture))

GoodRegistry(r) == IsRegistry(r) /\ Owned(r)

\* The document without the operation that runs.
Lasting(r) == IF r.before = Unset THEN r.objects ELSE r.before.objects

\* From s to t the history only grows, and if it grows it begins with what s had.
Extends(s, t) ==
    /\ Len(s.undo) <= Len(t.undo)
    /\ \A i \in 1 .. Len(s.undo) : t.undo[i] = s.undo[i]
    /\ IF Len(s.undo) = Len(t.undo) THEN Lasting(t) = Lasting(s)
       ELSE t.undo[Len(s.undo) + 1].objects = Lasting(s)

----------------------------------------
(* Sequences and records.                                                    *)

LEMMA SequenceFacts ==
    ASSUME NEW q, IsSequence(q)
    PROVE  Len(q) \in Nat /\ DOMAIN q = 1 .. Len(q)
BY DEF IsSequence

LEMMA SomeSequence ==
    ASSUME NEW S, NEW q \in Seq(S)
    PROVE  IsSequence(q)
BY DEF IsSequence

LEMMA LongerSequence ==
    ASSUME NEW q, NEW e, IsSequence(q)
    PROVE  /\ IsSequence(Append(q, e))
           /\ Len(Append(q, e)) = Len(q) + 1
           /\ \A i \in 1 .. Len(q) : Append(q, e)[i] = q[i]
           /\ Append(q, e)[Len(q) + 1] = e
<1> DEFINE S == {q[i] : i \in DOMAIN q} \cup {e}
<1>1. q \in Seq(S) BY DEF IsSequence
<1>2. Append(q, e) \in Seq(S) /\ Len(Append(q, e)) = Len(q) + 1 /\ Len(q) \in Nat BY <1>1
<1>3. /\ \A i \in 1 .. Len(q) : Append(q, e)[i] = q[i]
      /\ Append(q, e)[Len(q) + 1] = e
  BY <1>1
<1>4. IsSequence(Append(q, e)) BY ONLY <1>2, SomeSequence
<1> QED BY <1>2, <1>3, <1>4

LEMMA ShorterSequence ==
    ASSUME NEW q, IsSequence(q), q # << >>
    PROVE  /\ IsSequence(Front(q))
           /\ Len(Front(q)) = Len(q) - 1 /\ Len(q) > 0
           /\ \A i \in 1 .. Len(q) - 1 : Front(q)[i] = q[i]
           /\ Last(q) = q[Len(q)]
<1> DEFINE S == {q[i] : i \in DOMAIN q}
<1>1. q \in Seq(S) BY DEF IsSequence
<1>2. Len(q) \in Nat /\ Len(q) > 0 BY <1>1
<1>3. /\ Front(q) \in Seq(S) /\ Len(Front(q)) = Len(q) - 1
      /\ \A i \in 1 .. Len(q) - 1 : Front(q)[i] = q[i]
  <2>1. Len(q) - 1 \in Int /\ \A i \in 1 .. Len(q) - 1 : q[i] \in S BY <1>1, <1>2
  <2>2. /\ SubSeq(q, 1, Len(q) - 1) \in Seq(S)
        /\ Len(SubSeq(q, 1, Len(q) - 1)) = IF 1 <= Len(q) - 1 THEN Len(q) - 1 - 1 + 1 ELSE 0
        /\ \A i \in 1 .. Len(q) - 1 - 1 + 1 : SubSeq(q, 1, Len(q) - 1)[i] = q[1 + i - 1]
    BY <2>1, SubSeqProperties
  <2>3. \A i \in 1 .. Len(q) - 1 : i \in 1 .. Len(q) - 1 - 1 + 1 /\ 1 + i - 1 = i BY <1>2
  <2>4. \A i \in 1 .. Len(q) - 1 : SubSeq(q, 1, Len(q) - 1)[i] = q[i] BY <2>2, <2>3
  <2>5. Len(SubSeq(q, 1, Len(q) - 1)) = Len(q) - 1 BY SMTT(30), <1>2, <2>2
  <2> QED BY ONLY <2>2, <2>4, <2>5 DEF Front
<1>4. IsSequence(Front(q)) BY ONLY <1>3, SomeSequence
<1> QED BY <1>2, <1>3, <1>4 DEF Last

\* Histories that grow, grow again.
LEMMA ExtendsTwice ==
    ASSUME NEW r, NEW s, NEW t, IsRegistry(r), IsRegistry(s), IsRegistry(t),
           Extends(r, s), Extends(s, t)
    PROVE  Extends(r, t)
<1>1. Len(r.undo) \in Nat /\ Len(s.undo) \in Nat /\ Len(t.undo) \in Nat
  BY SequenceFacts DEF IsRegistry
<1> QED BY SMTT(30), <1>1 DEF Extends

LEMMA ExtendsItself ==
    ASSUME NEW r, IsRegistry(r)
    PROVE  Extends(r, r)
BY SequenceFacts DEF IsRegistry, Extends

----------------------------------------
(* What an operator may do to the slot, to its owners and to the history.    *)

\* It leaves the gesture alone, and the history only grows.
Carries(s, t) == IsRegistry(t) /\ t.gesture = s.gesture /\ Extends(s, t)

\* It leaves the slot to whoever owns it.
Kept(s, t) ==
    /\ Carries(s, t)
    /\ t.before = s.before /\ (t.edit = Unset <=> s.edit = Unset)

\* It takes the slot.
Begun(s, t) == Carries(s, t) /\ t.before # Unset /\ t.edit = s.edit

\* It gives the slot back.
Ended(s, t) == Carries(s, t) /\ t.before = Unset /\ t.edit = s.edit

\* It completes the change of parameters, if there is one.
Settled(s, t) ==
    /\ Carries(s, t) /\ t.edit = Unset
    /\ t.before = (IF s.edit = Unset THEN s.before ELSE Unset)

\* It may begin a change of parameters.
Tuned(s, t) == Kept(s, t) \/ (Carries(s, t) /\ t.before # Unset /\ t.edit # Unset)

LEMMA KeptItself ==
    ASSUME NEW r, IsRegistry(r)
    PROVE  Kept(r, r)
BY ExtendsItself DEF Kept, Carries

LEMMA KeptTwice ==
    ASSUME NEW r, NEW s, NEW t, IsRegistry(r), Kept(r, s), Kept(s, t)
    PROVE  Kept(r, t)
BY ExtendsTwice DEF Kept, Carries

LEMMA KeptThenSettled ==
    ASSUME NEW r, NEW s, NEW t, IsRegistry(r), Kept(r, s), Settled(s, t)
    PROVE  Settled(r, t)
BY ExtendsTwice DEF Kept, Settled, Carries

LEMMA SettledThenKept ==
    ASSUME NEW r, NEW s, NEW t, IsRegistry(r), Settled(r, s), Kept(s, t)
    PROVE  Settled(r, t)
BY ExtendsTwice DEF Kept, Settled, Carries

LEMMA SettledThenBegun ==
    ASSUME NEW r, NEW s, NEW t, IsRegistry(r), Settled(r, s), Begun(s, t)
    PROVE  Carries(r, t) /\ t.before # Unset /\ t.edit = Unset
BY ExtendsTwice DEF Begun, Settled, Carries

LEMMA KeptThenTuned ==
    ASSUME NEW r, NEW s, NEW t, IsRegistry(r), Kept(r, s), Tuned(s, t)
    PROVE  Tuned(r, t)
BY ExtendsTwice DEF Kept, Tuned, Carries

LEMMA TunedThenKept ==
    ASSUME NEW r, NEW s, NEW t, IsRegistry(r), Tuned(r, s), Kept(s, t)
    PROVE  Tuned(r, t)
BY ExtendsTwice DEF Kept, Tuned, Carries

\* Changes of other fields, and changes of the document that leave a step or are part of an
\* operation.
LEMMA KeptByChange ==
    ASSUME NEW r, NEW t, IsRegistry(r), HasFields(t, FieldNames),
           t.before = r.before, t.edit = r.edit, t.gesture = r.gesture,
           \/ t.undo = Remember(r).undo
           \/ t.undo = r.undo /\ (r.before # Unset \/ t.objects = r.objects)
    PROVE  Kept(r, t)
<1>1. Snapshot(r).objects = r.objects BY DEF Snapshot
<1>2. Len(r.undo) \in Nat BY SequenceFacts DEF IsRegistry
<1>3. Remember(r).undo = IF r.before = Unset THEN Append(r.undo, Snapshot(r)) ELSE r.undo
  BY DEF Remember, IsRegistry, HasFields, FieldNames
<1>4. CASE r.before = Unset /\ t.undo = Append(r.undo, Snapshot(r))
  <2>1. /\ IsSequence(t.undo) /\ Len(t.undo) = Len(r.undo) + 1
        /\ \A i \in 1 .. Len(r.undo) : t.undo[i] = r.undo[i]
        /\ t.undo[Len(r.undo) + 1] = Snapshot(r)
    BY <1>4, LongerSequence DEF IsRegistry
  <2>2. Extends(r, t) BY <1>1, <1>2, <1>4, <2>1 DEF Extends, Lasting
  <2> QED BY <2>1, <2>2 DEF Kept, Carries, IsRegistry
<1>5. CASE t.undo = r.undo /\ (r.before # Unset \/ t.objects = r.objects)
  <2>1. Extends(r, t) BY <1>2, <1>5 DEF Extends, Lasting
  <2> QED BY <1>5, <2>1 DEF Kept, Carries, IsRegistry
<1> QED BY <1>3, <1>4, <1>5

LEMMA KeptElsewhere ==
    ASSUME NEW r, NEW t, IsRegistry(r), HasFields(t, FieldNames), t.undo = r.undo,
           t.before = r.before, t.edit = r.edit, t.gesture = r.gesture, t.objects = r.objects
    PROVE  Kept(r, t)
BY KeptByChange

\* Any gesture may follow another.
LEMMA GestureChanges ==
    ASSUME NEW r, NEW gesture, IsRegistry(r), IsGesture(gesture)
    PROVE  LET t == [r EXCEPT !.gesture = gesture]
           IN  /\ IsRegistry(t) /\ Extends(r, t) /\ t.gesture = gesture
               /\ t.before = r.before /\ t.edit = r.edit
               /\ \A f \in FieldNames \ {"gesture"} : t[f] = r[f]
<1> DEFINE t == [r EXCEPT !.gesture = gesture]
<1>1. /\ HasFields(t, FieldNames) /\ t.gesture = gesture
      /\ \A f \in FieldNames \ {"gesture"} : t[f] = r[f]
  BY DEF IsRegistry, HasFields, FieldNames
<1>2. /\ t.before = r.before /\ t.edit = r.edit /\ t.undo = r.undo /\ t.objects = r.objects
  BY <1>1 DEF FieldNames
<1> HIDE DEF t
<1>3. IsRegistry(t) /\ Extends(r, t) BY <1>1, <1>2, SequenceFacts DEF IsRegistry, Extends, Lasting
<1> QED BY <1>1, <1>2, <1>3 DEF t

----------------------------------------
(* The session of the document.                                              *)

LEMMA BeginDragTakes ==
    ASSUME NEW r, IsRegistry(r)
    PROVE  Begun(r, BeginDrag(r))
<1> DEFINE t == BeginDrag(r)
<1>1. Snapshot(r).objects = r.objects /\ Snapshot(r) # Unset
  <2>1. Snapshot(r).kind = "snapshot" /\ Unset.kind = "unset" BY DEF Snapshot, Unset
  <2> QED BY <2>1 DEF Snapshot
<1>2. HasFields(t, FieldNames) /\ t.undo = r.undo /\ t.edit = r.edit /\ t.gesture = r.gesture
  BY DEF BeginDrag, IsRegistry, HasFields, FieldNames
<1>3. /\ t.before # Unset
      /\ (IF r.before = Unset THEN Snapshot(r).objects ELSE r.before.objects) = t.before.objects
  BY <1>1 DEF BeginDrag, IsRegistry, HasFields, FieldNames
<1> HIDE DEF t
<1>4. IsRegistry(t) /\ Extends(r, t)
  BY <1>1, <1>2, <1>3, SequenceFacts DEF IsRegistry, Extends, Lasting
<1> QED BY <1>2, <1>3, <1>4 DEF Begun, Carries, t

LEMMA RestoreSnapshotFields ==
    ASSUME NEW r, NEW before, IsRegistry(r)
    PROVE  LET t == RestoreSnapshot(r, before)
           IN  /\ HasFields(t, FieldNames) /\ t.objects = before.objects
               /\ \A f \in FieldNames \ {"objects", "selected"} : t[f] = r[f]
BY DEF RestoreSnapshot, IsRegistry, HasFields, FieldNames

LEMMA CancelDragGivesBack ==
    ASSUME NEW r, IsRegistry(r)
    PROVE  Ended(r, CancelDrag(r))
<1>1. CASE r.before = Unset BY <1>1, ExtendsItself DEF CancelDrag, Ended, Carries
<1>2. CASE r.before # Unset
  <2> DEFINE s == RestoreSnapshot(r, r.before)
             t == CancelDrag(r)
  <2>1. /\ HasFields(s, FieldNames) /\ s.objects = r.before.objects
        /\ s.undo = r.undo /\ s.edit = r.edit /\ s.gesture = r.gesture
    BY RestoreSnapshotFields DEF FieldNames
  <2>2. t = [s EXCEPT !.before = Unset, !.patchBefore = Unset,
              !.patch = IF @ = Unset \/ r.patchBefore = Unset THEN Unset
                        ELSE [@ EXCEPT !.wide = r.patchBefore.wide]]
    BY <1>2 DEF CancelDrag
  <2> HIDE DEF s, t
  <2>3. /\ HasFields(t, FieldNames) /\ t.before = Unset /\ t.objects = s.objects
        /\ t.undo = s.undo /\ t.edit = s.edit /\ t.gesture = s.gesture
    BY <2>1, <2>2 DEF HasFields, FieldNames
  <2>4. IsRegistry(t) /\ Extends(r, t)
    BY <1>2, <2>1, <2>3, SequenceFacts DEF IsRegistry, Extends, Lasting
  <2> QED BY <2>1, <2>3, <2>4 DEF Ended, Carries, t
<1> QED BY <1>1, <1>2

\* A finished operation leaves the document it began with, or changed nothing.
LEMMA FinishDragGivesBack ==
    ASSUME NEW r, IsRegistry(r)
    PROVE  Ended(r, FinishDrag(r))
<1>1. CASE r.patch # Unset /\ ~r.patch.wide BY <1>1, CancelDragGivesBack DEF FinishDrag
<1>2. CASE ~(r.patch # Unset /\ ~r.patch.wide)
  <2> DEFINE s == [r EXCEPT !.before = Unset, !.patchBefore = Unset]
             t == FinishDrag(r)
  <2>1. /\ HasFields(s, FieldNames) /\ s.before = Unset /\ s.objects = r.objects
        /\ s.undo = r.undo /\ s.edit = r.edit /\ s.gesture = r.gesture
    BY DEF IsRegistry, HasFields, FieldNames
  <2>2. t = IF r.before # Unset /\ r.before # Snapshot(r)
            THEN [s EXCEPT !.undo = Append(@, r.before)] ELSE s
    BY <1>2 DEF FinishDrag
  <2> HIDE DEF s, t
  <2>3. CASE r.before # Unset /\ r.before # Snapshot(r)
    <3>1. /\ HasFields(t, FieldNames) /\ t.before = Unset
          /\ t.undo = Append(r.undo, r.before) /\ t.edit = r.edit /\ t.gesture = r.gesture
      BY <2>1, <2>2, <2>3 DEF HasFields, FieldNames
    <3>2. /\ IsSequence(t.undo) /\ Len(t.undo) = Len(r.undo) + 1 /\ Len(r.undo) \in Nat
          /\ \A i \in 1 .. Len(r.undo) : t.undo[i] = r.undo[i]
          /\ t.undo[Len(r.undo) + 1] = r.before
      BY <3>1, LongerSequence, SequenceFacts DEF IsRegistry
    <3>3. IsRegistry(t) /\ Extends(r, t) BY <2>3, <3>1, <3>2 DEF IsRegistry, Extends, Lasting
    <3> QED BY <3>1, <3>3 DEF Ended, Carries, t
  <2>4. CASE ~(r.before # Unset /\ r.before # Snapshot(r))
    <3>1. Snapshot(r).objects = r.objects BY DEF Snapshot
    <3>2. Lasting(t) = Lasting(r) BY <2>1, <2>2, <2>4, <3>1 DEF Lasting
    <3>3. IsRegistry(t) /\ Extends(r, t)
      BY <2>1, <2>2, <2>4, <3>2, SequenceFacts DEF IsRegistry, Extends
    <3> QED BY <2>1, <2>2, <2>4, <3>3 DEF Ended, Carries, t
  <2> QED BY <2>3, <2>4
<1> QED BY <1>1, <1>2

LEMMA FinishRectangleEraseKeeps ==
    ASSUME NEW r, IsRegistry(r)
    PROVE  Kept(r, FinishRectangleErase(r))
<1> DEFINE t == FinishRectangleErase(r)
<1>1. /\ HasFields(t, FieldNames) /\ t.undo = r.undo /\ t.before = r.before
      /\ t.edit = r.edit /\ t.gesture = r.gesture /\ t.objects = r.objects
  BY DEF FinishRectangleErase, IsRegistry, HasFields, FieldNames
<1> QED BY <1>1, KeptElsewhere

\* What changes the document of its own leaves a step.
LEMMA RememberedFields ==
    ASSUME NEW r, IsRegistry(r)
    PROVE  LET t == Remember(r)
           IN  /\ HasFields(t, FieldNames)
               /\ \A f \in FieldNames \ {"undo"} : t[f] = r[f]
BY DEF Remember, IsRegistry, HasFields, FieldNames

LEMMA AddKeeps ==
    ASSUME NEW r, NEW object, IsRegistry(r)
    PROVE  Kept(r, Add(r, object))
<1> DEFINE s == FinishRectangleErase(r)
           m == Remember(s)
           t == Add(r, object)
<1>1. Kept(r, s) /\ IsRegistry(s) BY FinishRectangleEraseKeeps DEF Kept, Carries
<1>2. /\ HasFields(m, FieldNames) /\ m.before = s.before /\ m.edit = s.edit
      /\ m.gesture = s.gesture
  BY <1>1, RememberedFields DEF FieldNames
<1>3. \E objects, selected, created, chosen :
        t = [[m EXCEPT !.objects = objects, !.selected = selected, !.created = created]
                EXCEPT !.selected = chosen]
  BY DEF Add
<1> HIDE DEF s, t
<1>4. /\ HasFields(t, FieldNames) /\ t.undo = m.undo /\ t.before = m.before
      /\ t.edit = m.edit /\ t.gesture = m.gesture
  BY <1>2, <1>3 DEF HasFields, FieldNames
<1>5. Kept(s, t) BY <1>1, <1>2, <1>4, KeptByChange
<1> QED BY <1>1, <1>5, KeptTwice DEF t

LEMMA ReplaceSelectedKeeps ==
    ASSUME NEW r, NEW object, IsRegistry(r)
    PROVE  Kept(r, ReplaceSelected(r, object))
<1> DEFINE changed == [r EXCEPT !.objects[r.selected] = object]
           t == ReplaceSelected(r, object)
<1>1. /\ HasFields(changed, FieldNames) /\ changed.undo = r.undo /\ changed.before = r.before
      /\ changed.edit = r.edit /\ changed.gesture = r.gesture
  BY DEF IsRegistry, HasFields, FieldNames
<1>2. t = IF r.before = Unset /\ changed.objects # r.objects
          THEN [changed EXCEPT !.undo = Append(@, Snapshot(r))] ELSE changed
  BY DEF ReplaceSelected
<1>3. r.before = Unset => Remember(r).undo = Append(r.undo, Snapshot(r))
  BY DEF Remember, IsRegistry, HasFields, FieldNames
<1> HIDE DEF changed, t
<1>4. CASE r.before = Unset /\ changed.objects # r.objects
  <2>1. /\ HasFields(t, FieldNames) /\ t.undo = Append(r.undo, Snapshot(r))
        /\ t.before = r.before /\ t.edit = r.edit /\ t.gesture = r.gesture
    BY <1>1, <1>2, <1>4 DEF HasFields, FieldNames
  <2> QED BY <1>3, <1>4, <2>1, KeptByChange DEF t
<1>5. CASE ~(r.before = Unset /\ changed.objects # r.objects)
  BY <1>1, <1>2, <1>5, KeptByChange DEF t
<1> QED BY <1>4, <1>5

LEMMA UpdateSelectedKeeps ==
    ASSUME NEW r, NEW form, NEW look, IsRegistry(r)
    PROVE  Kept(r, UpdateSelected(r, form, look))
<1>1. \/ UpdateSelected(r, form, look) = r
      \/ \E object : UpdateSelected(r, form, look) = ReplaceSelected(r, object)
  BY DEF UpdateSelected
<1> QED BY <1>1, KeptItself, ReplaceSelectedKeeps

LEMMA DeleteSelectedKeeps ==
    ASSUME NEW r, IsRegistry(r)
    PROVE  Kept(r, DeleteSelected(r))
<1> DEFINE m == Remember(r)
           t == DeleteSelected(r)
<1>1. HasFields(m, FieldNames) /\ m.before = r.before /\ m.edit = r.edit /\ m.gesture = r.gesture
  BY RememberedFields DEF FieldNames
<1>2. t = r \/ \E objects : t = [m EXCEPT !.objects = objects, !.selected = 0] BY DEF DeleteSelected
<1> HIDE DEF t
<1>3. t # r => /\ HasFields(t, FieldNames) /\ t.undo = m.undo /\ t.before = m.before
               /\ t.edit = m.edit /\ t.gesture = m.gesture
  BY <1>1, <1>2 DEF HasFields, FieldNames
<1>4. t # r => Kept(r, t) BY <1>1, <1>3, KeptByChange
<1> QED BY <1>4, KeptItself DEF t

LEMMA ClearAllKeeps ==
    ASSUME NEW r, IsRegistry(r)
    PROVE  Kept(r, ClearAll(r))
<1> DEFINE s == FinishRectangleErase(r)
           m == Remember(s)
           t == ClearAll(r)
<1>1. Kept(r, s) /\ IsRegistry(s) BY FinishRectangleEraseKeeps DEF Kept, Carries
<1>2. HasFields(m, FieldNames) /\ m.before = s.before /\ m.edit = s.edit /\ m.gesture = s.gesture
  BY <1>1, RememberedFields DEF FieldNames
<1>3. t = s \/ t = [m EXCEPT !.objects = << >>, !.selected = 0] BY DEF ClearAll
<1> HIDE DEF s, t
<1>4. t # s => /\ HasFields(t, FieldNames) /\ t.undo = m.undo /\ t.before = m.before
               /\ t.edit = m.edit /\ t.gesture = m.gesture
  BY <1>2, <1>3 DEF HasFields, FieldNames
<1>5. t # s => Kept(s, t) BY <1>1, <1>2, <1>4, KeptByChange
<1> QED BY <1>1, <1>5, KeptTwice DEF t

\* The last document left comes back.
Undone(s, t) ==
    /\ Len(s.undo) > 0 /\ Len(t.undo) = Len(s.undo) - 1
    /\ \A i \in 1 .. Len(t.undo) : t.undo[i] = s.undo[i]
    /\ Lasting(t) = s.undo[Len(s.undo)].objects

LEMMA UndoSessionUndoes ==
    ASSUME NEW r, IsRegistry(r), r.before = Unset
    PROVE  LET t == UndoSession(r)
           IN  /\ IsRegistry(t) /\ t.before = Unset /\ (t.edit = Unset <=> r.edit = Unset)
               /\ t.gesture = r.gesture
               /\ IF r.undo = << >> THEN Kept(r, t) ELSE Undone(r, t)
<1> DEFINE s == FinishRectangleErase(r)
           u == [s EXCEPT !.undo = Front(@), !.before = Unset]
           t == UndoSession(r)
<1>1. /\ HasFields(s, FieldNames) /\ s.undo = r.undo /\ s.before = r.before
      /\ s.edit = r.edit /\ s.gesture = r.gesture /\ s.objects = r.objects
  BY DEF FinishRectangleErase, IsRegistry, HasFields, FieldNames
<1>2. Kept(r, s) BY FinishRectangleEraseKeeps
<1>3. t = IF s.undo = << >> THEN s ELSE RestoreSnapshot(u, Last(s.undo)) BY DEF UndoSession
<1> HIDE DEF s
<1>4. CASE r.undo = << >> BY <1>1, <1>2, <1>3, <1>4 DEF Kept, Carries
<1>5. CASE r.undo # << >>
  <2>1. /\ IsSequence(Front(r.undo)) /\ Len(Front(r.undo)) = Len(r.undo) - 1 /\ Len(r.undo) > 0
        /\ \A i \in 1 .. Len(r.undo) - 1 : Front(r.undo)[i] = r.undo[i]
        /\ Last(r.undo) = r.undo[Len(r.undo)]
    BY <1>5, ShorterSequence DEF IsRegistry
  <2>2. /\ HasFields(u, FieldNames) /\ u.undo = Front(r.undo) /\ u.before = Unset
        /\ u.edit = r.edit /\ u.gesture = r.gesture
    BY <1>1 DEF HasFields, FieldNames
  <2> HIDE DEF u
  <2>3. IsRegistry(u) BY <2>1, <2>2 DEF IsRegistry
  <2>4. /\ HasFields(t, FieldNames) /\ t.objects = Last(r.undo).objects
        /\ t.undo = u.undo /\ t.before = Unset /\ t.edit = r.edit /\ t.gesture = r.gesture
    BY <1>1, <1>3, <1>5, <2>2, <2>3, RestoreSnapshotFields DEF FieldNames
  <2> HIDE DEF t
  <2>5. IsRegistry(t) BY <2>1, <2>2, <2>4 DEF IsRegistry
  <2>6. Undone(r, t) BY <2>1, <2>2, <2>4 DEF Undone, Lasting
  <2> QED BY <1>5, <2>4, <2>5, <2>6 DEF t
<1> QED BY <1>4, <1>5

----------------------------------------
(* The parameters of the panel.                                              *)

LEMMA OutdateKeeps ==
    ASSUME NEW r, NEW all, IsRegistry(r)
    PROVE  Kept(r, Outdate(r, all))
<1> DEFINE t == Outdate(r, all)
<1>1. \E posted, deferred :
        \/ t = [r EXCEPT !.posted = posted, !.deferred = deferred, !.edit = @]
        \/ /\ r.edit # Unset
           /\ t = [r EXCEPT !.posted = posted, !.deferred = deferred,
                            !.edit = [@ EXCEPT !.target.fresh = FALSE]]
  BY DEF Outdate
<1>2. /\ HasFields(t, FieldNames) /\ t.undo = r.undo /\ t.before = r.before
      /\ t.gesture = r.gesture /\ t.objects = r.objects
      /\ \/ t.edit = r.edit
         \/ r.edit # Unset /\ t.edit = [r.edit EXCEPT !.target.fresh = FALSE]
  BY ZenonT(60), <1>1 DEF IsRegistry, HasFields, FieldNames
<1> HIDE DEF t
<1>3. IsEdit(t.edit) /\ (t.edit = Unset <=> r.edit = Unset)
  <2>1. CASE t.edit = r.edit BY <2>1 DEF IsRegistry
  <2>2. CASE r.edit # Unset /\ t.edit = [r.edit EXCEPT !.target.fresh = FALSE]
    <3>1. HasFields(r.edit, {"kind", "target"}) /\ r.edit.kind = "edit"
      BY <2>2 DEF IsRegistry, IsEdit
    <3>2. HasFields(t.edit, {"kind", "target"}) /\ t.edit.kind = "edit" BY <2>2, <3>1 DEF HasFields
    <3> QED BY <2>2, <3>2 DEF IsEdit, Unset
  <2> QED BY <1>2, <2>1, <2>2
<1>4. Extends(r, t) BY <1>2, SequenceFacts DEF IsRegistry, Extends, Lasting
<1> QED BY <1>2, <1>3, <1>4 DEF Kept, Carries, IsRegistry, t

LEMMA AdvanceProjectionKeeps ==
    ASSUME NEW r, IsRegistry(r)
    PROVE  Kept(r, AdvanceProjection(r))
BY OutdateKeeps DEF AdvanceProjection

LEMMA DeselectKeeps ==
    ASSUME NEW r, IsRegistry(r)
    PROVE  Kept(r, Deselect(r))
<1> DEFINE s == AdvanceProjection(r)
           t == Deselect(r)
<1>1. Kept(r, s) /\ IsRegistry(s) BY AdvanceProjectionKeeps DEF Kept, Carries
<1>2. t = [s EXCEPT !.selected = 0, !.bound = 0] BY DEF Deselect
<1> HIDE DEF s, t
<1>3. /\ HasFields(t, FieldNames) /\ t.undo = s.undo /\ t.before = s.before
      /\ t.edit = s.edit /\ t.gesture = s.gesture /\ t.objects = s.objects
  BY <1>1, <1>2 DEF IsRegistry, HasFields, FieldNames
<1>4. Kept(s, t) BY <1>1, <1>3, KeptElsewhere
<1> QED BY <1>1, <1>4, KeptTwice DEF t

LEMMA ProjectKeeps ==
    ASSUME NEW r, IsRegistry(r)
    PROVE  Kept(r, Project(r))
<1> DEFINE s == AdvanceProjection(r)
           t == Project(r)
<1>1. Kept(r, s) /\ IsRegistry(s) BY AdvanceProjectionKeeps DEF Kept, Carries
<1>2. \E bound : t = [s EXCEPT !.bound = bound] BY DEF Project
<1> HIDE DEF s, t
<1>3. /\ HasFields(t, FieldNames) /\ t.undo = s.undo /\ t.before = s.before
      /\ t.edit = s.edit /\ t.gesture = s.gesture /\ t.objects = s.objects
  BY <1>1, <1>2 DEF IsRegistry, HasFields, FieldNames
<1>4. Kept(s, t) BY <1>1, <1>3, KeptElsewhere
<1> QED BY <1>1, <1>4, KeptTwice DEF t

LEMMA RefreshTargetKeeps ==
    ASSUME NEW r, IsRegistry(r)
    PROVE  Kept(r, RefreshTarget(r))
BY KeptItself, ProjectKeeps DEF RefreshTarget

LEMMA FinishStyleEditSettles ==
    ASSUME NEW r, IsRegistry(r)
    PROVE  Settled(r, FinishStyleEdit(r))
<1>1. CASE r.edit = Unset BY <1>1, ExtendsItself DEF FinishStyleEdit, Settled, Carries
<1>2. CASE r.edit # Unset
  <2> DEFINE s == FinishDrag(r)
             t == FinishStyleEdit(r)
  <2>1. Ended(r, s) /\ IsRegistry(s) BY FinishDragGivesBack DEF Ended, Carries
  <2>2. t = [s EXCEPT !.edit = Unset] BY <1>2 DEF FinishStyleEdit
  <2> HIDE DEF s, t
  <2>3. /\ HasFields(t, FieldNames) /\ t.undo = s.undo /\ t.before = s.before
        /\ t.edit = Unset /\ t.gesture = s.gesture /\ t.objects = s.objects
    BY <2>1, <2>2 DEF IsRegistry, HasFields, FieldNames
  <2>4. IsRegistry(t) BY <2>1, <2>3 DEF IsRegistry, IsEdit
  <2>5. Extends(r, t) BY <2>1, <2>3 DEF Ended, Carries, Extends, Lasting
  <2> QED BY <1>2, <2>1, <2>3, <2>4, <2>5 DEF Settled, Ended, Carries, t
<1> QED BY <1>1, <1>2

\* A change of parameters begins, after the one for another target has ended.
LEMMA TouchTakes ==
    ASSUME NEW r, NEW target, IsRegistry(r)
    PROVE  LET t == Touch(r, target)
           IN  Carries(r, t) /\ t.before # Unset /\ t.edit # Unset
<1> DEFINE s == IF r.edit # Unset /\ r.edit.target # target THEN FinishStyleEdit(r) ELSE r
           b == BeginDrag(s)
           t == Touch(r, target)
<1>1. IsRegistry(s) /\ s.gesture = r.gesture /\ Extends(r, s)
  BY FinishStyleEditSettles, ExtendsItself DEF Settled, Carries
<1>2. t = [b EXCEPT !.edit = [kind |-> "edit", target |-> target]] BY DEF Touch
<1> HIDE DEF s
<1>3. /\ IsRegistry(b) /\ b.gesture = s.gesture /\ Extends(s, b) /\ b.before # Unset
  BY <1>1, BeginDragTakes DEF Begun, Carries
<1> HIDE DEF b, t
<1>4. /\ HasFields(t, FieldNames) /\ t.undo = b.undo /\ t.before = b.before
      /\ t.edit = [kind |-> "edit", target |-> target]
      /\ t.gesture = b.gesture /\ t.objects = b.objects
  BY <1>2, <1>3 DEF IsRegistry, HasFields, FieldNames
<1>5. IsEdit(t.edit) /\ t.edit # Unset BY <1>4 DEF IsEdit, HasFields, Unset
<1>6. IsRegistry(t) /\ Extends(b, t)
  BY <1>3, <1>4, <1>5, SequenceFacts DEF IsRegistry, Extends, Lasting
<1>7. Extends(r, b) BY <1>1, <1>3, ExtendsTwice
<1>8. Extends(r, t) BY <1>3, <1>6, <1>7, ExtendsTwice
<1> QED BY <1>1, <1>3, <1>4, <1>5, <1>6, <1>8 DEF Carries, t

LEMMA RetunedKeeps ==
    ASSUME NEW r, NEW target, NEW look, IsRegistry(r)
    PROVE  Kept(r, Retuned(r, target, look))
<1> DEFINE t == Retuned(r, target, look)
<1>1. \E defaults, editor : t = [r EXCEPT !.defaults = defaults, !.editor = editor] BY DEF Retuned
<1> HIDE DEF t
<1>2. /\ HasFields(t, FieldNames) /\ t.undo = r.undo /\ t.before = r.before
      /\ t.edit = r.edit /\ t.gesture = r.gesture /\ t.objects = r.objects
  BY <1>1 DEF IsRegistry, HasFields, FieldNames
<1> QED BY <1>2, KeptElsewhere DEF t

LEMMA RetuneObjectKeeps ==
    ASSUME NEW r, NEW target, NEW look, IsRegistry(r)
    PROVE  Kept(r, RetuneObject(r, target, look))
BY KeptItself, UpdateSelectedKeeps DEF RetuneObject

LEMMA ApplyParameterTunes ==
    ASSUME NEW r, NEW target, NEW look, IsRegistry(r)
    PROVE  Tuned(r, ApplyParameter(r, target, look))
<1> DEFINE s == IF target.tool = "eraser" THEN FinishRectangleErase(r) ELSE r
           u == Touch(s, target)
           v == Retuned(u, target, look)
           t == RetuneObject(v, target, look)
<1>1. Kept(r, s) /\ IsRegistry(s) BY KeptItself, FinishRectangleEraseKeeps DEF Kept, Carries
<1> HIDE DEF s
<1>2. Tuned(s, u) /\ IsRegistry(u) BY <1>1, TouchTakes DEF Tuned, Carries
<1> HIDE DEF u
<1>3. Kept(u, v) /\ IsRegistry(v) BY <1>2, RetunedKeeps DEF Kept, Carries
<1> HIDE DEF v
<1>4. Kept(v, t) BY <1>3, RetuneObjectKeeps
<1> HIDE DEF t
<1>5. Tuned(r, t)
  <2>1. Tuned(r, u) BY <1>1, <1>2, KeptThenTuned
  <2>2. Tuned(r, v) BY <1>3, <2>1, TunedThenKept
  <2> QED BY <1>4, <2>2, TunedThenKept
<1>6. ApplyParameter(r, target, look) = r \/ ApplyParameter(r, target, look) = t
  BY DEF ApplyParameter, s, u, v, t
<1>7. Tuned(r, r) BY KeptItself DEF Tuned
<1> QED BY <1>5, <1>6, <1>7

\* While a gesture owns the slot a parameter waits.
LEMMA ApplyGeometryTunes ==
    ASSUME NEW r, NEW target, NEW look, IsRegistry(r)
    PROVE  LET t == ApplyGeometryValues(r, target, look)
           IN  Tuned(r, t) /\ (OwnsTransaction(r.gesture) => Kept(r, t))
<1> DEFINE t == ApplyGeometryValues(r, target, look)
           d == [r EXCEPT !.deferred = [kind |-> "request", target |-> target, look |-> look]]
<1>1. \/ t = r
      \/ t = d
      \/ ~OwnsTransaction(r.gesture) /\ t = ApplyParameter(r, target, look)
  BY DEF ApplyGeometryValues, BlocksParameters
<1>2. Kept(r, r) BY KeptItself
<1>3. Kept(r, d)
  <2>1. /\ HasFields(d, FieldNames) /\ d.undo = r.undo /\ d.before = r.before
        /\ d.edit = r.edit /\ d.gesture = r.gesture /\ d.objects = r.objects
    BY DEF IsRegistry, HasFields, FieldNames
  <2> QED BY <2>1, KeptElsewhere
<1>4. Tuned(r, ApplyParameter(r, target, look)) BY ApplyParameterTunes
<1> QED BY <1>1, <1>2, <1>3, <1>4 DEF Tuned

----------------------------------------
(* Operators on registries whose slot has its owner.                         *)

LEMMA KeptGood ==
    ASSUME NEW r, NEW t, GoodRegistry(r), Kept(r, t)
    PROVE  GoodRegistry(t) /\ Extends(r, t) /\ t.gesture = r.gesture
BY DEF GoodRegistry, Kept, Carries, Owned

LEMMA SettledGood ==
    ASSUME NEW r, NEW t, GoodRegistry(r), Settled(r, t)
    PROVE  GoodRegistry(t) /\ Extends(r, t) /\ t.gesture = r.gesture /\ t.edit = Unset
BY DEF GoodRegistry, Settled, Carries, Owned

LEMMA TunedGood ==
    ASSUME NEW r, NEW t, GoodRegistry(r), Tuned(r, t),
           OwnsTransaction(r.gesture) => Kept(r, t)
    PROVE  GoodRegistry(t) /\ Extends(r, t) /\ t.gesture = r.gesture
<1>1. CASE Kept(r, t) BY <1>1, KeptGood
<1>2. CASE ~Kept(r, t) BY <1>2 DEF GoodRegistry, Tuned, Carries, Owned
<1> QED BY <1>1, <1>2

LEMMA GoodTwice ==
    ASSUME NEW r, NEW s, NEW t, GoodRegistry(r), GoodRegistry(s), GoodRegistry(t),
           Extends(r, s), Extends(s, t)
    PROVE  Extends(r, t)
BY ExtendsTwice DEF GoodRegistry

\* What waited for a gesture is applied when it is over.
LEMMA ReplayDeferredGood ==
    ASSUME NEW r, NEW cancelled, GoodRegistry(r), ~OwnsTransaction(r.gesture)
    PROVE  LET t == ReplayDeferred(r, cancelled)
           IN  GoodRegistry(t) /\ Extends(r, t) /\ t.gesture = r.gesture
<1> DEFINE s == [r EXCEPT !.deferred = Unset]
           t == ReplayDeferred(r, cancelled)
<1>1. IsRegistry(r) BY DEF GoodRegistry
<1>2. Kept(r, s) /\ IsRegistry(s)
  <2>1. /\ HasFields(s, FieldNames) /\ s.undo = r.undo /\ s.before = r.before
        /\ s.edit = r.edit /\ s.gesture = r.gesture /\ s.objects = r.objects
    BY <1>1 DEF IsRegistry, HasFields, FieldNames
  <2>2. Kept(r, s) BY <1>1, <2>1, KeptElsewhere
  <2> QED BY <2>2 DEF Kept, Carries
<1>3. \/ t = r
      \/ t = s
      \/ \E target, look : t = ApplyGeometryValues(s, target, look)
      \/ \E target, look : t = ApplyParameter(s, target, look)
  BY DEF ReplayDeferred
<1> HIDE DEF s, t
<1>4. t # r => Tuned(s, t)
  BY <1>2, <1>3, KeptItself, ApplyGeometryTunes, ApplyParameterTunes DEF Tuned
<1>5. t # r => Tuned(r, t) BY <1>1, <1>2, <1>4, KeptThenTuned
<1>6. t = r => Tuned(r, t) BY <1>1, KeptItself DEF Tuned
<1> QED BY <1>5, <1>6, TunedGood DEF t

\* A step that leaves the slot with its owner and the history whole.
Passes(r, t) == GoodRegistry(t) /\ Extends(r, t)

LEMMA PassesTwice ==
    ASSUME NEW r, NEW s, NEW t, GoodRegistry(r), Passes(r, s), Passes(s, t)
    PROVE  Passes(r, t)
BY GoodTwice DEF Passes

LEMMA PassesItself ==
    ASSUME NEW r, GoodRegistry(r)
    PROVE  Passes(r, r)
BY ExtendsItself DEF Passes, GoodRegistry

----------------------------------------
(* The text editor, the gestures and the mode.                               *)

LEMMA SelectingKeeps ==
    ASSUME NEW r, NEW i, IsRegistry(r)
    PROVE  Kept(r, [r EXCEPT !.selected = i])
<1> DEFINE t == [r EXCEPT !.selected = i]
<1>1. /\ HasFields(t, FieldNames) /\ t.undo = r.undo /\ t.before = r.before
      /\ t.edit = r.edit /\ t.gesture = r.gesture /\ t.objects = r.objects
  BY DEF IsRegistry, HasFields, FieldNames
<1> QED BY <1>1, KeptElsewhere

LEMMA ChangingEditorKeeps ==
    ASSUME NEW r, NEW editor, IsRegistry(r)
    PROVE  Kept(r, [r EXCEPT !.editor = editor])
<1> DEFINE t == [r EXCEPT !.editor = editor]
<1>1. /\ HasFields(t, FieldNames) /\ t.undo = r.undo /\ t.before = r.before
      /\ t.edit = r.edit /\ t.gesture = r.gesture /\ t.objects = r.objects
  BY DEF IsRegistry, HasFields, FieldNames
<1> QED BY <1>1, KeptElsewhere

LEMMA WriteTextKeeps ==
    ASSUME NEW r, NEW closed, NEW i, IsRegistry(r)
    PROVE  Kept(r, WriteText(r, closed, i))
<1> DEFINE s == [r EXCEPT !.selected = i]
<1>1. Kept(r, s) /\ IsRegistry(s) BY SelectingKeeps DEF Kept, Carries
<1>2. \/ WriteText(r, closed, i) = r
      \/ \E form, look : WriteText(r, closed, i) = UpdateSelected(s, form, look)
      \/ \E object : WriteText(r, closed, i) = Project(Add(r, object))
      \/ \E form, look : WriteText(r, closed, i) = Project(UpdateSelected(s, form, look))
  BY DEF WriteText
<1> HIDE DEF s
<1>3. \A object : Kept(r, Project(Add(r, object)))
  <2> TAKE object
  <2>1. Kept(r, Add(r, object)) /\ IsRegistry(Add(r, object)) BY AddKeeps DEF Kept, Carries
  <2>2. Kept(Add(r, object), Project(Add(r, object))) BY <2>1, ProjectKeeps
  <2> QED BY <2>1, <2>2, KeptTwice
<1>4. \A form, look : /\ Kept(r, UpdateSelected(s, form, look))
                      /\ Kept(r, Project(UpdateSelected(s, form, look)))
  <2> TAKE form, look
  <2> DEFINE u == UpdateSelected(s, form, look)
  <2>1. Kept(s, u) /\ IsRegistry(u) BY <1>1, UpdateSelectedKeeps DEF Kept, Carries
  <2> HIDE DEF u
  <2>2. Kept(r, u) BY <1>1, <2>1, KeptTwice
  <2>3. Kept(u, Project(u)) BY <2>1, ProjectKeeps
  <2>4. Kept(r, Project(u)) BY <2>2, <2>3, KeptTwice
  <2> QED BY <2>2, <2>4 DEF u
<1> QED BY <1>2, <1>3, <1>4, KeptItself

LEMMA FinishTextEditKeeps ==
    ASSUME NEW r, NEW commit, IsRegistry(r)
    PROVE  Kept(r, FinishTextEdit(r, commit))
<1> DEFINE s == Outdate(r, FALSE)
           u == [s EXCEPT !.editor = Unset]
<1>1. Kept(r, s) /\ IsRegistry(s) BY OutdateKeeps DEF Kept, Carries
<1>2. \/ FinishTextEdit(r, commit) = r
      \/ FinishTextEdit(r, commit) = u
      \/ \E closed, i : FinishTextEdit(r, commit) = WriteText(u, closed, i)
  BY DEF FinishTextEdit
<1> HIDE DEF s
<1>3. Kept(s, u) /\ IsRegistry(u) BY <1>1, ChangingEditorKeeps DEF Kept, Carries
<1> HIDE DEF u
<1>4. Kept(r, u) BY <1>1, <1>3, KeptTwice
<1>5. \A closed, i : Kept(r, WriteText(u, closed, i)) BY <1>3, <1>4, WriteTextKeeps, KeptTwice
<1> QED BY <1>2, <1>4, <1>5, KeptItself

LEMMA OpenTextEditorKeeps ==
    ASSUME NEW r, NEW id, IsRegistry(r)
    PROVE  Kept(r, OpenTextEditor(r, id))
<1> DEFINE s == FinishTextEdit(r, TRUE)
<1>1. Kept(r, s) /\ IsRegistry(s) BY FinishTextEditKeeps DEF Kept, Carries
<1>2. \/ OpenTextEditor(r, id) = r
      \/ \E editor : OpenTextEditor(r, id) = [s EXCEPT !.editor = editor]
  BY DEF OpenTextEditor, ShowEditor
<1> HIDE DEF s
<1>3. \A editor : Kept(r, [s EXCEPT !.editor = editor]) BY <1>1, ChangingEditorKeeps, KeptTwice
<1> QED BY <1>2, <1>3, KeptItself

LEMMA BeginDocumentGestureTakes ==
    ASSUME NEW r, IsRegistry(r)
    PROVE  LET t == BeginDocumentGesture(r)
           IN  Carries(r, t) /\ t.before # Unset /\ t.edit = Unset
<1>1. Settled(r, FinishStyleEdit(r)) /\ IsRegistry(FinishStyleEdit(r))
  BY FinishStyleEditSettles DEF Settled, Carries
<1>2. Begun(FinishStyleEdit(r), BeginDrag(FinishStyleEdit(r))) BY <1>1, BeginDragTakes
<1> QED BY <1>1, <1>2, SettledThenBegun DEF BeginDocumentGesture

LEMMA WriteGeometryKeeps ==
    ASSUME NEW r, NEW object, IsRegistry(r)
    PROVE  Kept(r, WriteGeometry(r, object))
<1> DEFINE i == ObjectIndex(r, object.id)
           s == [r EXCEPT !.selected = i]
           u == ReplaceSelected(s, object)
           v == [u EXCEPT !.selected = r.selected]
<1>1. Kept(r, s) /\ IsRegistry(s) BY SelectingKeeps DEF Kept, Carries
<1>2. WriteGeometry(r, object) = r \/ WriteGeometry(r, object) = v BY DEF WriteGeometry
<1> HIDE DEF s
<1>3. Kept(s, u) /\ IsRegistry(u) BY <1>1, ReplaceSelectedKeeps DEF Kept, Carries
<1> HIDE DEF u
<1>4. Kept(u, v) BY <1>3, SelectingKeeps
<1> HIDE DEF v
<1>5. Kept(r, u) BY <1>1, <1>3, KeptTwice
<1>6. Kept(r, v) BY <1>4, <1>5, KeptTwice
<1> QED BY <1>2, <1>6, KeptItself

LEMMA UnsetGesture == IsGesture(Unset) /\ ~OwnsTransaction(Unset)
BY DEF IsGesture, OwnsTransaction, Unset

LEMMA NewGesture ==
    ASSUME NEW kind \in GestureNames, NEW original
    PROVE  LET gesture == Gesture(kind, original)
           IN  /\ IsGesture(gesture) /\ gesture.kind = kind /\ ~gesture.active
               /\ OwnsTransaction(gesture) <=> kind \in {"erase", "place", "move", "resize"}
BY DEF IsGesture, HasFields, Gesture, OwnsTransaction

\* The gesture that ends gives the slot back if it owned it.
LEMMA WithoutGestureGood ==
    ASSUME NEW r, NEW gesture, IsRegistry(r), r.gesture = Unset,
           (r.before # Unset) <=> (r.edit # Unset \/ OwnsTransaction(gesture)),
           ~(r.edit # Unset /\ OwnsTransaction(gesture))
    PROVE  LET t == WithoutGesture(r, gesture)
           IN  Passes(r, t) /\ t.gesture = Unset
<1> DEFINE s == IF OwnsTransaction(gesture) THEN CancelDrag(r) ELSE r
           u == ReplayDeferred(s, gesture.kind = "place")
           t == WithoutGesture(r, gesture)
<1>1. /\ IsRegistry(s) /\ Extends(r, s) /\ s.gesture = Unset
      /\ (s.before # Unset) <=> (s.edit # Unset)
  BY CancelDragGivesBack, ExtendsItself DEF Ended, Carries
<1>2. t = Project(u) BY DEF WithoutGesture
<1> HIDE DEF s, t
<1>3. GoodRegistry(s) BY <1>1, UnsetGesture DEF GoodRegistry, Owned
<1>4. GoodRegistry(u) /\ Extends(s, u) /\ u.gesture = Unset
  BY <1>1, <1>3, UnsetGesture, ReplayDeferredGood
<1> HIDE DEF u
<1>5. Kept(u, t) BY <1>2, <1>4, ProjectKeeps DEF GoodRegistry
<1>6. GoodRegistry(t) /\ Extends(u, t) /\ t.gesture = Unset BY <1>4, <1>5, KeptGood
<1>7. Extends(r, u) BY <1>1, <1>4, ExtendsTwice DEF GoodRegistry
<1>8. Extends(r, t) BY <1>4, <1>6, <1>7, ExtendsTwice DEF GoodRegistry
<1> QED BY <1>6, <1>8 DEF Passes, t

LEMMA CancelActiveGestureGood ==
    ASSUME NEW r, GoodRegistry(r)
    PROVE  LET t == CancelActiveGesture(r)
           IN  Passes(r, t) /\ t.gesture = Unset
<1>1. CASE r.gesture = Unset BY <1>1, PassesItself DEF CancelActiveGesture
<1>2. CASE r.gesture # Unset
  <2> DEFINE s == [r EXCEPT !.gesture = Unset]
             t == CancelActiveGesture(r)
  <2>1. /\ IsRegistry(s) /\ Extends(r, s) /\ s.gesture = Unset
        /\ s.before = r.before /\ s.edit = r.edit
    BY UnsetGesture, GestureChanges DEF GoodRegistry
  <2>2. t = WithoutGesture(s, r.gesture) BY <1>2 DEF CancelActiveGesture
  <2> HIDE DEF s, t
  <2>3. /\ (s.before # Unset) <=> (s.edit # Unset \/ OwnsTransaction(r.gesture))
        /\ ~(s.edit # Unset /\ OwnsTransaction(r.gesture))
    BY <2>1 DEF GoodRegistry, Owned
  <2>4. Passes(s, t) /\ t.gesture = Unset BY <2>1, <2>2, <2>3, WithoutGestureGood
  <2>5. Extends(r, t) BY <2>1, <2>4, ExtendsTwice DEF Passes, GoodRegistry
  <2> QED BY <2>4, <2>5 DEF Passes, t
<1> QED BY <1>1, <1>2

\* It is over for those gestures that write objects.
LEMMA CancelObjectGestureGood ==
    ASSUME NEW r, GoodRegistry(r)
    PROVE  LET t == CancelObjectGesture(r)
           IN  Passes(r, t) /\ ~OwnsTransaction(t.gesture)
<1>1. CASE r.gesture.kind \in {"erase", "place", "move", "resize", "handle"}
  BY <1>1, CancelActiveGestureGood, UnsetGesture DEF CancelObjectGesture
<1>2. CASE r.gesture.kind \notin {"erase", "place", "move", "resize", "handle"}
  BY <1>2, PassesItself DEF CancelObjectGesture, OwnsTransaction
<1> QED BY <1>1, <1>2

LEMMA SyncEditScopeKeeps ==
    ASSUME NEW r, IsRegistry(r)
    PROVE  Kept(r, SyncEditScope(r))
BY KeptItself, DeselectKeeps DEF SyncEditScope

LEMMA SetModeGood ==
    ASSUME NEW r, NEW mode, GoodRegistry(r)
    PROVE  LET t == SetMode(r, mode)
           IN  Passes(r, t) /\ t.gesture \in {Unset, r.gesture}
<1> DEFINE s == CancelActiveGesture(r)
           u == FinishStyleEdit(s)
           v == FinishTextEdit(u, TRUE)
           w == FinishRectangleErase(v)
           x == [w EXCEPT !.mode = mode]
           y == IF r.mode = mode THEN r ELSE x
           t == SetMode(r, mode)
<1>1. Passes(r, s) /\ s.gesture = Unset BY CancelActiveGestureGood
<1>2. t = SyncEditScope(y) BY DEF SetMode
<1> HIDE DEF s, t
<1>3. Passes(s, u) /\ u.gesture = Unset
  BY <1>1, FinishStyleEditSettles, SettledGood DEF Passes, GoodRegistry
<1>4. Passes(r, u) BY <1>1, <1>3, PassesTwice
<1> HIDE DEF u
<1>5. Kept(u, v) /\ IsRegistry(v)
  BY <1>3, FinishTextEditKeeps DEF Passes, GoodRegistry, Kept, Carries
<1> HIDE DEF v
<1>6. Kept(v, w) /\ IsRegistry(w) BY <1>5, FinishRectangleEraseKeeps DEF Kept, Carries
<1> HIDE DEF w
<1>7. Kept(w, x)
  <2>1. /\ HasFields(x, FieldNames) /\ x.undo = w.undo /\ x.before = w.before
        /\ x.edit = w.edit /\ x.gesture = w.gesture /\ x.objects = w.objects
    BY <1>6 DEF IsRegistry, HasFields, FieldNames
  <2> QED BY <1>6, <2>1, KeptElsewhere
<1> HIDE DEF x
<1>8. Kept(u, w) BY <1>3, <1>5, <1>6, KeptTwice DEF Passes, GoodRegistry
<1>9. Kept(u, x) BY <1>3, <1>7, <1>8, KeptTwice DEF Passes, GoodRegistry
<1>10. Passes(u, x) /\ x.gesture = Unset BY <1>3, <1>9, KeptGood DEF Passes
<1>11. Passes(r, y) /\ y.gesture \in {Unset, r.gesture} BY <1>4, <1>10, PassesTwice, PassesItself
<1> HIDE DEF y
<1>12. Kept(y, t) BY <1>2, <1>11, SyncEditScopeKeeps DEF Passes, GoodRegistry
<1>13. Passes(y, t) /\ t.gesture = y.gesture BY <1>11, <1>12, KeptGood DEF Passes
<1> QED BY <1>11, <1>13, PassesTwice DEF t

LEMMA AdoptSelectedGood ==
    ASSUME NEW r, NEW i, GoodRegistry(r)
    PROVE  LET t == AdoptSelected(r, i)
           IN  Passes(r, t) /\ t.gesture \in {Unset, r.gesture}
<1> DEFINE s == AdvanceProjection(r)
           u == [s EXCEPT !.bound = r.objects[i].id]
           t == AdoptSelected(r, i)
<1>1. Kept(r, s) /\ IsRegistry(s) BY AdvanceProjectionKeeps DEF GoodRegistry, Kept, Carries
<1>2. t = r \/ t = SetMode(u, r.objects[i].kind) BY DEF AdoptSelected
<1> HIDE DEF s, t
<1>3. Kept(s, u)
  <2>1. /\ HasFields(u, FieldNames) /\ u.undo = s.undo /\ u.before = s.before
        /\ u.edit = s.edit /\ u.gesture = s.gesture /\ u.objects = s.objects
    BY <1>1 DEF IsRegistry, HasFields, FieldNames
  <2> QED BY <1>1, <2>1, KeptElsewhere
<1> HIDE DEF u
<1>4. Kept(r, u) BY <1>1, <1>3, KeptTwice DEF GoodRegistry
<1>5. Passes(r, u) /\ u.gesture = r.gesture BY <1>4, KeptGood DEF Passes
<1>6. t # r => Passes(u, t) /\ t.gesture \in {Unset, u.gesture}
  BY <1>2, <1>5, SetModeGood DEF Passes
<1> QED BY <1>5, <1>6, PassesTwice, PassesItself DEF t

LEMMA ClosePanelGood ==
    ASSUME NEW r, GoodRegistry(r)
    PROVE  LET t == ClosePanel(r)
           IN  Passes(r, t) /\ t.gesture = r.gesture
<1> DEFINE s == [r EXCEPT !.posted = Unset, !.deferred = Unset]
           u == FinishStyleEdit(s)
           t == ClosePanel(r)
<1>1. Kept(r, s) /\ IsRegistry(s)
  <2>1. /\ HasFields(s, FieldNames) /\ s.undo = r.undo /\ s.before = r.before
        /\ s.edit = r.edit /\ s.gesture = r.gesture /\ s.objects = r.objects
    BY DEF GoodRegistry, IsRegistry, HasFields, FieldNames
  <2>2. Kept(r, s) BY <2>1, KeptElsewhere DEF GoodRegistry
  <2> QED BY <2>2 DEF Kept, Carries
<1>2. \E shown : t = KeepShown(u, shown) BY DEF ClosePanel
<1> HIDE DEF s
<1>3. Settled(s, u) /\ IsRegistry(u) BY <1>1, FinishStyleEditSettles DEF Settled, Carries
<1> HIDE DEF u, t
<1>4. \E panel, editor, defaults :
        t = u \/ t = [u EXCEPT !.panel = panel, !.editor = editor, !.defaults = defaults]
  <2>1. PICK shown : t = KeepShown(u, shown) BY <1>2
  <2>2. CASE u.panel = "none" BY <2>1, <2>2 DEF KeepShown
  <2>3. CASE u.panel # "none" /\ u.bound # ParameterObject(u, u.panel)
    <3>1. t = [u EXCEPT !.panel = "none", !.editor = @, !.defaults = @]
      BY <1>3, <2>1, <2>3 DEF KeepShown, IsRegistry, HasFields, FieldNames
    <3> QED BY <3>1
  <2>4. CASE /\ u.panel # "none" /\ ~(u.bound # ParameterObject(u, u.panel))
             /\ u.panel = "text" /\ u.editor # Unset /\ u.editor.object = 0
    <3>1. t = [u EXCEPT !.panel = "none", !.editor = [@ EXCEPT !.look = shown], !.defaults = @]
      BY <1>3, <2>1, <2>4 DEF KeepShown, IsRegistry, HasFields, FieldNames
    <3> QED BY <3>1
  <2>5. CASE /\ u.panel # "none" /\ ~(u.bound # ParameterObject(u, u.panel))
             /\ ~(u.panel = "text" /\ u.editor # Unset /\ u.editor.object = 0)
    <3>1. t = [u EXCEPT !.panel = "none", !.editor = @,
                        !.defaults = [@ EXCEPT ![u.panel] = shown]]
      BY <1>3, <2>1, <2>5 DEF KeepShown, IsRegistry, HasFields, FieldNames
    <3> QED BY <3>1
  <2> QED BY <2>2, <2>3, <2>4, <2>5
<1>5. Kept(u, t)
  <2>1. t # u => /\ HasFields(t, FieldNames) /\ t.undo = u.undo /\ t.before = u.before
                 /\ t.edit = u.edit /\ t.gesture = u.gesture /\ t.objects = u.objects
    BY ZenonT(60), <1>3, <1>4 DEF IsRegistry, HasFields, FieldNames
  <2> QED BY <1>3, <2>1, KeptElsewhere, KeptItself
<1>6. Settled(r, u) BY <1>1, <1>3, KeptThenSettled DEF GoodRegistry
<1>7. Settled(r, t) BY <1>5, <1>6, SettledThenKept DEF GoodRegistry
<1> QED BY <1>7, SettledGood DEF Passes, t

LEMMA PassesThenKept ==
    ASSUME NEW r, NEW s, NEW t, GoodRegistry(r), Passes(r, s), Kept(s, t)
    PROVE  Passes(r, t) /\ t.gesture = s.gesture /\ IsRegistry(t)
BY KeptGood, GoodTwice DEF Passes, GoodRegistry

\* The eraser cuts inside an operation.
LEMMA ErasedKeeps ==
    ASSUME NEW r, NEW touched, NEW wide, IsRegistry(r), r.before # Unset
    PROVE  /\ Kept(r, EraseWithBrush(r, touched))
           /\ Kept(r, EraseWithRectangle(r, touched, wide))
<1>1. \A t : (\E objects, patch : t = [r EXCEPT !.objects = objects, !.patch = patch]) =>
                Kept(r, t)
  <2> SUFFICES ASSUME NEW t, NEW objects, NEW patch,
                      t = [r EXCEPT !.objects = objects, !.patch = patch]
               PROVE  Kept(r, t)
    OBVIOUS
  <2>1. /\ HasFields(t, FieldNames) /\ t.undo = r.undo /\ t.before = r.before
        /\ t.edit = r.edit /\ t.gesture = r.gesture
    BY DEF IsRegistry, HasFields, FieldNames
  <2> QED BY <2>1, KeptByChange
<1>2. \E objects, patch :
        EraseWithBrush(r, touched) = [r EXCEPT !.objects = objects, !.patch = patch]
  <2>1. \E objects : EraseWithBrush(r, touched) = [r EXCEPT !.objects = objects]
    BY DEF EraseWithBrush
  <2>2. \A objects : [r EXCEPT !.objects = objects] = [r EXCEPT !.objects = objects, !.patch = @]
    BY DEF IsRegistry, HasFields, FieldNames
  <2>3. \A objects : [r EXCEPT !.objects = objects, !.patch = @] =
                     [r EXCEPT !.objects = objects, !.patch = r.patch]
    BY DEF IsRegistry, HasFields, FieldNames
  <2> QED BY <2>1, <2>2, <2>3
<1>3. \E objects, patch :
        EraseWithRectangle(r, touched, wide) = [r EXCEPT !.objects = objects, !.patch = patch]
  BY DEF EraseWithRectangle
<1> QED BY <1>1, <1>2, <1>3

LEMMA BeginEraseTakes ==
    ASSUME NEW r, NEW touched, NEW again, IsRegistry(r)
    PROVE  LET t == BeginErase(r, touched, again)
           IN  Carries(r, t) /\ t.before # Unset /\ (t.edit = Unset <=> r.edit = Unset)
<1> DEFINE t == BeginErase(r, touched, again)
           s == FinishRectangleErase(r)
<1>1. \A q : IsRegistry(q) => Begun(q, BeginDrag(q)) BY BeginDragTakes
<1>2. Kept(r, s) /\ IsRegistry(s) BY FinishRectangleEraseKeeps DEF Kept, Carries
<1>3. \E q, b, c : /\ q \in {r, s} /\ b = BeginDrag(q)
                   /\ c = b \/ c = [b EXCEPT !.patch = NewRectangle(r)]
                   /\ \/ t = EraseWithBrush(c, touched)
                      \/ \E wide : t = EraseWithRectangle(c, touched, wide)
  <2>1. CASE again
    <3>1. t = EraseWithRectangle(BeginDrag(r), touched, TRUE) BY <2>1 DEF BeginErase
    <3> QED BY <3>1
  <2>2. CASE ~again /\ r.defaults["eraser"] = 1
    <3>1. t = EraseWithBrush(BeginDrag(s), touched) BY <2>2 DEF BeginErase
    <3> QED BY <3>1
  <2>3. CASE ~again /\ r.defaults["eraser"] # 1
    <3>1. t = EraseWithRectangle([BeginDrag(s) EXCEPT !.patch = NewRectangle(r)], touched, FALSE)
      BY <2>3 DEF BeginErase
    <3> QED BY <3>1
  <2> QED BY <2>1, <2>2, <2>3
<1> HIDE DEF s, t
<1>4. PICK q, b, c : /\ q \in {r, s} /\ b = BeginDrag(q)
                     /\ c = b \/ c = [b EXCEPT !.patch = NewRectangle(r)]
                     /\ \/ t = EraseWithBrush(c, touched)
                        \/ \E wide : t = EraseWithRectangle(c, touched, wide)
  BY <1>3
<1>5. Kept(r, q) /\ IsRegistry(q) BY <1>2, <1>4, KeptItself
<1>6. Begun(q, b) /\ IsRegistry(b) /\ b.before # Unset BY <1>1, <1>4, <1>5 DEF Begun, Carries
<1>7. Kept(b, c) /\ IsRegistry(c) /\ c.before # Unset
  <2>1. /\ HasFields(c, FieldNames) /\ c.undo = b.undo /\ c.before = b.before
        /\ c.edit = b.edit /\ c.gesture = b.gesture /\ c.objects = b.objects
    BY <1>4, <1>6 DEF IsRegistry, HasFields, FieldNames
  <2>2. Kept(b, c) BY <1>6, <2>1, KeptElsewhere
  <2> QED BY <1>6, <2>2 DEF Kept, Carries
<1>8. Kept(c, t) BY <1>4, <1>7, ErasedKeeps
<1>9. Kept(b, t) BY <1>6, <1>7, <1>8, KeptTwice
<1>10. Extends(r, b) BY <1>5, <1>6, ExtendsTwice DEF Kept, Begun, Carries
<1>11. Extends(r, t) BY <1>6, <1>9, <1>10, ExtendsTwice DEF Kept, Carries
<1> QED BY <1>5, <1>6, <1>9, <1>11 DEF Kept, Begun, Carries, t

LEMMA CaptureCreationKeeps ==
    ASSUME NEW r, NEW tool, IsRegistry(r)
    PROVE  Kept(r, CaptureCreation(r, tool))
<1> DEFINE t == CaptureCreation(r, tool)
<1>1. /\ HasFields(t, FieldNames) /\ t.undo = r.undo /\ t.before = r.before
      /\ t.edit = r.edit /\ t.gesture = r.gesture /\ t.objects = r.objects
  BY DEF CaptureCreation, IsRegistry, HasFields, FieldNames
<1> QED BY <1>1, KeptElsewhere

\* A gesture that writes objects starts with the slot taken for it; any other with the slot
\* left to a change of parameters.
LEMMA GestureStarts ==
    ASSUME NEW r, NEW kind \in {"erase", "place", "move", "resize"}, NEW original,
           IsRegistry(r), r.before # Unset, r.edit = Unset
    PROVE  LET t == [r EXCEPT !.gesture = Gesture(kind, original)]
           IN  Passes(r, t)
<1> DEFINE gesture == Gesture(kind, original)
           t == [r EXCEPT !.gesture = gesture]
<1>1. IsGesture(gesture) /\ OwnsTransaction(gesture) BY NewGesture DEF GestureNames
<1> HIDE DEF gesture
<1>2. /\ IsRegistry(t) /\ Extends(r, t) /\ t.gesture = gesture
      /\ t.before = r.before /\ t.edit = r.edit
  BY <1>1, GestureChanges
<1> HIDE DEF t
<1>3. GoodRegistry(t) BY <1>1, <1>2 DEF GoodRegistry, Owned
<1> QED BY <1>2, <1>3 DEF Passes, t, gesture

LEMMA GestureChangesHands ==
    ASSUME NEW r, NEW gesture, GoodRegistry(r), IsGesture(gesture),
           OwnsTransaction(gesture) <=> OwnsTransaction(r.gesture)
    PROVE  LET t == [r EXCEPT !.gesture = gesture]
           IN  Passes(r, t) /\ t.gesture = gesture
<1> DEFINE t == [r EXCEPT !.gesture = gesture]
<1>1. /\ IsRegistry(t) /\ Extends(r, t) /\ t.gesture = gesture
      /\ t.before = r.before /\ t.edit = r.edit
  BY GestureChanges DEF GoodRegistry
<1> HIDE DEF t
<1>2. GoodRegistry(t) BY <1>1 DEF GoodRegistry, Owned
<1> QED BY <1>1, <1>2 DEF Passes, t

----------------------------------------
(* The pointer on the canvas.                                                *)

LEMMA PressedGood ==
    ASSUME NEW r, GoodRegistry(r)
    PROVE  Passes(r, Pressed(r)) /\ ~OwnsTransaction(Pressed(r).gesture)
<1>1. CASE IsManipulation(r.gesture) BY <1>1, CancelActiveGestureGood, UnsetGesture DEF Pressed
<1>2. CASE ~IsManipulation(r.gesture)
  BY <1>2, PassesItself DEF Pressed, IsManipulation, OwnsTransaction
<1> QED BY <1>1, <1>2

LEMMA PressedCanvasGood ==
    ASSUME NEW r, GoodRegistry(r)
    PROVE  Passes(r, PressedCanvas(r)) /\ ~OwnsTransaction(PressedCanvas(r).gesture)
<1>1. Passes(r, Pressed(r)) /\ ~OwnsTransaction(Pressed(r).gesture) BY PressedGood
<1>2. Kept(Pressed(r), PressedCanvas(r))
  BY <1>1, FinishTextEditKeeps DEF PressedCanvas, Passes, GoodRegistry
<1> QED BY <1>1, <1>2, PassesThenKept

LEMMA PressSettledGood ==
    ASSUME NEW r, GoodRegistry(r)
    PROVE  LET t == PressSettled(r)
           IN  Passes(r, t) /\ ~OwnsTransaction(t.gesture) /\ t.edit = Unset
<1> DEFINE s == PressedCanvas(r)
           t == PressSettled(r)
<1>1. Passes(r, s) /\ ~OwnsTransaction(s.gesture) BY PressedCanvasGood
<1>2. t = FinishStyleEdit(s) BY DEF PressSettled
<1> HIDE DEF s, t
<1>3. Settled(s, t) BY <1>1, <1>2, FinishStyleEditSettles DEF Passes, GoodRegistry
<1>4. Passes(s, t) /\ t.gesture = s.gesture /\ t.edit = Unset BY <1>1, <1>3, SettledGood DEF Passes
<1> QED BY <1>1, <1>4, PassesTwice DEF t

LEMMA PressEditorGood ==
    ASSUME GoodRegistry(registry), NEW kind \in {"handle", "selection"}, PressEditor(kind)
    PROVE  Passes(registry, registry')
<1> DEFINE r == Pressed(registry)
           gesture == [Gesture(kind, Unset) EXCEPT !.editing = TRUE]
<1>1. Passes(registry, r) /\ ~OwnsTransaction(r.gesture) BY PressedGood
<1>2. registry' = [r EXCEPT !.gesture = gesture] BY DEF PressEditor, Becomes
<1>3. IsGesture(gesture) /\ ~OwnsTransaction(gesture)
  BY DEF Gesture, IsGesture, HasFields, GestureNames, OwnsTransaction
<1> HIDE DEF r, gesture
<1>4. Passes(r, registry') BY <1>1, <1>2, <1>3, GestureChangesHands DEF Passes
<1> QED BY <1>1, <1>4, PassesTwice

LEMMA PressBesideDraftGood ==
    ASSUME GoodRegistry(registry), PressBesideDraft
    PROVE  Passes(registry, registry')
<1> DEFINE r == PressedCanvas(registry)
<1>1. Passes(registry, r) /\ ~OwnsTransaction(r.gesture) BY PressedCanvasGood
<1>2. registry' = [r EXCEPT !.gesture = Unset] BY DEF PressBesideDraft, Becomes
<1> HIDE DEF r
<1>3. Passes(r, registry') BY <1>1, <1>2, UnsetGesture, GestureChangesHands DEF Passes
<1> QED BY <1>1, <1>3, PassesTwice

LEMMA PressEraseGood ==
    ASSUME GoodRegistry(registry), NEW touched, NEW again, PressErase(touched, again)
    PROVE  Passes(registry, registry')
<1> DEFINE s == PressSettled(registry)
           r == Deselect(s)
           e == BeginErase(r, touched, again)
<1>1. Passes(registry, s) /\ ~OwnsTransaction(s.gesture) /\ s.edit = Unset /\ IsRegistry(s)
  BY PressSettledGood DEF Passes, GoodRegistry
<1>2. registry' = [e EXCEPT !.gesture = Gesture("erase", Unset)] BY DEF PressErase, Becomes
<1> HIDE DEF s
<1>3. Kept(s, r) /\ r.edit = Unset /\ IsRegistry(r) BY <1>1, DeselectKeeps DEF Kept, Carries
<1>4. Passes(registry, r) BY <1>1, <1>3, PassesThenKept
<1> HIDE DEF r
<1>5. IsRegistry(e) /\ Extends(r, e) /\ e.before # Unset /\ e.edit = Unset
  BY <1>3, BeginEraseTakes DEF Carries
<1> HIDE DEF e
<1>6. Passes(e, registry') BY <1>2, <1>5, GestureStarts
<1>7. Extends(registry, e) BY <1>3, <1>4, <1>5, ExtendsTwice DEF Passes, GoodRegistry
<1>8. Extends(registry, registry') BY <1>5, <1>6, <1>7, ExtendsTwice DEF Passes, GoodRegistry
<1> QED BY <1>6, <1>8 DEF Passes

LEMMA PressHandleGood ==
    ASSUME GoodRegistry(registry), PressHandle
    PROVE  Passes(registry, registry')
<1> DEFINE r == PressSettled(registry)
<1>1. Passes(registry, r) /\ ~OwnsTransaction(r.gesture) /\ r.edit = Unset /\ IsRegistry(r)
  BY PressSettledGood DEF Passes, GoodRegistry
<1>2. PICK i : \E kind \in Controls(r.objects[i]) :
        registry' =
            [(CASE kind = "delete" -> RefreshTarget(DeleteSelected(r))
                [] kind = "resize" -> RefreshTarget(BeginDocumentGesture(r))
                [] OTHER           -> r)
             EXCEPT !.gesture = Gesture(kind, IF kind = "delete" THEN Unset ELSE r.objects[i])]
  BY ZenonT(60) DEF PressHandle, Becomes
<1>3. PICK kind \in Controls(r.objects[i]) :
        registry' =
            [(CASE kind = "delete" -> RefreshTarget(DeleteSelected(r))
                [] kind = "resize" -> RefreshTarget(BeginDocumentGesture(r))
                [] OTHER           -> r)
             EXCEPT !.gesture = Gesture(kind, IF kind = "delete" THEN Unset ELSE r.objects[i])]
  BY <1>2
<1>4. kind \in {"control", "resize", "handle", "toggle", "delete"} BY <1>3 DEF Controls
<1> HIDE DEF r
<1>5. CASE kind = "delete"
  <2> DEFINE d == DeleteSelected(r)
             f == RefreshTarget(d)
  <2>1. registry' = [f EXCEPT !.gesture = Gesture("delete", Unset)] BY <1>3, <1>5
  <2>2. Kept(r, d) /\ IsRegistry(d) BY <1>1, DeleteSelectedKeeps DEF Kept, Carries
  <2> HIDE DEF d
  <2>3. Kept(d, f) BY <2>2, RefreshTargetKeeps
  <2> HIDE DEF f
  <2>4. Kept(r, f) BY <1>1, <2>2, <2>3, KeptTwice
  <2>5. Passes(registry, f) /\ f.gesture = r.gesture BY <1>1, <2>4, PassesThenKept
  <2>6. IsGesture(Gesture("delete", Unset)) /\ ~OwnsTransaction(Gesture("delete", Unset))
    BY DEF Gesture, IsGesture, HasFields, GestureNames, OwnsTransaction
  <2>7. Passes(f, registry') BY <1>1, <2>1, <2>5, <2>6, GestureChangesHands DEF Passes
  <2> QED BY <2>5, <2>7, PassesTwice
<1>6. CASE kind = "resize"
  <2> DEFINE b == BeginDocumentGesture(r)
             f == RefreshTarget(b)
  <2>1. registry' = [f EXCEPT !.gesture = Gesture("resize", r.objects[i])] BY <1>3, <1>6
  <2>2. IsRegistry(b) /\ Extends(r, b) /\ b.before # Unset /\ b.edit = Unset
    BY <1>1, BeginDocumentGestureTakes DEF Carries
  <2> HIDE DEF b
  <2>3. Kept(b, f) BY <2>2, RefreshTargetKeeps
  <2> HIDE DEF f
  <2>4. IsRegistry(f) /\ Extends(b, f) /\ f.before # Unset /\ f.edit = Unset
    BY <2>2, <2>3 DEF Kept, Carries
  <2>5. Passes(f, registry') BY <2>1, <2>4, GestureStarts
  <2>6. Extends(registry, b) BY <1>1, <2>2, ExtendsTwice DEF Passes, GoodRegistry
  <2>7. Extends(registry, f) BY <2>2, <2>4, <2>6, ExtendsTwice DEF GoodRegistry
  <2>8. Extends(registry, registry') BY <2>4, <2>5, <2>7, ExtendsTwice DEF Passes, GoodRegistry
  <2> QED BY <2>5, <2>8 DEF Passes
<1>7. CASE kind \in {"control", "handle", "toggle"}
  <2> DEFINE gesture == Gesture(kind, r.objects[i])
  <2>1. registry' = [r EXCEPT !.gesture = gesture] BY <1>3, <1>7
  <2>2. IsGesture(gesture) /\ ~OwnsTransaction(gesture)
    BY <1>7 DEF Gesture, IsGesture, HasFields, GestureNames, OwnsTransaction
  <2> HIDE DEF gesture
  <2>3. Passes(r, registry') BY <1>1, <2>1, <2>2, GestureChangesHands DEF Passes
  <2> QED BY <1>1, <2>3, PassesTwice
<1> QED BY <1>5, <1>6, <1>7, <1>4

LEMMA PressObjectGood ==
    ASSUME GoodRegistry(registry), NEW i, PressObject(i)
    PROVE  Passes(registry, registry')
<1> DEFINE r == PressSettled(registry)
           s == [r EXCEPT !.selected = i]
           a == AdoptSelected(s, i)
           b == BeginDocumentGesture(a)
           g == [b EXCEPT !.gesture = Gesture("move", b.objects[i])]
<1>1. Passes(registry, r) /\ IsRegistry(r) BY PressSettledGood DEF Passes, GoodRegistry
<1>2. registry' = RefreshTarget(g) BY DEF PressObject, Becomes, Grab
<1> HIDE DEF r
<1>3. Passes(registry, s) BY <1>1, SelectingKeeps, PassesThenKept
<1> HIDE DEF s
<1>4. Passes(s, a) BY <1>3, AdoptSelectedGood DEF Passes
<1>5. Passes(registry, a) /\ IsRegistry(a) BY <1>3, <1>4, PassesTwice DEF Passes, GoodRegistry
<1> HIDE DEF a
<1>6. IsRegistry(b) /\ Extends(a, b) /\ b.before # Unset /\ b.edit = Unset
  BY <1>5, BeginDocumentGestureTakes DEF Carries
<1> HIDE DEF b
<1>7. Passes(b, g) BY <1>6, GestureStarts
<1> HIDE DEF g
<1>8. Extends(registry, b) BY <1>5, <1>6, ExtendsTwice DEF Passes, GoodRegistry
<1>9. Passes(registry, g) BY <1>6, <1>7, <1>8, ExtendsTwice DEF Passes, GoodRegistry
<1> QED BY <1>2, <1>9, RefreshTargetKeeps, PassesThenKept DEF Passes, GoodRegistry

LEMMA PlaceSequenceGood ==
    ASSUME GoodRegistry(registry), PlaceSequence
    PROVE  Passes(registry, registry')
<1> DEFINE s == PressSettled(registry)
           r == CaptureCreation(s, "sequence")
           b == BeginDocumentGesture(r)
           a == Add(b, NewBadge(r))
           d == Deselect(a)
<1>1. Passes(registry, s) /\ IsRegistry(s) BY PressSettledGood DEF Passes, GoodRegistry
<1>2. registry' = [d EXCEPT !.gesture = Gesture("place", NewBadge(r))] BY DEF PlaceSequence, Becomes
<1> HIDE DEF s
<1>3. Passes(registry, r) /\ IsRegistry(r) BY <1>1, CaptureCreationKeeps, PassesThenKept
<1> HIDE DEF r
<1>4. IsRegistry(b) /\ Extends(r, b) /\ b.before # Unset /\ b.edit = Unset
  BY <1>3, BeginDocumentGestureTakes DEF Carries
<1> HIDE DEF b
<1>5. Kept(b, a) /\ IsRegistry(a) BY <1>4, AddKeeps DEF Kept, Carries
<1> HIDE DEF a
<1>6. Kept(a, d) BY <1>5, DeselectKeeps
<1> HIDE DEF d
<1>7. Kept(b, d) BY <1>4, <1>5, <1>6, KeptTwice
<1>8. IsRegistry(d) /\ Extends(b, d) /\ d.before # Unset /\ d.edit = Unset
  BY <1>4, <1>7 DEF Kept, Carries
<1>9. Passes(d, registry') BY <1>2, <1>8, GestureStarts
<1>10. Extends(registry, b) BY <1>3, <1>4, ExtendsTwice DEF Passes, GoodRegistry
<1>11. Extends(registry, d) BY <1>4, <1>8, <1>10, ExtendsTwice DEF GoodRegistry
<1>12. Extends(registry, registry') BY <1>8, <1>9, <1>11, ExtendsTwice DEF Passes, GoodRegistry
<1> QED BY <1>9, <1>12 DEF Passes

LEMMA PressEmptyGood ==
    ASSUME GoodRegistry(registry), PressEmpty
    PROVE  Passes(registry, registry')
<1> DEFINE s == PressSettled(registry)
           c == CaptureCreation(s, registry.mode)
           r == Deselect(c)
<1>1. Passes(registry, s) /\ IsRegistry(s) /\ ~OwnsTransaction(s.gesture)
  BY PressSettledGood DEF Passes, GoodRegistry
<1>2. \E kind \in {"create", "draw"} : \E original :
        registry' = RefreshTarget([r EXCEPT !.gesture = Gesture(kind, original)])
  BY DEF PressEmpty, Becomes
<1> HIDE DEF s
<1>3. Passes(registry, c) /\ IsRegistry(c) /\ c.gesture = s.gesture
  BY <1>1, CaptureCreationKeeps, PassesThenKept
<1> HIDE DEF c
<1>4. Passes(registry, r) /\ IsRegistry(r) /\ r.gesture = s.gesture
  BY <1>3, DeselectKeeps, PassesThenKept
<1> HIDE DEF r
<1>5. PICK kind \in {"create", "draw"} : \E original :
        registry' = RefreshTarget([r EXCEPT !.gesture = Gesture(kind, original)])
  BY <1>2
<1>6. PICK original : registry' = RefreshTarget([r EXCEPT !.gesture = Gesture(kind, original)])
  BY <1>5
<1> DEFINE gesture == Gesture(kind, original)
           g == [r EXCEPT !.gesture = gesture]
<1>7. IsGesture(gesture) /\ ~OwnsTransaction(gesture)
  BY DEF Gesture, IsGesture, HasFields, GestureNames, OwnsTransaction
<1> HIDE DEF gesture
<1>8. Passes(r, g) BY <1>1, <1>4, <1>7, GestureChangesHands DEF Passes
<1>9. Passes(registry, g) /\ IsRegistry(g) BY <1>4, <1>8, PassesTwice DEF Passes, GoodRegistry
<1>10. registry' = RefreshTarget(g) BY <1>6 DEF gesture
<1> HIDE DEF g
<1> QED BY <1>9, <1>10, RefreshTargetKeeps, PassesThenKept

\* What the eraser touches is cut while its gesture lasts.
LEMMA EraserMoves ==
    ASSUME NEW r, NEW touched, NEW wide, GoodRegistry(r), r.gesture.kind = "erase"
    PROVE  LET t == Erased(r, touched, wide)
           IN  Passes(r, t) /\ t.gesture = r.gesture
<1>1. OwnsTransaction(r.gesture) /\ r.before # Unset /\ IsRegistry(r)
  BY DEF GoodRegistry, Owned, OwnsTransaction
<1>2. Kept(r, Erased(r, touched, wide)) BY <1>1, ErasedKeeps DEF Erased
<1> QED BY <1>2, KeptGood DEF Passes

\* A handle settles the parameters when it starts to move, and then takes the slot unless it is
\* one of the edited text.
LEMMA ActivatedGood ==
    ASSUME NEW r, GoodRegistry(r), r.gesture.kind = "handle"
    PROVE  LET t == Activated(r)
           IN  Passes(r, t) /\ t.gesture.kind = "handle"
<1>1. HasFields(r.gesture, {"kind", "original", "editing", "active"}) /\ IsRegistry(r)
  BY DEF GoodRegistry, IsRegistry, IsGesture, Unset
<1>2. CASE r.gesture.active BY <1>2, PassesItself DEF Activated
<1>3. CASE ~r.gesture.active /\ r.gesture.editing
  <2> DEFINE s == FinishStyleEdit(r)
             gesture == [s.gesture EXCEPT !.active = TRUE]
             t == Activated(r)
  <2>1. Settled(r, s) BY <1>1, FinishStyleEditSettles
  <2>2. Passes(r, s) /\ s.gesture = r.gesture BY <2>1, SettledGood DEF Passes
  <2>3. t = [s EXCEPT !.gesture.active = TRUE] BY <1>3 DEF Activated
  <2> HIDE DEF s, t
  <2>4. t = [s EXCEPT !.gesture = gesture]
    BY <2>2, <2>3 DEF Passes, GoodRegistry, IsRegistry, HasFields, FieldNames
  <2>5. /\ HasFields(gesture, {"kind", "original", "editing", "active"})
        /\ gesture.kind = "handle" /\ gesture.editing = r.gesture.editing
    BY <1>1, <2>2 DEF HasFields
  <2> HIDE DEF gesture
  <2>6. IsGesture(gesture) /\ ~OwnsTransaction(gesture) /\ ~OwnsTransaction(s.gesture)
    BY <1>3, <2>2, <2>5 DEF IsGesture, GestureNames, OwnsTransaction
  <2>7. Passes(s, t) /\ t.gesture = gesture BY <2>2, <2>4, <2>6, GestureChangesHands DEF Passes
  <2> QED BY <2>2, <2>5, <2>7, PassesTwice DEF t
<1>4. CASE ~r.gesture.active /\ ~r.gesture.editing
  <2> DEFINE b == BeginDocumentGesture(r)
             object == r.objects[ObjectIndex(r, b.gesture.original.id)]
             gesture == [b.gesture EXCEPT !.active = TRUE, !.original = object]
             t == Activated(r)
  <2>1. /\ IsRegistry(b) /\ Extends(r, b) /\ b.gesture = r.gesture
        /\ b.before # Unset /\ b.edit = Unset
    BY <1>1, BeginDocumentGestureTakes DEF Carries
  <2>2. t = [b EXCEPT !.gesture.active = TRUE,
                      !.gesture.original = r.objects[ObjectIndex(r, @.id)]]
    BY <1>4 DEF Activated
  <2> HIDE DEF b, t
  <2>3. t = [b EXCEPT !.gesture = gesture] BY <1>1, <2>1, <2>2 DEF IsRegistry, HasFields, FieldNames
  <2>4. /\ HasFields(gesture, {"kind", "original", "editing", "active"})
        /\ gesture.kind = "handle" /\ gesture.active /\ gesture.editing = r.gesture.editing
    BY <1>1, <2>1 DEF HasFields
  <2> HIDE DEF gesture
  <2>5. IsGesture(gesture) /\ OwnsTransaction(gesture)
    BY <1>4, <2>4 DEF IsGesture, GestureNames, OwnsTransaction
  <2>6. /\ IsRegistry(t) /\ Extends(b, t) /\ t.gesture = gesture
        /\ t.before = b.before /\ t.edit = b.edit
    BY <2>1, <2>3, <2>5, GestureChanges
  <2>7. GoodRegistry(t) BY <2>1, <2>5, <2>6 DEF GoodRegistry, Owned
  <2>8. Extends(r, t) BY <1>1, <2>1, <2>6, ExtendsTwice
  <2> QED BY <2>4, <2>6, <2>7, <2>8 DEF Passes, t
<1> QED BY <1>2, <1>3, <1>4

LEMMA ReshapeKeeps ==
    ASSUME NEW r, NEW form, IsRegistry(r)
    PROVE  Kept(r, Reshape(r, form))
BY WriteGeometryKeeps DEF Reshape

LEMMA DraggedGood ==
    ASSUME NEW r, NEW form, GoodRegistry(r)
    PROVE  LET t == Dragged(r, form)
           IN  Passes(r, t) /\ t.gesture.kind = r.gesture.kind
<1> DEFINE a == Activated(r)
           t == Dragged(r, form)
<1>1. \/ t = r
      \/ t = Reshape(r, form)
      \/ r.gesture.kind = "handle" /\ (t = a \/ t = Reshape(a, form))
  BY DEF Dragged
<1>2. Passes(r, Reshape(r, form)) /\ Reshape(r, form).gesture = r.gesture
  BY ReshapeKeeps, KeptGood DEF Passes, GoodRegistry
<1>3. CASE r.gesture.kind = "handle"
  <2>1. Passes(r, a) /\ a.gesture.kind = "handle" BY <1>3, ActivatedGood
  <2> HIDE DEF a
  <2>2. Passes(r, Reshape(a, form)) /\ Reshape(a, form).gesture.kind = "handle"
    BY <2>1, ReshapeKeeps, PassesThenKept DEF Passes, GoodRegistry
  <2> QED BY <1>1, <1>2, <1>3, <2>1, <2>2, PassesItself
<1>4. CASE r.gesture.kind # "handle" BY <1>1, <1>2, <1>4, PassesItself
<1> QED BY <1>3, <1>4

\* The gesture that is released owned the slot.
LEMMA DroppedGood ==
    ASSUME NEW r, GoodRegistry(r), OwnsTransaction(r.gesture)
    PROVE  LET t == Dropped(r)
           IN  Passes(r, t) /\ t.gesture = Unset
<1> DEFINE s == [r EXCEPT !.gesture = Unset]
           f == FinishDrag(s)
           t == Dropped(r)
<1>1. /\ IsRegistry(s) /\ Extends(r, s) /\ s.gesture = Unset
      /\ s.before = r.before /\ s.edit = r.edit
  BY UnsetGesture, GestureChanges DEF GoodRegistry
<1>2. t = ReplayDeferred(f, FALSE) BY DEF Dropped
<1> HIDE DEF s, t
<1>3. s.edit = Unset BY <1>1 DEF GoodRegistry, Owned
<1>4. IsRegistry(f) /\ Extends(s, f) /\ f.gesture = Unset /\ f.before = Unset /\ f.edit = Unset
  BY <1>1, <1>3, FinishDragGivesBack DEF Ended, Carries
<1> HIDE DEF f
<1>5. GoodRegistry(f) BY <1>4, UnsetGesture DEF GoodRegistry, Owned
<1>6. GoodRegistry(t) /\ Extends(f, t) /\ t.gesture = Unset
  BY <1>2, <1>4, <1>5, UnsetGesture, ReplayDeferredGood
<1>7. Extends(r, f) BY <1>1, <1>4, ExtendsTwice DEF GoodRegistry
<1>8. Extends(r, t) BY <1>4, <1>6, <1>7, ExtendsTwice DEF GoodRegistry
<1> QED BY <1>6, <1>8 DEF Passes, t

LEMMA MoveEraserGood ==
    ASSUME GoodRegistry(registry), NEW touched, NEW wide, MoveEraser(touched, wide)
    PROVE  Passes(registry, registry')
BY EraserMoves DEF MoveEraser, Becomes

LEMMA MovePointerGood ==
    ASSUME GoodRegistry(registry), NEW form, MovePointer(form)
    PROVE  Passes(registry, registry')
BY DraggedGood DEF MovePointer, Becomes

LEMMA ReleaseEraseGood ==
    ASSUME GoodRegistry(registry), NEW touched, NEW wide, ReleaseErase(touched, wide)
    PROVE  Passes(registry, registry')
<1> DEFINE e == Erased(registry, touched, wide)
<1>1. registry' = Dropped(e) /\ registry.gesture.kind = "erase" BY DEF ReleaseErase, Becomes
<1>2. Passes(registry, e) /\ e.gesture = registry.gesture BY <1>1, EraserMoves
<1> HIDE DEF e
<1>3. OwnsTransaction(e.gesture) BY <1>1, <1>2 DEF OwnsTransaction
<1>4. Passes(e, registry') BY <1>1, <1>2, <1>3, DroppedGood DEF Passes
<1> QED BY <1>2, <1>4, PassesTwice

LEMMA ReleasePlacementGood ==
    ASSUME GoodRegistry(registry), NEW form, ReleasePlacement(form)
    PROVE  Passes(registry, registry')
<1> DEFINE g == Dragged(registry, form)
           r == Dropped(g)
<1>1. /\ registry.gesture.kind = "place"
      /\ registry' = [r EXCEPT !.selected = ObjectIndex(r, registry.gesture.original.id)]
  BY DEF ReleasePlacement, Becomes
<1>2. Passes(registry, g) /\ g.gesture.kind = "place" BY <1>1, DraggedGood
<1> HIDE DEF g
<1>3. Passes(g, r) BY <1>2, DroppedGood DEF Passes, OwnsTransaction
<1>4. Passes(registry, r) /\ IsRegistry(r) BY <1>2, <1>3, PassesTwice DEF Passes, GoodRegistry
<1> HIDE DEF r
<1> QED BY <1>1, <1>4, SelectingKeeps, PassesThenKept

LEMMA ReleaseGeometryGood ==
    ASSUME GoodRegistry(registry), NEW clicked, ReleaseGeometry(clicked)
    PROVE  Passes(registry, registry')
<1> DEFINE d == Dropped(registry)
           a == IF d.selected = 0 THEN d ELSE AdoptSelected(d, d.selected)
           r == AdoptDropped(d)
<1>1. registry.gesture.kind \in {"move", "resize"} BY DEF ReleaseGeometry
<1>2. registry' = r \/ registry' = OpenTextEditor(r, registry.gesture.original.id)
  BY DEF ReleaseGeometry, Becomes
<1>3. r = RefreshTarget(a) BY DEF AdoptDropped
<1>4. Passes(registry, d) BY <1>1, DroppedGood DEF OwnsTransaction
<1> HIDE DEF d, r
<1>5. Passes(d, a) BY <1>4, AdoptSelectedGood, PassesItself DEF Passes
<1>6. Passes(registry, a) /\ IsRegistry(a) BY <1>4, <1>5, PassesTwice DEF Passes, GoodRegistry
<1> HIDE DEF a
<1>7. Passes(registry, r) /\ IsRegistry(r) BY <1>3, <1>6, RefreshTargetKeeps, PassesThenKept
<1>8. Passes(registry, OpenTextEditor(r, registry.gesture.original.id))
  BY <1>7, OpenTextEditorKeeps, PassesThenKept
<1> QED BY <1>2, <1>7, <1>8

LEMMA HandleClickedKeeps ==
    ASSUME NEW r, NEW choice, IsRegistry(r)
    PROVE  Kept(r, HandleClicked(r, choice))
<1> DEFINE f == FinishTextEdit(r, FALSE)
           i == ObjectIndex(f, r.editor.object)
           s == [f EXCEPT !.selected = i]
<1>1. Kept(r, f) /\ IsRegistry(f) BY FinishTextEditKeeps DEF Kept, Carries
<1>2. CASE choice = "delete"
  <2>1. \/ HandleClicked(r, choice) = f
        \/ HandleClicked(r, choice) = DeleteSelected(s)
    BY <1>2 DEF HandleClicked, DeleteText
  <2> HIDE DEF f, i
  <2>2. Kept(f, s) /\ IsRegistry(s) BY <1>1, SelectingKeeps DEF Kept, Carries
  <2> HIDE DEF s
  <2>3. Kept(s, DeleteSelected(s)) BY <2>2, DeleteSelectedKeeps
  <2>4. Kept(r, s) BY <1>1, <2>2, KeptTwice
  <2>5. Kept(r, DeleteSelected(s)) BY <2>3, <2>4, KeptTwice
  <2> QED BY <1>1, <2>1, <2>5
<1>3. CASE choice # "delete"
  <2>1. \/ HandleClicked(r, choice) = r
        \/ HandleClicked(r, choice) = [r EXCEPT !.editor.form = IF @ = 0 THEN 0 ELSE 3 - @]
    BY <1>3 DEF HandleClicked
  <2>2. \E editor : [r EXCEPT !.editor.form = IF @ = 0 THEN 0 ELSE 3 - @] =
                    [r EXCEPT !.editor = editor]
    OBVIOUS
  <2> QED BY <2>1, <2>2, KeptItself, ChangingEditorKeeps
<1> QED BY <1>2, <1>3

LEMMA EndHandleGood ==
    ASSUME NEW r, NEW choice, GoodRegistry(r), r.gesture.kind = "handle"
    PROVE  Passes(r, EndHandle(r, choice))
<1>1. CASE r.gesture.active /\ ~r.gesture.editing
  BY <1>1, DroppedGood DEF EndHandle, OwnsTransaction
<1>2. CASE ~(r.gesture.active /\ ~r.gesture.editing)
  <2> DEFINE h == HandleClicked(r, choice)
             s == [h EXCEPT !.gesture = Unset]
             t == EndHandle(r, choice)
  <2>1. t = ReplayDeferred(s, FALSE) BY <1>2 DEF EndHandle
  <2>2. Passes(r, h) /\ h.gesture = r.gesture
    BY HandleClickedKeeps, KeptGood DEF Passes, GoodRegistry
  <2> HIDE DEF h, t
  <2>3. ~OwnsTransaction(h.gesture) BY <1>2, <2>2 DEF OwnsTransaction
  <2>4. Passes(h, s) /\ s.gesture = Unset
    BY <2>2, <2>3, UnsetGesture, GestureChangesHands DEF Passes
  <2> HIDE DEF s
  <2>5. Passes(r, s) BY <2>2, <2>4, PassesTwice
  <2>6. Passes(s, t) BY <2>1, <2>4, UnsetGesture, ReplayDeferredGood DEF Passes
  <2> QED BY <2>5, <2>6, PassesTwice DEF t
<1> QED BY <1>1, <1>2

LEMMA ReleaseHandleGood ==
    ASSUME GoodRegistry(registry), NEW choice, NEW form, ReleaseHandle(choice, form)
    PROVE  Passes(registry, registry')
<1> DEFINE moved == IF form = 0 THEN registry ELSE Dragged(registry, form)
           e == EndHandle(moved, choice)
<1>1. /\ registry.gesture.kind = "handle"
      /\ registry' = e \/ \E id : registry' = AdoptText(e, id)
  BY DEF ReleaseHandle, Becomes
<1>2. Passes(registry, moved) /\ moved.gesture.kind = "handle" BY <1>1, DraggedGood, PassesItself
<1> HIDE DEF moved
<1>3. Passes(moved, e) BY <1>2, EndHandleGood DEF Passes
<1>4. Passes(registry, e) BY <1>2, <1>3, PassesTwice
<1> HIDE DEF e
<1>5. \A id : Passes(e, AdoptText(e, id))
  BY <1>4, AdoptSelectedGood, PassesItself DEF AdoptText, Passes
<1>6. \A id : Passes(registry, AdoptText(e, id)) BY <1>4, <1>5, PassesTwice
<1> QED BY <1>1, <1>4, <1>6

LEMMA ReleaseControlGood ==
    ASSUME GoodRegistry(registry), NEW choice, ReleaseControl(choice)
    PROVE  Passes(registry, registry')
<1> DEFINE r == [registry EXCEPT !.gesture = Unset]
<1>1. registry.gesture.kind \in {"control", "toggle"} BY DEF ReleaseControl
<1>2. \/ registry' = r
      \/ registry' = DeleteSelected(r)
      \/ \E id : registry' = OpenTextEditor(r, id)
      \/ \E form, look : registry' = UpdateSelected(r, form, look)
  BY DEF ReleaseControl, Becomes
<1>3. Passes(registry, r) /\ IsRegistry(r)
  BY <1>1, UnsetGesture, GestureChangesHands DEF Passes, GoodRegistry, OwnsTransaction
<1> HIDE DEF r
<1>4. registry' # r => Kept(r, registry')
  BY <1>2, <1>3, DeleteSelectedKeeps, OpenTextEditorKeeps, UpdateSelectedKeeps
<1> QED BY <1>3, <1>4, PassesThenKept

LEMMA ReleaseOtherGood ==
    ASSUME GoodRegistry(registry), NEW drawn, ReleaseOther(drawn)
    PROVE  Passes(registry, registry')
<1> DEFINE r == [registry EXCEPT !.gesture = Unset]
           draft == [r EXCEPT !.defaults["text"] = registry.gesture.original.look]
<1>1. registry.gesture.kind \in {"draw", "create", "delete", "selection"} BY DEF ReleaseOther
<1>2. \/ registry' = r
      \/ registry' = RefreshTarget(r)
      \/ \E object : registry' = RefreshTarget(Add(r, object))
      \/ registry' = OpenTextEditor(draft, 0)
  BY DEF ReleaseOther, Becomes
<1>3. Passes(registry, r) /\ IsRegistry(r)
  BY <1>1, UnsetGesture, GestureChangesHands DEF Passes, GoodRegistry, OwnsTransaction
<1> HIDE DEF r
<1>4. Kept(r, draft) /\ IsRegistry(draft)
  <2>1. /\ HasFields(draft, FieldNames) /\ draft.undo = r.undo /\ draft.before = r.before
        /\ draft.edit = r.edit /\ draft.gesture = r.gesture /\ draft.objects = r.objects
    BY <1>3 DEF IsRegistry, HasFields, FieldNames
  <2>2. Kept(r, draft) BY <1>3, <2>1, KeptElsewhere
  <2> QED BY <2>2 DEF Kept, Carries
<1> HIDE DEF draft
<1>5. Kept(r, OpenTextEditor(draft, 0)) BY <1>3, <1>4, OpenTextEditorKeeps, KeptTwice
<1>6. \A object : Kept(r, RefreshTarget(Add(r, object)))
  <2> TAKE object
  <2>1. Kept(r, Add(r, object)) /\ IsRegistry(Add(r, object)) BY <1>3, AddKeeps DEF Kept, Carries
  <2>2. Kept(Add(r, object), RefreshTarget(Add(r, object))) BY <2>1, RefreshTargetKeeps
  <2> QED BY <1>3, <2>1, <2>2, KeptTwice
<1>7. Kept(r, RefreshTarget(r)) /\ Kept(r, r) BY <1>3, RefreshTargetKeeps, KeptItself
<1>8. Kept(r, registry') BY <1>2, <1>5, <1>6, <1>7
<1> QED BY <1>3, <1>8, PassesThenKept

LEMMA CancelPointerGood ==
    ASSUME GoodRegistry(registry), CancelPointer
    PROVE  Passes(registry, registry')
<1> DEFINE r == CancelActiveGesture(registry)
<1>1. registry' = RefreshTarget(r) BY DEF CancelPointer, Becomes
<1>2. Passes(registry, r) /\ IsRegistry(r) BY CancelActiveGestureGood DEF Passes, GoodRegistry
<1> HIDE DEF r
<1> QED BY <1>1, <1>2, RefreshTargetKeeps, PassesThenKept

----------------------------------------
(* Parameters, the text editor and the commands.                             *)

LEMMA PostParameterGood ==
    ASSUME GoodRegistry(registry), NEW look, PostParameter(look)
    PROVE  Passes(registry, registry')
<1>1. \E posted : registry' = [registry EXCEPT !.posted = posted] BY DEF PostParameter, Becomes
<1>2. PICK posted : registry' = [registry EXCEPT !.posted = posted] BY <1>1
<1> DEFINE t == [registry EXCEPT !.posted = posted]
<1>3. /\ HasFields(t, FieldNames) /\ t.undo = registry.undo /\ t.before = registry.before
      /\ t.edit = registry.edit /\ t.gesture = registry.gesture
      /\ t.objects = registry.objects
  BY DEF GoodRegistry, IsRegistry, HasFields, FieldNames
<1> HIDE DEF t
<1>4. Kept(registry, t) BY <1>3, KeptElsewhere DEF GoodRegistry
<1>5. Passes(registry, t) BY <1>4, KeptGood DEF Passes
<1> QED BY <1>2, <1>5 DEF t

LEMMA ApplyPostedGood ==
    ASSUME GoodRegistry(registry), ApplyPosted
    PROVE  Passes(registry, registry')
<1> DEFINE s == [registry EXCEPT !.posted = Unset]
           target == registry.posted.target
           look == registry.posted.look
<1>1. registry' = ApplyGeometryValues(s, target, look) BY DEF ApplyPosted, Becomes
<1>2. Kept(registry, s)
  <2>1. /\ HasFields(s, FieldNames) /\ s.undo = registry.undo /\ s.before = registry.before
        /\ s.edit = registry.edit /\ s.gesture = registry.gesture
        /\ s.objects = registry.objects
    BY DEF GoodRegistry, IsRegistry, HasFields, FieldNames
  <2> QED BY <2>1, KeptElsewhere DEF GoodRegistry
<1> HIDE DEF s
<1>3. Passes(registry, s) /\ IsRegistry(s) BY <1>2, KeptGood DEF Passes, GoodRegistry
<1>4. Tuned(s, registry') /\ (OwnsTransaction(s.gesture) => Kept(s, registry'))
  BY <1>1, <1>3, ApplyGeometryTunes
<1>5. Passes(s, registry') BY <1>3, <1>4, TunedGood DEF Passes
<1> QED BY <1>3, <1>5, PassesTwice

LEMMA StyleEditEndsGood ==
    ASSUME GoodRegistry(registry), StyleEditEnds
    PROVE  Passes(registry, registry')
BY FinishStyleEditSettles, SettledGood DEF StyleEditEnds, Becomes, Passes, GoodRegistry

LEMMA TypeTextGood ==
    ASSUME GoodRegistry(registry), NEW form, TypeText(form)
    PROVE  Passes(registry, registry')
<1>1. registry' = [registry EXCEPT !.editor.form = form] BY DEF TypeText, Becomes
<1>2. \E editor : registry' = [registry EXCEPT !.editor = editor] BY <1>1
<1>3. Kept(registry, registry') BY <1>2, ChangingEditorKeeps DEF GoodRegistry
<1> QED BY <1>3, KeptGood DEF Passes

LEMMA CloseTextEditorGood ==
    ASSUME GoodRegistry(registry), NEW commit, CloseTextEditor(commit)
    PROVE  Passes(registry, registry')
<1>1. Kept(registry, registry') BY FinishTextEditKeeps DEF CloseTextEditor, Becomes, GoodRegistry
<1> QED BY <1>1, KeptGood DEF Passes

\* What undo settles first may leave steps; it takes back the last one there is.
LEMMA UndoAfterSteps ==
    ASSUME NEW r, NEW s, NEW t, IsRegistry(r), IsRegistry(s), IsRegistry(t),
           Extends(r, s), Undone(s, t)
    PROVE  Extends(r, t) \/ Undone(r, t)
<1>1. Len(r.undo) \in Nat /\ Len(s.undo) \in Nat /\ Len(t.undo) \in Nat
  BY SequenceFacts DEF IsRegistry
<1> DEFINE m == Len(r.undo)
           n == Len(s.undo)
           o == Len(t.undo)
<1>2. /\ m <= n /\ n > 0 /\ o = n - 1
      /\ \A i \in 1 .. m : s.undo[i] = r.undo[i]
      /\ \A i \in 1 .. o : t.undo[i] = s.undo[i]
      /\ Lasting(t) = s.undo[n].objects
      /\ IF m = n THEN Lasting(s) = Lasting(r) ELSE s.undo[m + 1].objects = Lasting(r)
  BY DEF Extends, Undone
<1>3. m \in Nat /\ n \in Nat /\ o \in Nat BY <1>1
<1>4. Extends(r, t) <=>
        /\ m <= o /\ \A i \in 1 .. m : t.undo[i] = r.undo[i]
        /\ IF m = o THEN Lasting(t) = Lasting(r) ELSE t.undo[m + 1].objects = Lasting(r)
  BY DEF Extends
<1>5. Undone(r, t) <=>
        /\ m > 0 /\ o = m - 1 /\ \A i \in 1 .. o : t.undo[i] = r.undo[i]
        /\ Lasting(t) = r.undo[m].objects
  BY DEF Undone
<1> HIDE DEF m, n, o
<1>6. CASE n = m BY <1>2, <1>3, <1>5, <1>6
<1>7. CASE n = m + 1 BY <1>2, <1>3, <1>4, <1>7
<1>8. CASE n > m + 1
  <2>1. m <= o /\ m # o /\ m # n /\ m + 1 \in 1 .. o BY <1>2, <1>3, <1>8
  <2>2. \A i \in 1 .. m : i \in 1 .. o BY <1>3, <2>1
  <2> QED BY <1>2, <1>4, <2>1, <2>2
<1> QED BY <1>2, <1>3, <1>6, <1>7, <1>8

\* A projection of the panel reads the document.
LEMMA ProjectReads ==
    ASSUME NEW r, IsRegistry(r)
    PROVE  LET t == Project(r)
           IN  t.undo = r.undo /\ t.before = r.before /\ t.objects = r.objects
<1> DEFINE s == AdvanceProjection(r)
           t == Project(r)
<1>1. Kept(r, s) /\ IsRegistry(s) BY AdvanceProjectionKeeps DEF Kept, Carries
<1>2. \E posted, deferred, edit :
        s = [r EXCEPT !.posted = posted, !.deferred = deferred, !.edit = edit]
  BY DEF AdvanceProjection, Outdate
<1>3. s.undo = r.undo /\ s.before = r.before /\ s.objects = r.objects
  BY <1>2 DEF IsRegistry, HasFields, FieldNames
<1>4. \E bound : t = [s EXCEPT !.bound = bound] BY DEF Project
<1> HIDE DEF s, t
<1>5. t.undo = s.undo /\ t.before = s.before /\ t.objects = s.objects
  BY <1>1, <1>4 DEF IsRegistry, HasFields, FieldNames
<1> QED BY <1>3, <1>5 DEF t

LEMMA UndoCommandGood ==
    ASSUME GoodRegistry(registry), UndoCommand
    PROVE  GoodRegistry(registry') /\ (Extends(registry, registry') \/ Undone(registry, registry'))
<1> DEFINE c == CancelObjectGesture(registry)
           f == FinishTextEdit(registry, TRUE)
           s == FinishStyleEdit(f)
           u == UndoSession(s)
<1>1. Passes(registry, c) /\ ~OwnsTransaction(c.gesture) BY CancelObjectGestureGood
<1>2. \/ registry' = c
      \/ c = registry /\ registry' = UndoSettled(s)
  BY DEF UndoCommand, Becomes
<1> HIDE DEF c
<1>3. CASE registry' = c BY <1>1, <1>3 DEF Passes
<1>4. CASE c = registry /\ registry' = UndoSettled(s)
  <2>1. registry' = IF s.undo = << >> THEN u ELSE Project(u) BY <1>4 DEF UndoSettled
  <2>2. Kept(registry, f) /\ IsRegistry(f) BY FinishTextEditKeeps DEF GoodRegistry, Kept, Carries
  <2>3. Passes(registry, f) /\ f.gesture = registry.gesture BY <2>2, KeptGood DEF Passes
  <2> HIDE DEF f
  <2>4. Settled(f, s) /\ IsRegistry(s) BY <2>2, FinishStyleEditSettles DEF Settled, Carries
  <2>5. Passes(f, s) /\ s.gesture = registry.gesture /\ s.edit = Unset
    BY <2>3, <2>4, SettledGood DEF Passes
  <2> HIDE DEF s
  <2>6. Passes(registry, s) BY <2>3, <2>5, PassesTwice
  <2>7. ~OwnsTransaction(s.gesture) /\ s.before = Unset
    BY <1>1, <1>4, <2>5 DEF Passes, GoodRegistry, Owned
  <2>8. /\ IsRegistry(u) /\ u.before = Unset /\ u.edit = Unset /\ u.gesture = s.gesture
        /\ IF s.undo = << >> THEN Kept(s, u) ELSE Undone(s, u)
    BY <2>4, <2>5, <2>7, UndoSessionUndoes
  <2>9. GoodRegistry(u) BY <2>7, <2>8 DEF GoodRegistry, Owned
  <2> HIDE DEF u
  <2>10. CASE s.undo = << >> BY <2>1, <2>6, <2>8, <2>10, PassesThenKept DEF Passes
  <2>11. CASE s.undo # << >>
    <3>1. GoodRegistry(Project(u)) BY <2>8, <2>9, ProjectKeeps, KeptGood
    <3>2. /\ Project(u).undo = u.undo /\ Project(u).before = u.before
          /\ Project(u).objects = u.objects
      BY <2>8, ProjectReads
    <3>3. Undone(s, Project(u)) BY <2>8, <2>11, <3>2 DEF Undone, Lasting
    <3>4. Extends(registry, Project(u)) \/ Undone(registry, Project(u))
      BY <2>6, <3>1, <3>3, UndoAfterSteps DEF Passes, GoodRegistry
    <3> QED BY <2>1, <2>11, <3>1, <3>4
  <2> QED BY <2>10, <2>11
<1> QED BY <1>2, <1>3, <1>4

LEMMA DeleteCommandGood ==
    ASSUME GoodRegistry(registry), DeleteCommand
    PROVE  Passes(registry, registry')
<1> DEFINE c == CancelObjectGesture(registry)
           f == FinishTextEdit(c, FALSE)
           d == DeleteSelected(f)
<1>1. registry' = CancelActiveGesture(registry) \/ registry' = RefreshTarget(d)
  BY DEF DeleteCommand, Becomes
<1>2. Passes(registry, CancelActiveGesture(registry)) BY CancelActiveGestureGood
<1>3. Passes(registry, c) /\ IsRegistry(c) BY CancelObjectGestureGood DEF Passes, GoodRegistry
<1> HIDE DEF c
<1>4. Passes(registry, f) /\ IsRegistry(f) BY <1>3, FinishTextEditKeeps, PassesThenKept
<1> HIDE DEF f
<1>5. Passes(registry, d) /\ IsRegistry(d) BY <1>4, DeleteSelectedKeeps, PassesThenKept
<1> HIDE DEF d
<1>6. Passes(registry, RefreshTarget(d)) BY <1>5, RefreshTargetKeeps, PassesThenKept
<1> QED BY <1>1, <1>2, <1>6

LEMMA FinishStyleEditGood ==
    ASSUME NEW r, GoodRegistry(r)
    PROVE  Passes(r, FinishStyleEdit(r))
BY FinishStyleEditSettles, SettledGood DEF Passes, GoodRegistry

LEMMA ClearAllCommandGood ==
    ASSUME GoodRegistry(registry), ClearAllCommand
    PROVE  Passes(registry, registry')
<1> DEFINE c == CancelActiveGesture(registry)
           r == FinishStyleEdit(c)
           a == ClearAll(r)
<1>1. registry' = a \/ registry' = Deselect(a) BY DEF ClearAllCommand, Becomes
<1>2. Passes(registry, c) BY CancelActiveGestureGood
<1> HIDE DEF c
<1>3. Passes(registry, r) /\ IsRegistry(r)
  BY <1>2, FinishStyleEditGood, PassesTwice DEF Passes, GoodRegistry
<1> HIDE DEF r
<1>4. Passes(registry, a) /\ IsRegistry(a) BY <1>3, ClearAllKeeps, PassesThenKept
<1> HIDE DEF a
<1>5. Passes(registry, Deselect(a)) BY <1>4, DeselectKeeps, PassesThenKept
<1> QED BY <1>1, <1>4, <1>5

LEMMA EscapeGood ==
    ASSUME GoodRegistry(registry), Escape
    PROVE  Passes(registry, registry')
<1>1. \/ registry' = FinishTextEdit(registry, FALSE)
      \/ registry' = CancelActiveGesture(registry)
      \/ registry' = Deselect(registry)
      \/ registry' = ClosePanel(registry)
  BY DEF Escape, Becomes
<1>2. Kept(registry, FinishTextEdit(registry, FALSE)) /\ Kept(registry, Deselect(registry))
  BY FinishTextEditKeeps, DeselectKeeps DEF GoodRegistry
<1>3. /\ Passes(registry, CancelActiveGesture(registry))
      /\ Passes(registry, ClosePanel(registry))
  BY CancelActiveGestureGood, ClosePanelGood
<1> QED BY <1>1, <1>2, <1>3, KeptGood DEF Passes

LEMMA OpenPanelGood ==
    ASSUME GoodRegistry(registry), NEW tool, OpenPanel(tool)
    PROVE  Passes(registry, registry')
<1> DEFINE r == SetMode(registry, tool)
           p == ClosePanel(r)
           t == ShowPanel(p, tool)
<1>1. registry' = p \/ registry' = t BY DEF OpenPanel, Becomes
<1>2. Passes(registry, r) BY SetModeGood
<1> HIDE DEF r
<1>3. Passes(registry, p) /\ IsRegistry(p)
  BY <1>2, ClosePanelGood, PassesTwice DEF Passes, GoodRegistry
<1> HIDE DEF p
<1>4. Kept(p, t)
  <2>1. /\ HasFields(t, FieldNames) /\ t.undo = p.undo /\ t.before = p.before
        /\ t.edit = p.edit /\ t.gesture = p.gesture /\ t.objects = p.objects
    BY <1>3 DEF ShowPanel, IsRegistry, HasFields, FieldNames
  <2> QED BY <1>3, <2>1, KeptElsewhere
<1> QED BY <1>1, <1>3, <1>4, PassesThenKept

LEMMA MouseModeGood ==
    ASSUME GoodRegistry(registry), MouseMode
    PROVE  Passes(registry, registry')
<1> DEFINE m == SetMode(registry, "mouse")
           s == FinishStyleEdit(m)
           p == ClosePanel(s)
<1>1. registry' = ClosePanel(registry) \/ registry' = Deselect(p) BY DEF MouseMode, Becomes
<1>2. Passes(registry, ClosePanel(registry)) BY ClosePanelGood
<1>3. Passes(registry, m) BY SetModeGood
<1> HIDE DEF m
<1>4. Passes(registry, s) BY <1>3, FinishStyleEditGood, PassesTwice DEF Passes
<1> HIDE DEF s
<1>5. Passes(registry, p) /\ IsRegistry(p)
  BY <1>4, ClosePanelGood, PassesTwice DEF Passes, GoodRegistry
<1> HIDE DEF p
<1>6. Passes(registry, Deselect(p)) BY <1>5, DeselectKeeps, PassesThenKept
<1> QED BY <1>1, <1>2, <1>6

----------------------------------------
(* Every step, and the theorems.                                             *)

LEMMA EveryStepGood ==
    ASSUME GoodRegistry(registry), DocumentNext
    PROVE  GoodRegistry(registry') /\ (Extends(registry, registry') \/ Undone(registry, registry'))
<1>1. CASE Pointer
  <2>1. Passes(registry, registry')
    BY <1>1, PressEditorGood, PressBesideDraftGood, PressHandleGood, PlaceSequenceGood,
       PressEmptyGood, CancelPointerGood, PressObjectGood, PressEraseGood, MoveEraserGood,
       ReleaseEraseGood, MovePointerGood, ReleasePlacementGood, ReleaseGeometryGood,
       ReleaseOtherGood, ReleaseHandleGood, ReleaseControlGood DEF Pointer
  <2> QED BY <2>1 DEF Passes
<1>2. CASE Command
  <2>1. UndoCommand \/ Passes(registry, registry')
    BY <1>2, PostParameterGood, ApplyPostedGood, StyleEditEndsGood, TypeTextGood,
       CloseTextEditorGood, DeleteCommandGood, ClearAllCommandGood, EscapeGood, OpenPanelGood,
       MouseModeGood DEF Command
  <2> QED BY <2>1, UndoCommandGood DEF Passes
<1> QED BY <1>1, <1>2 DEF DocumentNext

LEMMA StartsGood ==
    ASSUME DocumentInit
    PROVE  GoodRegistry(registry) /\ registry.undo = << >>
<1>1. PICK crop \in Crops, tool \in Tools : registry = FreshEditor(crop, tool) BY DEF DocumentInit
<1>2. /\ HasFields(registry, FieldNames) /\ registry.undo = << >> /\ registry.before = Unset
      /\ registry.edit = Unset /\ registry.gesture = Unset
  BY <1>1 DEF FreshEditor, HasFields, FieldNames
<1>3. IsSequence(<< >>) BY DEF IsSequence
<1> QED BY <1>2, <1>3, UnsetGesture DEF GoodRegistry, IsRegistry, IsEdit, Owned

\* No operation completes or takes back the work of another: a gesture of the pointer, the
\* delayed completion of a parameter and the commands that interrupt them pass the one slot of
\* begin_drag and finish_drag from owner to owner.
THEOREM SlotIsOwned == DocumentSpec => []SnapshotOwned
<1>1. DocumentInit => GoodRegistry(registry) BY StartsGood
<1>2. GoodRegistry(registry) /\ [DocumentNext]_registry => GoodRegistry(registry)'
  <2>1. CASE DocumentNext BY <2>1, EveryStepGood
  <2>2. CASE UNCHANGED registry BY <2>2
  <2> QED BY <2>1, <2>2
<1>3. GoodRegistry(registry) => SnapshotOwned BY DEF GoodRegistry, Owned, SnapshotOwned
<1> QED BY <1>1, <1>2, <1>3, PTL DEF DocumentSpec

\* The documents left behind, as a sequence.
PastOf(r) == [i \in DOMAIN r.undo |-> r.undo[i].objects]

LEMMA PastIsSequence ==
    ASSUME NEW r, IsRegistry(r)
    PROVE  /\ IsSequence(PastOf(r)) /\ Len(PastOf(r)) = Len(r.undo)
           /\ \A i \in 1 .. Len(r.undo) : PastOf(r)[i] = r.undo[i].objects
<1> DEFINE n == Len(r.undo)
           S == {r.undo[i].objects : i \in 1 .. n}
<1>1. n \in Nat /\ DOMAIN r.undo = 1 .. n BY SequenceFacts DEF IsRegistry
<1>2. PastOf(r) = [i \in 1 .. n |-> r.undo[i].objects] BY <1>1 DEF PastOf
<1>3. PastOf(r) \in Seq(S) /\ Len(PastOf(r)) = n BY <1>1, <1>2
<1>4. IsSequence(PastOf(r)) BY ONLY <1>3, SomeSequence
<1> QED BY <1>2, <1>3, <1>4

LEMMA SameSequence ==
    ASSUME NEW p, NEW q, IsSequence(p), IsSequence(q), Len(p) = Len(q),
           \A i \in 1 .. Len(p) : p[i] = q[i]
    PROVE  p = q
<1> DEFINE S == {p[i] : i \in DOMAIN p} \cup {q[i] : i \in DOMAIN q}
<1>1. p \in Seq(S) /\ q \in Seq(S) BY DEF IsSequence
<1> HIDE DEF S
<1> QED BY <1>1

LEMMA FirstPart ==
    ASSUME NEW q, NEW n, IsSequence(q), n \in 0 .. Len(q)
    PROVE  /\ IsSequence(SubSeq(q, 1, n)) /\ Len(SubSeq(q, 1, n)) = n
           /\ \A i \in 1 .. n : SubSeq(q, 1, n)[i] = q[i]
<1> DEFINE S == {q[i] : i \in DOMAIN q}
<1>1. q \in Seq(S) /\ Len(q) \in Nat BY SequenceFacts DEF IsSequence
<1>2. n \in Int /\ \A i \in 1 .. n : q[i] \in S BY <1>1
<1>3. /\ SubSeq(q, 1, n) \in Seq(S)
      /\ Len(SubSeq(q, 1, n)) = IF 1 <= n THEN n - 1 + 1 ELSE 0
      /\ \A i \in 1 .. n - 1 + 1 : SubSeq(q, 1, n)[i] = q[1 + i - 1]
  BY <1>2, SubSeqProperties
<1>4. IsSequence(SubSeq(q, 1, n)) BY ONLY <1>3, SomeSequence
<1>5. \A i \in 1 .. n : i \in 1 .. n - 1 + 1 /\ 1 + i - 1 = i BY <1>2
<1>6. \A i \in 1 .. n : SubSeq(q, 1, n)[i] = q[i] BY <1>3, <1>5
<1>7. Len(SubSeq(q, 1, n)) = n BY <1>1, <1>3
<1> QED BY <1>4, <1>6, <1>7

\* A history that is longer holds what the user had when the first operation ended.
LEMMA LongerHistoryIsEdit ==
    ASSUME NEW r, NEW t, IsRegistry(r), IsRegistry(t), Extends(r, t),
           Len(r.undo) # Len(t.undo)
    PROVE  /\ Len(PastOf(t)) > Len(PastOf(r))
           /\ SubSeq(PastOf(t), 1, Len(PastOf(r)) + 1) = Append(PastOf(r), Lasting(r))
<1> DEFINE p == PastOf(r)
           q == PastOf(t)
           m == Len(p)
           a == Append(p, Lasting(r))
           b == SubSeq(q, 1, m + 1)
<1>1. /\ IsSequence(p) /\ m = Len(r.undo)
      /\ \A i \in 1 .. Len(r.undo) : p[i] = r.undo[i].objects
  BY PastIsSequence
<1>2. /\ IsSequence(q) /\ Len(q) = Len(t.undo)
      /\ \A i \in 1 .. Len(t.undo) : q[i] = t.undo[i].objects
  BY PastIsSequence
<1>3. m \in Nat /\ Len(q) \in Nat BY <1>1, <1>2, SequenceFacts
<1>4. IsSequence(a) /\ Len(a) = m + 1 /\ a[m + 1] = Lasting(r) /\ \A i \in 1 .. m : a[i] = p[i]
  BY <1>1, LongerSequence
<1>5. Len(q) > m BY <1>1, <1>2, <1>3 DEF Extends
<1>6. m + 1 \in 0 .. Len(q) BY <1>3, <1>5
<1>7. IsSequence(b) /\ Len(b) = m + 1 /\ \A i \in 1 .. m + 1 : b[i] = q[i] BY <1>2, <1>6, FirstPart
<1>8. \A i \in 1 .. m : q[i] = p[i] BY <1>1, <1>2, <1>3, <1>5 DEF Extends
<1>9. q[m + 1] = Lasting(r)
  <2>1. t.undo[Len(r.undo) + 1].objects = Lasting(r) BY DEF Extends
  <2>2. m + 1 \in 1 .. Len(t.undo) BY <1>2, <1>3, <1>5
  <2> QED BY <1>1, <1>2, <2>1, <2>2
<1> HIDE DEF p, q, m, a, b
<1>10. \A i \in 1 .. m + 1 : b[i] = a[i]
  <2> SUFFICES ASSUME NEW i \in 1 .. m + 1
               PROVE  b[i] = a[i]
    OBVIOUS
  <2>1. i = m + 1 \/ i \in 1 .. m BY <1>3
  <2> QED BY <1>4, <1>7, <1>8, <1>9, <2>1
<1>11. b = a BY <1>4, <1>7, <1>10, SameSequence
<1> QED BY <1>5, <1>11 DEF p, q, m, a, b

LEMMA SameHistoryStays ==
    ASSUME NEW r, NEW t, IsRegistry(r), IsRegistry(t), Extends(r, t),
           Len(r.undo) = Len(t.undo)
    PROVE  PastOf(t) = PastOf(r) /\ Lasting(t) = Lasting(r)
<1>1. /\ IsSequence(PastOf(r)) /\ Len(PastOf(r)) = Len(r.undo)
      /\ \A i \in 1 .. Len(r.undo) : PastOf(r)[i] = r.undo[i].objects
  BY PastIsSequence
<1>2. /\ IsSequence(PastOf(t)) /\ Len(PastOf(t)) = Len(t.undo)
      /\ \A i \in 1 .. Len(t.undo) : PastOf(t)[i] = t.undo[i].objects
  BY PastIsSequence
<1>3. \A i \in 1 .. Len(PastOf(t)) : PastOf(t)[i] = PastOf(r)[i] BY <1>1, <1>2 DEF Extends
<1>4. PastOf(t) = PastOf(r) BY <1>1, <1>2, <1>3, SameSequence
<1> QED BY <1>4 DEF Extends

LEMMA ShorterHistoryIsUndo ==
    ASSUME NEW r, NEW t, IsRegistry(r), IsRegistry(t), Undone(r, t)
    PROVE  /\ Len(PastOf(t)) < Len(PastOf(r))
           /\ PastOf(t) = SubSeq(PastOf(r), 1, Len(PastOf(t)))
           /\ Lasting(t) = PastOf(r)[Len(PastOf(t)) + 1]
<1> DEFINE p == PastOf(r)
           q == PastOf(t)
           n == Len(q)
           b == SubSeq(p, 1, n)
<1>1. /\ IsSequence(p) /\ Len(p) = Len(r.undo)
      /\ \A i \in 1 .. Len(r.undo) : p[i] = r.undo[i].objects
  BY PastIsSequence
<1>2. /\ IsSequence(q) /\ n = Len(t.undo)
      /\ \A i \in 1 .. Len(t.undo) : q[i] = t.undo[i].objects
  BY PastIsSequence
<1>3. n \in Nat /\ Len(p) \in Nat BY <1>1, <1>2, SequenceFacts
<1>4. Len(p) = n + 1 /\ n \in 0 .. Len(p) BY <1>1, <1>2, <1>3 DEF Undone
<1>5. IsSequence(b) /\ Len(b) = n /\ \A i \in 1 .. n : b[i] = p[i] BY <1>1, <1>4, FirstPart
<1>6. \A i \in 1 .. n : q[i] = p[i] BY <1>1, <1>2, <1>3, <1>4 DEF Undone
<1>7. Lasting(t) = p[n + 1]
  <2>1. n + 1 \in 1 .. Len(r.undo) /\ Len(r.undo) = n + 1 BY <1>1, <1>3, <1>4
  <2> QED BY <1>1, <2>1 DEF Undone
<1> HIDE DEF p, q, n, b
<1>8. q = b
  <2>1. Len(q) = Len(b) BY <1>5 DEF n
  <2>2. \A i \in 1 .. Len(q) : q[i] = b[i] BY <1>5, <1>6, <2>1
  <2> QED BY <1>2, <1>5, <2>1, <2>2, SameSequence
<1> QED BY <1>3, <1>4, <1>7, <1>8 DEF p, q, n, b

\* Undo goes back over the documents the user left: a handler that ends operations leaves the
\* document the first of them began with, one that undoes takes the last back, and any other
\* leaves both the history and the lasting document alone.  The steps are those of remember,
\* finish_drag and undo, however the handlers compose them.
THEOREM HistoryImplemented == DocumentSpec => UndoRetraces
<1> DEFINE current == WithoutOperation
           past == [i \in DOMAIN registry.undo |-> registry.undo[i].objects]
<1>1. current = Lasting(registry) /\ past = PastOf(registry)
  BY DEF WithoutOperation, Lasting, PastOf
<1>2. current' = Lasting(registry') /\ past' = PastOf(registry')
  BY DEF WithoutOperation, Lasting, PastOf
<1>3. DocumentInit => GoodRegistry(registry) /\ History!Init
  <2> SUFFICES ASSUME DocumentInit
               PROVE  GoodRegistry(registry) /\ History!Init
    OBVIOUS
  <2>1. GoodRegistry(registry) /\ registry.undo = << >> BY StartsGood
  <2>2. past = << >> BY <2>1
  <2> QED BY <2>1, <2>2 DEF History!Init
<1>4. GoodRegistry(registry) /\ [DocumentNext]_registry =>
        GoodRegistry(registry)' /\ [History!Next]_<<current, past>>
  <2> SUFFICES ASSUME GoodRegistry(registry), [DocumentNext]_registry
               PROVE  GoodRegistry(registry)' /\ [History!Next]_<<current, past>>
    OBVIOUS
  <2>1. CASE DocumentNext
    <3>1. /\ GoodRegistry(registry') /\ IsRegistry(registry) /\ IsRegistry(registry')
          /\ Extends(registry, registry') \/ Undone(registry, registry')
      BY <2>1, EveryStepGood DEF GoodRegistry
    <3>2. CASE Extends(registry, registry') /\ Len(registry.undo) # Len(registry'.undo)
      <4>1. History!Edit BY <1>1, <1>2, <3>1, <3>2, LongerHistoryIsEdit DEF History!Edit
      <4> QED BY <3>1, <4>1 DEF History!Next
    <3>3. CASE Extends(registry, registry') /\ Len(registry.undo) = Len(registry'.undo)
      <4>1. UNCHANGED <<current, past>> BY <1>1, <1>2, <3>1, <3>3, SameHistoryStays
      <4> QED BY <3>1, <4>1
    <3>4. CASE Undone(registry, registry')
      <4>1. History!Undo BY <1>1, <1>2, <3>1, <3>4, ShorterHistoryIsUndo DEF History!Undo
      <4> QED BY <3>1, <4>1 DEF History!Next
    <3> QED BY <3>1, <3>2, <3>3, <3>4
  <2>2. CASE UNCHANGED registry
    <3>1. GoodRegistry(registry)' /\ UNCHANGED <<current, past>> BY <2>2 DEF WithoutOperation
    <3> QED BY <3>1
  <2> QED BY <2>1, <2>2
<1> QED BY <1>3, <1>4, PTL DEF DocumentSpec, UndoRetraces, History!Spec
========================================
