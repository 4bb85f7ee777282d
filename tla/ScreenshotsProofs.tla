-------------------------- MODULE ScreenshotsProofs --------------------------
(***************************************************************************)
(* What the screenshots and the pins keep, first part: the states, the     *)
(* invariant, and what every operation of the core and of the event loop   *)
(* makes of the state.  The second part, ScreenshotsSafetyProofs, follows   *)
(* the invariant through the steps and holds the theorems.                  *)
(***************************************************************************)
EXTENDS Screenshots, FiniteSetTheorems, WellFoundedInduction, TLAPS

----------------------------------------
(* Types.                                                                    *)

Shots     == [session : Nat, phase : {"Idle", "Preparing", "Selecting", "Editing", "Output"},
              operation : Nat, bounds : Nat]
Documents == [session : Nat, request : Nat]
Pins      == [operation : Nat, busy : BOOLEAN, hidden : BOOLEAN, editing : Nat, revision : Nat,
              failed : Nat, lastEdit : Nat, document : {None} \cup Documents]
PinTables == {pins \in UNION {[ids -> Pins] : ids \in SUBSET Nat} : IsFiniteSet(DOMAIN pins)}
TableOf(V) == UNION {[ids -> V] : ids \in SUBSET Nat}
Tables    == TableOf(Nat)
Sources   == Nat \X Nat
Frames    == [session : Nat, frames : BOOLEAN]
Orders    == [k : {"Show", "Restore"}, session : Nat]
Loans     == [k : {"BeginEdit", "EndEdit"}, id : Nat, edit : Nat]
Jobs      == [k : {"prepare"}, session : Nat]
        \cup [k : {"output"}, session : Nat, operation : Nat, kind : {"copy", "pin"}]
        \cup [k : {"preview"}, id : Nat, revision : Nat]
        \cup [k : {"pin output"}, id : Nat, operation : Nat]
        \cup [k : {"commands"}, cmds : {<<cmd>> : cmd \in Orders}]
Snapshots == [k : {"Sync"}, shot : Shots, pins : PinTables]
Closures  == Snapshots \cup Orders \cup Loans
        \cup [k : {"Suspend"}, session : Nat]
        \cup [k : {"ShowPin"}, source : Sources]
        \cup [k : {"ClosePin"}, id : Nat]
        \cup [k : {"Present"}, id : Nat, revision : Nat]
\* The core, and what a transition makes of it: with commands to be executed.
Drafts(cmds) == [shot : Shots, pins : PinTables, lastPin : Nat, cmds : {cmds},
                 spawned : SUBSET Jobs,
                 queue : Seq(Closures), held : {None} \cup Frames, pending : SUBSET Sources,
                 images : SUBSET Nat, previews : Tables, outputs : Tables]
Cores        == Drafts(<<>>)

Contents   == {"blank", "desktop", "pin"}
Captures   == {"live", "frozen"}
Edited     == [k : {"shot"}, session : Nat, region : Nat] \cup [k : {"pin"}, id : Nat, edit : Nat]
Registries == [document : Contents, open : BOOLEAN, editing : {None} \cup Edited,
               capture : Captures]
PutAside   == [document : Contents, capture : Captures]
Lendings   == [id : Nat, edit : Nat, open : BOOLEAN, document : Contents, capture : Captures]
Entries    == [document : Contents, published : Documents]
Store      == TableOf(Entries)
Windows    == [phase : {"Preparing", "Visible", "Closing"}, source : Sources, revision : Nat,
               picture : Nat, editing : BOOLEAN]
WindowTables == TableOf(Windows)
Timers     == [k : {"shot failed"}, session : Nat]
         \cup [k : {"region"}, session : Nat, bounds : Nat]
         \cup [k : {"close window"}, id : Nat]
         \cup [k : {"edit failed"}, id : Nat, edit : Nat]
Views      == [flow : Shots, recovery : {None} \cup PutAside, active : {None} \cup Lendings,
               stored : Store, windows : WindowTables, next : Nat, host : Nat,
               timers : SUBSET Timers, drawn : BOOLEAN, registry : Registries]
Worlds     == [core : Cores, view : Views]

TypeOK == core \in Cores /\ core.spawned = {} /\ view \in Views /\ jobs \in SUBSET Jobs

\* What is queued: the positions of a kind, and what the event loop has seen of a
\* snapshot once it comes to a position.
At(q, k)   == {i \in DOMAIN q : q[i].k = k}
Syncs(q)   == At(q, "Sync")
Sees(q, flow, i, shot) ==
    \/ \E j \in Syncs(q) : j < i /\ q[j].shot = shot /\ \A m \in Syncs(q) : m < i => m <= j
    \/ flow = shot /\ \A m \in Syncs(q) : m >= i

\* The editor and the documents it put aside.
Desktops(v) == {place \in {"registry", "recovery", "active"} :
                    v[place] # None /\ v[place].document = "desktop"}
Lent(v) ==
    LET editing == v.registry.editing IN
    /\ v.active # None => v.recovery = None /\ v.active.capture = "live"
    /\ v.recovery # None => v.recovery.capture = "live"
    /\ v.recovery # None \/ v.active # None =>
          v.registry.document # "desktop" /\ (v.registry.open => editing # None)
    /\ v.recovery # None /\ editing # None => editing.k = "shot"
    /\ v.active # None /\ editing # None =>
          editing.k = "pin" /\ editing.id = v.active.id /\ editing.edit = v.active.edit
    /\ v.recovery = None /\ v.active = None => v.registry.capture = "live" /\ editing = None
    /\ v.host # 0 => v.recovery # None
    /\ \A id \in DOMAIN v.stored : v.stored[id].document # "desktop"
OnePlace(v) == v.drawn => \E place \in {"registry", "recovery", "active"} : Desktops(v) = {place}
Apart(q, v) == \/ v.active = None /\ At(q, "BeginEdit") = {}
               \/ v.recovery = None /\ At(q, "Suspend") = {}

\* The frames of the runtime.
HeldKnown(c) ==
    /\ c.held # None => Active(c) /\ c.held.session = c.shot.session
    /\ Active(c) => c.held # None /\ (c.shot.phase # "Preparing" => c.held.frames)
    /\ c.pending # {} => Active(c)

\* The screenshot the event loop knows.
FlowKnown(c, v) == Sees(c.queue, v.flow, Len(c.queue) + 1, c.shot)
SuspendKnown(c, v) ==
    \A i \in At(c.queue, "Suspend") :
        /\ c.queue[i].session = c.shot.session
        /\ \E shot \in {v.flow} \cup {c.queue[j].shot : j \in Syncs(c.queue)} :
              /\ Sees(c.queue, v.flow, i, shot) /\ shot.session = c.shot.session
              /\ shot.phase = "Preparing"
        /\ \A m \in Syncs(c.queue) : m > i => c.queue[m].shot.session = c.shot.session
        /\ \A m \in At(c.queue, "Suspend") : m = i
RecoveryKnown(c, v) ==
    v.recovery # None => /\ v.flow.session = c.shot.session
                         /\ \A m \in Syncs(c.queue) : c.queue[m].shot.session = c.shot.session
Loaned(c, v) == Active(c) => v.recovery # None \/ At(c.queue, "Suspend") # {}

\* The commands that wait: those in the queue, and those of a worker that dispatched.
Ordered(J, k, s) == \E job \in J : job.k = "commands" /\ job.cmds[1].k = k
    /\ job.cmds[1].session = s
RestoreOld(c, J) ==
    /\ \A i \in At(c.queue, "Restore") : c.queue[i].session <= c.shot.session
            /\ (c.queue[i].session = c.shot.session => ~Active(c))
    /\ \A job \in J : job.k = "commands" /\ job.cmds[1].k = "Restore" =>
            /\ job.cmds[1].session <= c.shot.session
            /\ (job.cmds[1].session = c.shot.session => ~Active(c))
RestoreDue(c, v, J) ==
    ~Active(c) /\ (v.recovery # None \/ At(c.queue, "Suspend") # {}) =>
        \/ \E i \in At(c.queue, "Restore") : c.queue[i].session = c.shot.session
                                   /\ \A m \in At(c.queue, "Suspend") : m < i
        \/ Ordered(J, "Restore", c.shot.session)
ShowOld(c, J) ==
    /\ \A i \in At(c.queue, "Show") : c.queue[i].session <= c.shot.session
            /\ (c.queue[i].session = c.shot.session => c.shot.phase # "Preparing")
    /\ \A job \in J : job.k = "commands" /\ job.cmds[1].k = "Show" =>
            /\ job.cmds[1].session <= c.shot.session
            /\ (job.cmds[1].session = c.shot.session => c.shot.phase # "Preparing")
ShowSees(c, v) ==
    \A i \in At(c.queue, "Show") : Is(c, c.queue[i].session, "Selecting") =>
        /\ Sees(c.queue, v.flow, i, c.shot)
        /\ \A m \in At(c.queue, "Suspend") : m < i
HostKnown(c, v) == v.host # 0 => v.host = c.shot.session /\ c.shot.phase # "Preparing"
\* Whose region the editor showed: a screenshot that is past the selection.
Past(c, s) == s <= c.shot.session
              /\ (s = c.shot.session => c.shot.phase # "Preparing" /\ c.shot.phase # "Selecting")
EditingKnown(c, v) ==
    /\ \A timer \in v.timers : timer.k = "region" => Past(c, timer.session)
    /\ v.registry.editing # None /\ v.registry.editing.k = "shot"
         => Past(c, v.registry.editing.session)

\* Each phase of a screenshot has its work.
PrepareWork(c, J) ==
    c.shot.phase = "Preparing" => \E job \in J : job.k = "prepare" /\ job.session = c.shot.session
SelectWork(c, v, J) ==
    c.shot.phase = "Selecting" =>
        \/ v.host = c.shot.session
        \/ Ordered(J, "Show", c.shot.session)
        \/ \E i \in At(c.queue, "Show") : c.queue[i].session = c.shot.session
EditorWork(c, v) ==
    c.shot.phase \in {"Editing", "Output"} =>
        \/ \E timer \in v.timers : timer.k = "shot failed" /\ timer.session = c.shot.session
        \/ /\ v.registry.editing # None /\ v.registry.editing.k = "shot"
           /\ v.registry.editing.session = c.shot.session /\ v.registry.open
Source(c) == <<c.shot.session, c.shot.operation>>
OutputWork(c, v, J) ==
    c.shot.phase = "Output" =>
        \/ \E job \in J : job.k = "output" /\ <<job.session, job.operation>> = Source(c)
        \/ \E i \in At(c.queue, "ShowPin") : c.queue[i].source = Source(c)
        \/ \E id \in DOMAIN v.windows : v.windows[id].phase = "Preparing"
               /\ v.windows[id].source = Source(c)

\* A source is not later than the last output, and the last one keeps its pixels and is what the
\* event loop sees.
NotLater(c, source) == source[1] < c.shot.session
    \/ (source[1] = c.shot.session /\ source[2] <= c.shot.operation)
SourcesOld(c, v, J) ==
    /\ \A job \in J : job.k = "output" => NotLater(c, <<job.session, job.operation>>)
    /\ \A i \in At(c.queue, "ShowPin") : NotLater(c, c.queue[i].source)
    /\ \A id \in DOMAIN v.windows : NotLater(c, v.windows[id].source)
OutputKept(c, v) ==
    c.shot.phase = "Output" =>
        /\ \A i \in At(c.queue, "ShowPin") : c.queue[i].source = Source(c) =>
              /\ Source(c) \in c.pending
              /\ Sees(c.queue, v.flow, i, c.shot)
              /\ \A m \in Syncs(c.queue) : m > i => c.queue[m].shot = c.shot
        /\ \A id \in DOMAIN v.windows :
              v.windows[id].phase = "Preparing" /\ v.windows[id].source = Source(c) =>
                /\ Source(c) \in c.pending
                /\ v.flow = c.shot
                /\ \A m \in Syncs(c.queue) : c.queue[m].shot = c.shot

ImagesKept(c) == c.images = DOMAIN c.pins

\* The pins.  A window that is being prepared is unknown to everybody else.
Known(v, id) == id \in 1..v.next /\ (id \in DOMAIN v.windows => v.windows[id].phase # "Preparing")
Naming == {"ClosePin", "BeginEdit", "EndEdit", "Present"}
IdsKnown(c, v, J) ==
    /\ DOMAIN v.windows \subseteq 1..v.next
    /\ \A id \in DOMAIN c.pins : Known(v, id)
    /\ \A i \in DOMAIN c.queue : c.queue[i].k \in Naming => Known(v, c.queue[i].id)
    /\ \A timer \in v.timers : timer.k \in {"close window", "edit failed"} => Known(v, timer.id)
    /\ \A job \in J : job.k \in {"preview", "pin output"} => Known(v, job.id)
    /\ v.active # None => Known(v, v.active.id)

\* The picture of a pin.

LEMMA LeastNumber == ASSUME NEW S \in SUBSET Nat, S # {} PROVE \E n \in S : \A m \in S : n <= m
<1> DEFINE R == {ss \in Nat \X Nat : ss[1] < ss[2]}
<1>1. R = OpToRel(<, Nat) BY DEF OpToRel
<1>2. IsWellFoundedOn(R, Nat) BY <1>1, NatLessThanWellFounded
<1>3. \A y, x \in Nat : y < x => <<y, x>> \in R OBVIOUS
<1> HIDE DEF R
<1>4. PICK x \in S : \A y \in S : ~ (<<y, x>> \in R) BY <1>2, WFMin
<1>5. \A m \in S : m \in Nat /\ x \in Nat OBVIOUS
<1>6. \A m \in S : ~ (m < x) BY <1>3, <1>4, <1>5
<1>7. \A m \in S : x <= m BY <1>5, <1>6
<1> QED BY <1>7

\* Commands are executed one after the other.
LEMMA RunExists ==
    ASSUME NEW c, NEW cmds, Len(cmds) \in Nat
    PROVE  \E run : run = [n \in 0..Len(cmds) |-> IF n = 0 THEN c ELSE Execute(run[n - 1], cmds[n])]
<1> DEFINE Runs(m, run) == run = [n \in 0..m |-> IF n = 0 THEN c ELSE Execute(run[n - 1], cmds[n])]
           Bad == {m \in Nat : ~ \E run : Runs(m, run)}
<1>1. SUFFICES ASSUME Bad # {} PROVE FALSE OBVIOUS
<1>2. PICK m \in Bad : \A n \in Bad : m <= n
  <2>1. Bad \in SUBSET Nat OBVIOUS
  <2> HIDE DEF Bad
  <2> QED BY <1>1, <2>1, LeastNumber
<1>3. m \in Nat /\ ~ \E run : Runs(m, run) OBVIOUS
<1>4. m # 0
  <2>1. SUFFICES ASSUME m = 0 PROVE FALSE OBVIOUS
  <2> DEFINE r == [n \in 0..0 |-> c]
  <2>2. r = [n \in 0..0 |-> IF n = 0 THEN c ELSE Execute(r[n - 1], cmds[n])] OBVIOUS
  <2>3. Runs(0, r) BY <2>2
  <2> QED BY <1>3, <2>1, <2>3
<1>5. m - 1 \in Nat /\ m - 1 \notin Bad
  <2>1. m - 1 \in Nat /\ ~ (m <= m - 1) BY <1>3, <1>4
  <2> HIDE DEF Bad
  <2> QED BY <1>2, <2>1
<1>6. PICK r : Runs(m - 1, r) BY <1>5
<1> DEFINE more == [n \in 0..m |-> IF n = m THEN Execute(r[m - 1], cmds[m]) ELSE r[n]]
<1>7. more = [n \in 0..m |-> IF n = 0 THEN c ELSE Execute(more[n - 1], cmds[n])]
  <2>1. \A n \in 0..(m - 1) : r[n] = IF n = 0 THEN c ELSE Execute(r[n - 1], cmds[n])
    BY <1>3, <1>5, <1>6
  <2>2. \A n \in 0..(m - 1) : more[n] = r[n] BY <1>3, <1>4
  <2>3. more[m] = Execute(r[m - 1], cmds[m]) BY <1>3, <1>4
  <2>4. \A n \in 0..m : more[n] = IF n = 0 THEN c ELSE Execute(more[n - 1], cmds[n])
    <3>1. TAKE n \in 0..m
    <3>2. CASE n = m BY <1>3, <1>4, <2>2, <2>3, <3>2
    <3>3. CASE n # m
      <4>1. n \in 0..(m - 1) /\ (n # 0 => n - 1 \in 0..(m - 1)) BY <1>3, <3>3
      <4> HIDE DEF more
      <4> QED BY <2>1, <2>2, <4>1
    <3> QED BY <3>2, <3>3
  <2> QED BY <2>4
<1> QED BY <1>3, <1>7

LEMMA ExecuteAllProof ==
    ASSUME NEW c, NEW cmds, Len(cmds) \in Nat
    PROVE  \E run : /\ ExecuteAll(c, cmds) = run[Len(cmds)] /\ run[0] = c
                    /\ \A n \in 1..Len(cmds) : run[n] = Execute(run[n - 1], cmds[n])
<1> DEFINE Runs(run) == run = [n \in 0..Len(cmds) |-> IF n = 0 THEN c
                               ELSE Execute(run[n - 1], cmds[n])]
           r == CHOOSE run : Runs(run)
<1>1. Runs(r) BY RunExists
<1>2. ExecuteAll(c, cmds) = r[Len(cmds)] BY DEF ExecuteAll
<1>3. r[0] = c /\ \A n \in 1..Len(cmds) : r[n] = Execute(r[n - 1], cmds[n])
  <2> HIDE DEF r
  <2> QED BY <1>1
<1> QED BY <1>2, <1>3

LEMMA ExecuteShort ==
    ASSUME NEW c, NEW first
    PROVE  /\ ExecuteAll(c, <<>>) = c
           /\ ExecuteAll(c, <<first>>) = Execute(c, first)
<1>1. ExecuteAll(c, <<>>) = c BY ExecuteAllProof, Len(<<>>) = 0
<1>2. ExecuteAll(c, <<first>>) = Execute(c, first)
  <2>1. Len(<<first>>) = 1 /\ <<first>>[1] = first OBVIOUS
  <2>2. PICK run : /\ ExecuteAll(c, <<first>>) = run[Len(<<first>>)] /\ run[0] = c
                   /\ \A n \in 1..Len(<<first>>) : run[n] = Execute(run[n - 1], <<first>>[n])
    BY <2>1, ExecuteAllProof
  <2> QED BY <2>1, <2>2
<1> QED BY <1>1, <1>2

LEMMA ExecuteTwo ==
    ASSUME NEW c, NEW first, NEW second
    PROVE  ExecuteAll(c, <<first, second>>) = Execute(Execute(c, first), second)
<1> DEFINE both == <<first, second>>
<1>1. Len(both) = 2 /\ both[1] = first /\ both[2] = second OBVIOUS
<1> HIDE DEF both
<1>2. PICK run : /\ ExecuteAll(c, both) = run[Len(both)] /\ run[0] = c
                 /\ \A n \in 1..Len(both) : run[n] = Execute(run[n - 1], both[n])
  <2>1. Len(both) \in Nat BY <1>1
  <2> QED BY <2>1, ExecuteAllProof
<1>3. run[1] = Execute(run[0], both[1]) /\ run[2] = Execute(run[1], both[2]) BY <1>1, <1>2
<1>4. ExecuteAll(c, both) = Execute(Execute(c, first), second) BY <1>1, <1>2, <1>3
<1> QED BY <1>4 DEF both

----------------------------------------
(* What a dispatch makes of the core: the snapshot taken after the transition, *)
(* and the commands carried out on it.                                         *)

Snapped(c, shot, pins, last) ==
    [shot |-> shot, pins |-> pins, lastPin |-> last, cmds |-> <<>>, spawned |-> c.spawned,
     queue |-> Append(c.queue, [k |-> "Sync", shot |-> shot, pins |-> pins]),
     held |-> IF c.held # None /\ (c.held.session # shot.session \/ shot.phase = "Idle")
              THEN None ELSE c.held,
     pending |-> {source \in c.pending : shot.phase # "Idle"
                  /\ source = <<shot.session, shot.operation>>},
     images |-> c.images \cap DOMAIN pins,
     previews |-> Restrict(c.previews, DOMAIN c.previews \cap DOMAIN pins),
     outputs |-> Restrict(c.outputs, {id \in DOMAIN c.outputs \cap DOMAIN pins : pins[id].busy})]

LEMMA RestrictTable ==
    ASSUME NEW V, NEW f \in TableOf(V), NEW S, S \subseteq DOMAIN f
    PROVE  /\ Restrict(f, S) \in TableOf(V) /\ DOMAIN Restrict(f, S) = S
           /\ \A x \in S : Restrict(f, S)[x] = f[x]
<1>1. PICK ids \in SUBSET Nat : f \in [ids -> V] BY DEF TableOf
<1>2. Restrict(f, S) \in [S -> V] /\ S \in SUBSET Nat BY <1>1 DEF Restrict
<1>3. Restrict(f, S) \in TableOf(V) BY <1>2 DEF TableOf
<1> QED BY <1>2, <1>3 DEF Restrict

LEMMA PutTable ==
    ASSUME NEW V, NEW f \in TableOf(V), NEW x \in Nat, NEW y \in V
    PROVE  /\ Put(f, x, y) \in TableOf(V) /\ DOMAIN Put(f, x, y) = DOMAIN f \cup {x}
           /\ Put(f, x, y)[x] = y /\ \A z \in DOMAIN f : z # x => Put(f, x, y)[z] = f[z]
<1>1. PICK ids \in SUBSET Nat : f \in [ids -> V] BY DEF TableOf
<1>2. Put(f, x, y) \in [ids \cup {x} -> V] /\ ids \cup {x} \in SUBSET Nat BY <1>1 DEF Put
<1>3. Put(f, x, y) \in TableOf(V) BY <1>2 DEF TableOf
<1> QED BY <1>1, <1>2, <1>3 DEF Put

LEMMA SetTable ==
    ASSUME NEW V, NEW f \in TableOf(V), NEW x \in DOMAIN f, NEW y \in V
    PROVE  /\ [f EXCEPT ![x] = y] \in TableOf(V) /\ DOMAIN [f EXCEPT ![x] = y] = DOMAIN f
           /\ [f EXCEPT ![x] = y][x] = y
           /\ \A z \in DOMAIN f : z # x => [f EXCEPT ![x] = y][z] = f[z]
<1>1. PICK ids \in SUBSET Nat : f \in [ids -> V] BY DEF TableOf
<1>2. [f EXCEPT ![x] = y] \in [ids -> V] BY <1>1
<1>3. [f EXCEPT ![x] = y] \in TableOf(V) BY <1>2 DEF TableOf
<1> QED BY <1>1, <1>2, <1>3

LEMMA TableFacts ==
    ASSUME NEW V, NEW f \in TableOf(V)
    PROVE  DOMAIN f \subseteq Nat /\ \A x \in DOMAIN f : f[x] \in V
  BY DEF TableOf

LEMMA GoneTable ==
    ASSUME NEW V, NEW f \in TableOf(V), NEW x
    PROVE  /\ Without(f, x) \in TableOf(V) /\ DOMAIN Without(f, x) = DOMAIN f \ {x}
           /\ \A z \in DOMAIN f : z # x => Without(f, x)[z] = f[z]
<1>1. DOMAIN f \ {x} \subseteq DOMAIN f OBVIOUS
<1>2. PICK S : S = DOMAIN f \ {x} OBVIOUS
<1>3. /\ Restrict(f, S) \in TableOf(V) /\ DOMAIN Restrict(f, S) = S
      /\ \A z \in S : Restrict(f, S)[z] = f[z]
  BY <1>1, <1>2, RestrictTable
<1>4. Without(f, x) = Restrict(f, S) BY <1>2 DEF Without
<1> QED BY <1>2, <1>3, <1>4

LEMMA SnappedType ==
    ASSUME NEW c \in Cores, NEW shot \in Shots, NEW pins \in PinTables, NEW last \in Nat
    PROVE  /\ Snapped(c, shot, pins, last) \in Cores
           /\ [k |-> "Sync", shot |-> shot, pins |-> pins] \in Closures
  BY RestrictTable DEF Closures, Snapshots, Cores, Drafts, Tables, Snapped

LEMMA OneDraft ==
    ASSUME NEW s, NEW t, NEW l, NEW m, NEW w, NEW q, NEW h, NEW p, NEW i, NEW v, NEW o,
           NEW d \in [shot : {s}, pins : {t}, lastPin : {l}, cmds : {m}, spawned : {w}, queue : {q},
                      held : {h}, pending : {p}, images : {i}, previews : {v}, outputs : {o}]
    PROVE  d = [shot |-> s, pins |-> t, lastPin |-> l, cmds |-> m, spawned |-> w, queue |-> q,
                held |-> h, pending |-> p, images |-> i, previews |-> v, outputs |-> o]
  OBVIOUS

LEMMA SettledProof ==
    ASSUME NEW cmds, NEW a \in Drafts(cmds)
    PROVE  Settled(a) = Snapped(a, a.shot, a.pins, a.lastPin)
<1> DEFINE x  == [k |-> "Sync", shot |-> a.shot, pins |-> a.pins]
           p  == {source \in a.pending : Active(a) /\ source = <<a.shot.session, a.shot.operation>>}
           h  == IF a.held # None /\ (a.held.session # a.shot.session \/ ~Active(a)) THEN None
               ELSE a.held
           i  == a.images \cap DOMAIN a.pins
           pr == Restrict(a.previews, DOMAIN a.previews \cap DOMAIN a.pins)
           o  == Restrict(a.outputs, {id \in DOMAIN a.outputs \cap DOMAIN a.pins : a.pins[id].busy})
           b  == [a EXCEPT !.pending = p, !.held = h, !.images = i, !.previews = pr, !.outputs = o]
<1>1. Settled(a) = [Post(b, x) EXCEPT !.cmds = <<>>] BY DEF Settled, Sync
<1>2. Snapped(a, a.shot, a.pins, a.lastPin) =
      [shot |-> a.shot, pins |-> a.pins, lastPin |-> a.lastPin, cmds |-> <<>>,
          spawned |-> a.spawned,
       queue |-> Append(a.queue, x), held |-> h, pending |-> p, images |-> i, previews |-> pr,
       outputs |-> o]
  BY DEF Active, Snapped
<1> HIDE DEF x, p, h, i, pr, o
<1>3. b \in [shot : {a.shot}, pins : {a.pins}, lastPin : {a.lastPin}, cmds : {cmds},
             spawned : {a.spawned},
             queue : {a.queue}, held : {h}, pending : {p}, images : {i}, previews : {pr}, outputs :
                 {o}]
  BY DEF Drafts
<1> HIDE DEF b
<1>4. Post(b, x) \in
            [shot : {a.shot}, pins : {a.pins}, lastPin : {a.lastPin}, cmds : {cmds},
                spawned : {a.spawned},
             queue : {Append(a.queue, x)}, held : {h}, pending : {p}, images : {i}, previews : {pr},
             outputs : {o}]
  BY <1>3 DEF Post
<1>5. [Post(b, x) EXCEPT !.cmds = <<>>] \in
            [shot : {a.shot}, pins : {a.pins}, lastPin : {a.lastPin}, cmds : {<<>>},
                spawned : {a.spawned},
             queue : {Append(a.queue, x)}, held : {h}, pending : {p}, images : {i}, previews : {pr},
             outputs : {o}]
  BY <1>4
<1>6. [Post(b, x) EXCEPT !.cmds = <<>>] =
      [shot |-> a.shot, pins |-> a.pins, lastPin |-> a.lastPin, cmds |-> <<>>,
          spawned |-> a.spawned,
       queue |-> Append(a.queue, x), held |-> h, pending |-> p, images |-> i, previews |-> pr,
       outputs |-> o]
  <2>1. PICK s, t, l, m, w, q : /\ s = a.shot /\ t = a.pins /\ l = a.lastPin /\ m = <<>>
                                /\ w = a.spawned /\ q = Append(a.queue, x)
    OBVIOUS
  <2>2. PICK d : d = [Post(b, x) EXCEPT !.cmds = <<>>] OBVIOUS
  <2>3. d \in [shot : {s}, pins : {t}, lastPin : {l}, cmds : {m}, spawned : {w}, queue : {q},
               held : {h}, pending : {p}, images : {i}, previews : {pr}, outputs : {o}]
    BY ONLY <1>5, <2>1, <2>2
  <2>4. d = [shot |-> s, pins |-> t, lastPin |-> l, cmds |-> m, spawned |-> w, queue |-> q,
             held |-> h, pending |-> p, images |-> i, previews |-> pr, outputs |-> o]
    BY ONLY <2>3, OneDraft
  <2> QED BY ONLY <2>1, <2>2, <2>4
<1> QED BY <1>1, <1>2, <1>6

\* What a dispatch of the event loop comes to.
LEMMA Emitted ==
    ASSUME NEW w \in Worlds, NEW cmds, NEW a \in Drafts(cmds), a # w.core,
           a.spawned = w.core.spawned, a.queue = w.core.queue, a.held = w.core.held,
           a.pending = w.core.pending, a.images = w.core.images,
           a.previews = w.core.previews, a.outputs = w.core.outputs
    PROVE  Emit(w, a) = [w EXCEPT !.core
                         = ExecuteAll(Snapped(w.core, a.shot, a.pins, a.lastPin), cmds)]
<1>1. Settled(a) = Snapped(a, a.shot, a.pins, a.lastPin) /\ a.cmds = cmds BY SettledProof DEF Drafts
<1>2. Snapped(a, a.shot, a.pins, a.lastPin) = Snapped(w.core, a.shot, a.pins, a.lastPin)
  BY DEF Snapped
<1> QED BY <1>1, <1>2 DEF Emit

\* What the execution of one command does to the core.
Alike(c, d) ==
    /\ d.shot = c.shot /\ d.pins = c.pins /\ d.lastPin = c.lastPin /\ d.cmds = c.cmds

LEMMA PostFacts ==
    ASSUME NEW c \in Cores, NEW x \in Closures
    PROVE  /\ Post(c, x) \in Cores /\ Alike(c, Post(c, x))
           /\ Post(c, x).queue = Append(c.queue, x) /\ Post(c, x).spawned = c.spawned
           /\ Post(c, x).held = c.held /\ Post(c, x).pending = c.pending
           /\ Post(c, x).images = c.images /\ Post(c, x).previews = c.previews
           /\ Post(c, x).outputs = c.outputs
<1>1. Append(c.queue, x) \in Seq(Closures) BY DEF Cores, Drafts
<1>2. Post(c, x) \in Cores BY <1>1 DEF Post, Cores, Drafts
<1> QED BY <1>2 DEF Post, Cores, Drafts, Alike

LEMMA PostedFacts ==
    ASSUME NEW c \in Cores, NEW cmd \in Closures, cmd.k \in {"Restore", "BeginEdit", "EndEdit"}
    PROVE  Execute(c, cmd) = Post(c, cmd)
  BY DEF Execute

LEMMA PrepareFacts ==
    ASSUME NEW c \in Cores, NEW s \in Nat, NEW d, d = Execute(c, [k |-> "Prepare", session |-> s])
    PROVE  /\ d \in Cores /\ Alike(c, d)
           /\ d.queue = Append(c.queue, [k |-> "Suspend", session |-> s])
           /\ d.spawned = c.spawned \cup {[k |-> "prepare", session |-> s]}
           /\ d.held = [session |-> s, frames |-> FALSE] /\ d.pending = c.pending
           /\ d.images = c.images /\ d.previews = c.previews
<1> DEFINE h == [session |-> s, frames |-> FALSE]
           x == [k |-> "Suspend", session |-> s]
           job == [k |-> "prepare", session |-> s]
           e == [c EXCEPT !.held = h]
<1>1. d = Spawn(Post(e, x), job) BY DEF Execute
<1>2. h \in Frames /\ x \in Closures /\ job \in Jobs BY DEF Frames, Closures, Jobs
<1> HIDE DEF h, x, job
<1>3. e \in Cores /\ Alike(c, e) /\ e.queue = c.queue /\ e.spawned = c.spawned /\ e.held = h
      /\ e.pending = c.pending /\ e.images = c.images /\ e.previews = c.previews
  BY <1>2 DEF Cores, Drafts, Alike
<1> HIDE DEF e
<1>4. PICK f : f = Post(e, x) OBVIOUS
<1>5. f \in Cores /\ Alike(e, f) /\ f.queue = Append(e.queue, x) /\ f.spawned = e.spawned
          /\ f.held = e.held
      /\ f.pending = e.pending /\ f.images = e.images /\ f.previews = e.previews
  BY <1>2, <1>3, <1>4, PostFacts
<1>6. PICK spawned \in SUBSET Jobs : spawned = f.spawned \cup {job}
          /\ d = [f EXCEPT !.spawned = spawned]
  BY <1>1, <1>2, <1>4, <1>5 DEF Cores, Drafts, Spawn
<1>7. d \in Cores BY <1>5, <1>6 DEF Cores, Drafts
<1>8. Alike(f, d) /\ d.queue = f.queue /\ d.held = f.held /\ d.spawned = f.spawned \cup {job}
      /\ d.pending = f.pending /\ d.images = f.images /\ d.previews = f.previews
  BY <1>5, <1>6 DEF Cores, Drafts, Alike
<1> QED BY <1>3, <1>5, <1>7, <1>8 DEF Alike, h, x, job

LEMMA SpawnFacts ==
    ASSUME NEW c \in Cores, NEW job \in Jobs, NEW d, d = Spawn(c, job)
    PROVE  /\ d \in Cores /\ Alike(c, d) /\ d.queue = c.queue /\ d.spawned = c.spawned \cup {job}
           /\ d.held = c.held /\ d.pending = c.pending /\ d.images = c.images
           /\ d.previews = c.previews
  BY DEF Cores, Drafts, Spawn, Alike

LEMMA OutputFacts ==
    ASSUME NEW c \in Cores, NEW cmd, cmd.k = "Output", Holds(c, cmd.session), NEW job \in Jobs,
           job = [k |-> "output", session |-> cmd.session, operation |-> cmd.operation,
                  kind |-> cmd.kind],
           NEW d, d = Execute(c, cmd)
    PROVE  /\ d \in Cores /\ Alike(c, d) /\ d.queue = c.queue /\ d.spawned = c.spawned \cup {job}
           /\ d.held = c.held /\ d.pending = c.pending /\ d.images = c.images
           /\ d.previews = c.previews
  BY SpawnFacts DEF Execute

\* A picture is made of a pin whose pixels are there.
Drawn(c, d, id, revision) ==
    IF id \in c.images
    THEN /\ d.spawned = c.spawned \cup {[k |-> "preview", id |-> id, revision |-> revision]}
         /\ id \in DOMAIN d.previews /\ d.previews[id] = revision
         /\ DOMAIN c.previews \subseteq DOMAIN d.previews
         /\ \A other \in DOMAIN c.previews : other # id => d.previews[other] = c.previews[other]
    ELSE d.spawned = c.spawned /\ d.previews = c.previews

LEMMA PreviewPut ==
    ASSUME NEW f, f \in TableOf(Nat), NEW id \in Nat, NEW revision \in Nat
    PROVE  /\ Put(f, id, revision) \in Tables /\ id \in DOMAIN Put(f, id, revision)
           /\ Put(f, id, revision)[id] = revision /\ DOMAIN f \subseteq DOMAIN Put(f, id, revision)
           /\ \A other \in DOMAIN f : other # id => Put(f, id, revision)[other] = f[other]
  BY PutTable DEF Tables, Put

LEMMA RenderFacts ==
    ASSUME NEW c \in Cores, NEW id \in Nat, NEW revision \in Nat,
           NEW d, d = Execute(c, [k |-> "Render", id |-> id, revision |-> revision])
    PROVE  /\ d \in Cores /\ Alike(c, d) /\ d.queue = c.queue /\ Drawn(c, d, id, revision)
           /\ d.held = c.held /\ d.pending = c.pending /\ d.images = c.images
<1>1. CASE id \notin c.images BY <1>1 DEF Execute, Alike, Drawn
<1>2. CASE id \in c.images
  <2> DEFINE p == Put(c.previews, id, revision)
             e == [c EXCEPT !.previews = p]
             job == [k |-> "preview", id |-> id, revision |-> revision]
  <2>1. d = Spawn(e, job) BY <1>2 DEF Execute
  <2>2. job \in Jobs BY DEF Jobs
  <2> HIDE DEF p, e, job
  <2>3. /\ p \in Tables /\ id \in DOMAIN p /\ p[id] = revision
        /\ DOMAIN c.previews \subseteq DOMAIN p
        /\ \A other \in DOMAIN c.previews : other # id => p[other] = c.previews[other]
    <3>1. c.previews \in TableOf(Nat) BY DEF Cores, Drafts, Tables
    <3> QED BY <3>1, PreviewPut DEF p
  <2>4. e \in Cores /\ Alike(c, e) /\ e.queue = c.queue /\ e.spawned = c.spawned /\ e.held = c.held
        /\ e.pending = c.pending /\ e.images = c.images /\ e.previews = p
    BY <2>3 DEF Cores, Drafts, Alike, e
  <2>5. /\ d \in Cores /\ Alike(e, d) /\ d.queue = e.queue /\ d.spawned = e.spawned \cup {job}
        /\ d.held = e.held /\ d.pending = e.pending /\ d.images = e.images
        /\ d.previews = e.previews
    BY ZenonT(60), <2>1, <2>2, <2>4, SpawnFacts
  <2>6. Drawn(c, d, id, revision) BY <1>2, <2>3, <2>4, <2>5 DEF Drawn, job
  <2> QED BY <2>4, <2>5, <2>6 DEF Alike
<1> QED BY <1>1, <1>2

LEMMA RetainFacts ==
    ASSUME NEW c \in Cores, NEW id \in Nat, NEW source \in Sources, source \in c.pending,
           NEW d, d = Execute(c, [k |-> "Retain", id |-> id, source |-> source])
    PROVE  /\ d \in Cores /\ Alike(c, d) /\ d.queue = c.queue /\ d.spawned = c.spawned
           /\ d.held = c.held /\ d.pending = c.pending \ {source} /\ d.images = c.images \cup {id}
           /\ d.previews = c.previews
  BY DEF Execute, Retain, Cores, Drafts, Alike

LEMMA DropFacts ==
    ASSUME NEW c \in Cores, NEW id \in Nat, NEW d, d = Execute(c, [k |-> "Drop", id |-> id])
    PROVE  /\ d \in Cores /\ Alike(c, d) /\ d.queue = Append(c.queue, [k |-> "ClosePin", id |-> id])
           /\ d.spawned = c.spawned
           /\ d.held = c.held /\ d.pending = c.pending /\ d.images = c.images \ {id}
           /\ d.previews = c.previews
<1> DEFINE o == Without(c.outputs, id)
           e == [c EXCEPT !.images = c.images \ {id}, !.outputs = o]
           x == [k |-> "ClosePin", id |-> id]
<1>1. d = Post(e, x) BY DEF Execute
<1>2. x \in Closures BY DEF Closures
<1>3. o \in Tables BY RestrictTable DEF Cores, Drafts, Without, Tables
<1> HIDE DEF o, x
<1>4. e \in Cores /\ Alike(c, e) /\ e.queue = c.queue /\ e.spawned = c.spawned /\ e.held = c.held
      /\ e.pending = c.pending /\ e.images = c.images \ {id} /\ e.previews = c.previews
  BY <1>3 DEF Cores, Drafts, Alike
<1> HIDE DEF e
<1>6. PICK f : f = Post(e, x) OBVIOUS
<1>5. /\ d \in Cores /\ Alike(e, d) /\ d.queue = Append(e.queue, x) /\ d.spawned = e.spawned
      /\ d.held = e.held /\ d.pending = e.pending /\ d.images = e.images /\ d.previews = e.previews
  <2>1. /\ f \in Cores /\ Alike(e, f) /\ f.queue = Append(e.queue, x) /\ f.spawned = e.spawned
        /\ f.held = e.held /\ f.pending = e.pending /\ f.images = e.images
        /\ f.previews = e.previews
    BY <1>2, <1>4, <1>6, PostFacts
  <2> QED BY <1>1, <1>6, <2>1
<1> QED BY <1>4, <1>5 DEF Alike, x

PinJob(id, operation) == [k |-> "pin output", id |-> id, operation |-> operation]

LEMMA PinOutputFacts ==
    ASSUME NEW c \in Cores, NEW cmd, cmd.k = "PinOutput", cmd.id \in Nat, cmd.operation \in Nat,
           cmd.id \in c.images, NEW d, d = Execute(c, cmd),
           NEW job \in Jobs, job = PinJob(cmd.id, cmd.operation)
    PROVE  /\ d \in Cores /\ Alike(c, d) /\ d.queue = c.queue /\ d.spawned = c.spawned \cup {job}
           /\ d.held = c.held /\ d.pending = c.pending /\ d.images = c.images
           /\ d.previews = c.previews
<1> DEFINE o == Put(c.outputs, cmd.id, cmd.operation)
           e == [c EXCEPT !.outputs = o]
<1>1. d = Spawn(e, job) BY DEF Execute, PinJob
<1>2. o \in Tables BY PutTable DEF Cores, Drafts, Tables
<1> HIDE DEF o
<1>3. e \in Cores /\ Alike(c, e) /\ e.queue = c.queue /\ e.spawned = c.spawned /\ e.held = c.held
      /\ e.pending = c.pending /\ e.images = c.images /\ e.previews = c.previews
  BY <1>2 DEF Cores, Drafts, Alike
<1> HIDE DEF e
<1>4. /\ d \in Cores /\ Alike(e, d) /\ d.queue = e.queue /\ d.spawned = e.spawned \cup {job}
      /\ d.held = e.held /\ d.pending = e.pending /\ d.images = e.images /\ d.previews = e.previews
  BY <1>1, <1>3, SpawnFacts
<1> QED BY <1>3, <1>4 DEF Alike

----------------------------------------
(* The transitions, dispatched by the event loop.                            *)

SyncOf(shot, pins) == [k |-> "Sync", shot |-> shot, pins |-> pins]
Grows(q, r, new) ==
    /\ Len(q) \in Nat /\ Len(new) \in Nat /\ Len(r) = Len(q) + Len(new)
    /\ DOMAIN q = 1..Len(q) /\ DOMAIN new = 1..Len(new) /\ DOMAIN r = 1..(Len(q) + Len(new))
    /\ \A i \in 1..Len(q) : r[i] = q[i]
    /\ \A i \in 1..Len(new) : r[Len(q) + i] = new[i]

Told(c, d, shot, pins, new, started) ==
    /\ d \in Cores /\ d.shot = shot /\ d.pins = pins
    /\ Grows(c.queue, d.queue, new) /\ d.spawned = c.spawned \cup started

HeldKept(c, d)     == d.held = IF c.held # None
    /\ (c.held.session # d.shot.session \/ d.shot.phase = "Idle")
                               THEN None ELSE c.held
PendingKept(c, d)  == d.pending = {source \in c.pending :
                                      /\ d.shot.phase # "Idle"
                                      /\ source = <<d.shot.session, d.shot.operation>>}
ImagesSynced(c, d) == d.images = c.images \cap DOMAIN d.pins
PreviewsKept(c, d) == \A id \in DOMAIN d.pins \cap DOMAIN c.previews :
                          id \in DOMAIN d.previews /\ d.previews[id] = c.previews[id]
Kept(c, d) == HeldKept(c, d) /\ PendingKept(c, d) /\ ImagesSynced(c, d) /\ PreviewsKept(c, d)

LEMMA GrowsOne ==
    ASSUME NEW q \in Seq(Closures), NEW x \in Closures
    PROVE  Grows(q, Append(q, x), <<x>>)
  BY DEF Grows

LEMMA GrowsTwo ==
    ASSUME NEW q \in Seq(Closures), NEW x \in Closures, NEW y \in Closures
    PROVE  Grows(q, Append(Append(q, x), y), <<x, y>>)
<1> DEFINE r == Append(Append(q, x), y)
<1>1. Len(q) \in Nat /\ DOMAIN q = 1..Len(q) /\ Len(<<x, y>>) = 2 /\ DOMAIN <<x, y>> = 1..2
      /\ <<x, y>>[1] = x /\ <<x, y>>[2] = y
  OBVIOUS
<1>2. /\ Len(r) = Len(q) + 2 /\ DOMAIN r = 1..(Len(q) + 2)
      /\ r[Len(q) + 1] = x /\ r[Len(q) + 2] = y /\ \A i \in 1..Len(q) : r[i] = q[i]
  OBVIOUS
<1> HIDE DEF r
<1>3. \A i \in 1..2 : r[Len(q) + i] = <<x, y>>[i] BY <1>1, <1>2
<1>4. Grows(q, r, <<x, y>>) BY <1>1, <1>2, <1>3 DEF Grows
<1> QED BY <1>4 DEF r

LEMMA SnappedFacts ==
    ASSUME NEW c \in Cores, NEW shot \in Shots, NEW pins \in PinTables, NEW last \in Nat,
           NEW d, d = Snapped(c, shot, pins, last)
    PROVE  /\ Told(c, d, shot, pins, <<SyncOf(shot, pins)>>, {}) /\ Kept(c, d)
           /\ d.queue = Append(c.queue, SyncOf(shot, pins)) /\ SyncOf(shot, pins) \in Closures
           /\ d.lastPin = last /\ d.cmds = <<>>
<1> DEFINE x == SyncOf(shot, pins)
<1>1. d \in Cores /\ x \in Closures BY SnappedType DEF SyncOf
<1>2. d.shot = shot /\ d.pins = pins /\ d.spawned = c.spawned /\ d.queue = Append(c.queue, x)
      /\ d.lastPin = last /\ d.cmds = <<>>
  BY DEF Snapped, SyncOf
<1>3. HeldKept(c, d) /\ PendingKept(c, d) /\ ImagesSynced(c, d)
  BY DEF Snapped, HeldKept, PendingKept, ImagesSynced
<1>4. PreviewsKept(c, d) BY DEF Snapped, PreviewsKept, Restrict
<1>5. c.queue \in Seq(Closures) BY DEF Cores, Drafts
<1> HIDE DEF x
<1>6. Grows(c.queue, d.queue, <<x>>) BY <1>1, <1>2, <1>5, GrowsOne
<1>7. Told(c, d, shot, pins, <<x>>, {}) BY <1>1, <1>2, <1>6 DEF Told
<1> QED BY <1>1, <1>2, <1>3, <1>4, <1>7 DEF x, Kept

\* A transition changes the screenshot and the pins; Issue adds the commands.
Beside(c, d) ==
    /\ d.spawned = c.spawned /\ d.queue = c.queue /\ d.held = c.held /\ d.pending = c.pending
    /\ d.images = c.images /\ d.previews = c.previews /\ d.outputs = c.outputs

LEMMA EmittedPlain ==
    ASSUME NEW w \in Worlds, NEW a \in Cores, Beside(w.core, a), a # w.core
    PROVE  /\ Emit(w, a) = [w EXCEPT !.core = Snapped(w.core, a.shot, a.pins, a.lastPin)]
           /\ a.shot \in Shots /\ a.pins \in PinTables /\ a.lastPin \in Nat
           /\ w.core \in Cores
<1>1. a \in Drafts(<<>>) BY DEF Cores
<1>2. Emit(w, a) = [w EXCEPT !.core = ExecuteAll(Snapped(w.core, a.shot, a.pins, a.lastPin), <<>>)]
  BY <1>1, Emitted DEF Beside
<1>3. ExecuteAll(Snapped(w.core, a.shot, a.pins, a.lastPin), <<>>)
          = Snapped(w.core, a.shot, a.pins, a.lastPin)
  BY ExecuteShort
<1> QED BY <1>2, <1>3 DEF Worlds, Cores, Drafts

LEMMA EmittedIssue ==
    ASSUME NEW w \in Worlds, NEW a \in Cores, Beside(w.core, a), NEW S, NEW cmds \in Seq(S),
           cmds # <<>>
    PROVE  /\ Emit(w, Issue(a, cmds)) =
                [w EXCEPT !.core = ExecuteAll(Snapped(w.core, a.shot, a.pins, a.lastPin), cmds)]
           /\ a.shot \in Shots /\ a.pins \in PinTables /\ a.lastPin \in Nat
           /\ w.core \in Cores
<1>1. <<>> \o cmds = cmds /\ a.cmds = <<>> /\ w.core \in Cores /\ w.core.cmds = <<>>
  BY DEF Cores, Drafts, Worlds
<1>2. PICK b : b = Issue(a, cmds) OBVIOUS
<1>3. b = [a EXCEPT !.cmds = cmds] BY <1>1, <1>2 DEF Issue
<1>4. b \in Drafts(cmds) BY <1>3 DEF Cores, Drafts
<1>5. b.shot = a.shot /\ b.pins = a.pins /\ b.lastPin = a.lastPin /\ b.cmds = cmds /\ Beside(a, b)
  BY <1>3 DEF Cores, Drafts, Beside
<1>6. Beside(w.core, b) BY <1>5 DEF Beside
<1>7. b # w.core BY <1>1, <1>5
<1>8. Emit(w, b) = [w EXCEPT !.core = ExecuteAll(Snapped(w.core, b.shot, b.pins, b.lastPin), cmds)]
  BY <1>4, <1>6, <1>7, Emitted DEF Beside
<1> QED BY <1>1, <1>2, <1>5, <1>8 DEF Cores, Drafts

\* One command, or none.
LEMMA EmittedOne ==
    ASSUME NEW w \in Worlds, NEW a \in Cores, Beside(w.core, a), NEW cmd,
           NEW d, d = Execute(Snapped(w.core, a.shot, a.pins, a.lastPin), cmd)
    PROVE  Emit(w, Issue(a, <<cmd>>)) = [w EXCEPT !.core = d]
<1> DEFINE cmds == <<cmd>>
<1>1. cmds \in Seq({cmd}) /\ cmds # <<>> OBVIOUS
<1>2. ExecuteAll(Snapped(w.core, a.shot, a.pins, a.lastPin), cmds) = d BY ExecuteShort
<1> HIDE DEF cmds
<1>3. Emit(w, Issue(a, cmds)) =
                [w EXCEPT !.core = ExecuteAll(Snapped(w.core, a.shot, a.pins, a.lastPin), cmds)]
  BY <1>1, EmittedIssue
<1>4. Emit(w, Issue(a, cmds)) = [w EXCEPT !.core = d] BY <1>2, <1>3
<1> QED BY <1>4 DEF cmds

LEMMA WorldFacts ==
    ASSUME NEW w \in Worlds, NEW d \in Cores
    PROVE  /\ [w EXCEPT !.core = d] \in Worlds /\ [w EXCEPT !.core = d].core = d
           /\ [w EXCEPT !.core = d].view = w.view /\ w.core \in Cores /\ w.view \in Views
  BY DEF Worlds

LEMMA ShotChanged ==
    ASSUME NEW c \in Cores, NEW shot \in Shots, NEW a, a = [c EXCEPT !.shot = shot]
    PROVE  a \in Cores /\ Beside(c, a) /\ a.shot = shot /\ a.pins = c.pins /\ a.lastPin = c.lastPin
  BY DEF Cores, Drafts, Beside

LEMMA PinsChanged ==
    ASSUME NEW c \in Cores, NEW pins \in PinTables, NEW a, a = [c EXCEPT !.pins = pins]
    PROVE  a \in Cores /\ Beside(c, a) /\ a.shot = c.shot /\ a.pins = pins /\ a.lastPin = c.lastPin
  BY DEF Cores, Drafts, Beside

\* One command that posts itself.
LEMMA EmittedPost ==
    ASSUME NEW w \in Worlds, NEW a \in Cores, Beside(w.core, a),
           NEW cmd \in Closures, cmd.k \in {"Restore", "BeginEdit", "EndEdit"}
    PROVE  \E d \in Cores :
              /\ Emit(w, Issue(a, <<cmd>>)) = [w EXCEPT !.core = d]
              /\ Told(w.core, d, a.shot, a.pins, <<SyncOf(a.shot, a.pins), cmd>>, {})
              /\ Kept(w.core, d)
<1> DEFINE c == w.core
<1>1. c \in Cores /\ a.shot \in Shots /\ a.pins \in PinTables /\ a.lastPin \in Nat
  BY DEF Worlds, Cores, Drafts
<1> HIDE DEF c
<1>2. PICK s : s = Snapped(c, a.shot, a.pins, a.lastPin) OBVIOUS
<1>3. /\ Told(c, s, a.shot, a.pins, <<SyncOf(a.shot, a.pins)>>, {}) /\ Kept(c, s)
      /\ s.queue = Append(c.queue, SyncOf(a.shot, a.pins)) /\ SyncOf(a.shot, a.pins) \in Closures
  BY <1>1, <1>2, SnappedFacts
<1>4. PICK d : d = Post(s, cmd) OBVIOUS
<1>5. s \in Cores BY <1>3 DEF Told
<1>6. /\ d \in Cores /\ Alike(s, d) /\ d.queue = Append(s.queue, cmd) /\ d.spawned = s.spawned
      /\ d.held = s.held /\ d.pending = s.pending /\ d.images = s.images /\ d.previews = s.previews
  BY <1>4, <1>5, PostFacts
<1>7. d = Execute(s, cmd) BY <1>4, <1>5, PostedFacts
<1>8. Emit(w, Issue(a, <<cmd>>)) = [w EXCEPT !.core = d] BY <1>2, <1>7, EmittedOne DEF c
<1>9. Grows(c.queue, d.queue, <<SyncOf(a.shot, a.pins), cmd>>)
  BY <1>1, <1>3, <1>6, GrowsTwo DEF Cores, Drafts
<1>10. Told(c, d, a.shot, a.pins, <<SyncOf(a.shot, a.pins), cmd>>, {})
  BY <1>3, <1>6, <1>9 DEF Told, Alike
<1>11. Kept(c, d) BY <1>3, <1>6 DEF Kept, HeldKept, PendingKept, ImagesSynced, PreviewsKept, Alike
<1> QED BY <1>6, <1>8, <1>10, <1>11 DEF c

\* No command.
LEMMA EmittedNothing ==
    ASSUME NEW w \in Worlds, NEW a \in Cores, Beside(w.core, a), a # w.core
    PROVE  \E d \in Cores :
              /\ Emit(w, a) = [w EXCEPT !.core = d]
              /\ Told(w.core, d, a.shot, a.pins, <<SyncOf(a.shot, a.pins)>>, {}) /\ Kept(w.core, d)
<1>1. /\ Emit(w, a) = [w EXCEPT !.core = Snapped(w.core, a.shot, a.pins, a.lastPin)]
      /\ a.shot \in Shots /\ a.pins \in PinTables /\ a.lastPin \in Nat
      /\ w.core \in Cores
  BY EmittedPlain
<1>2. PICK s : s = Snapped(w.core, a.shot, a.pins, a.lastPin) OBVIOUS
<1>3. Told(w.core, s, a.shot, a.pins, <<SyncOf(a.shot, a.pins)>>, {}) /\ Kept(w.core, s)
  BY <1>1, <1>2, SnappedFacts
<1> QED BY <1>1, <1>2, <1>3 DEF Told

Quiescent(shot) == [shot EXCEPT !.phase = "Idle"]
Reworked(shot)  == [shot EXCEPT !.phase = "Editing"]
Placed(shot, bounds) == [shot EXCEPT !.phase = "Editing", !.bounds = bounds]
RestoreOf(s)    == [k |-> "Restore", session |-> s]

LEMMA EndedEmit ==
    ASSUME NEW w \in Worlds, NEW s \in Nat
    PROVE  /\ ~ (w.core.shot.session = s /\ Active(w.core)) => Emit(w, Ended(w.core, s)) = w
           /\ w.core.shot.session = s /\ Active(w.core) =>
                \E d \in Cores : LET shot == Quiescent(w.core.shot) IN
                  /\ Emit(w, Ended(w.core, s)) = [w EXCEPT !.core = d]
                  /\ Told(w.core, d, shot, w.core.pins, <<SyncOf(shot, w.core.pins), RestoreOf(s)>>,
                          {})
                  /\ Kept(w.core, d)
<1>1. CASE ~ (w.core.shot.session = s /\ Active(w.core)) BY <1>1 DEF Ended, Emit
<1>2. CASE w.core.shot.session = s /\ Active(w.core)
  <2> DEFINE a == Phase(w.core, "Idle")
             cmd == RestoreOf(s)
  <2>1. Ended(w.core, s) = Issue(a, <<cmd>>) BY <1>2 DEF Ended, RestoreOf
  <2>2. cmd \in Closures /\ cmd.k = "Restore" BY DEF Closures, RestoreOf, Orders
  <2>3. /\ a = [w.core EXCEPT !.shot = Quiescent(w.core.shot)] /\ w.core \in Cores
        /\ Quiescent(w.core.shot) \in Shots
    BY DEF Phase, Quiescent, Worlds, Cores, Drafts, Shots
  <2> HIDE DEF a, cmd
  <2>4. a \in Cores /\ Beside(w.core, a) /\ a.shot = Quiescent(w.core.shot) /\ a.pins = w.core.pins
    BY <2>3, ShotChanged
  <2>5. PICK d \in Cores :
              /\ Emit(w, Issue(a, <<cmd>>)) = [w EXCEPT !.core = d]
              /\ Told(w.core, d, a.shot, a.pins, <<SyncOf(a.shot, a.pins), cmd>>, {})
              /\ Kept(w.core, d)
    BY <2>2, <2>4, EmittedPost
  <2> QED BY <1>2, <2>1, <2>4, <2>5 DEF cmd
<1> QED BY <1>1, <1>2

\* The output a screenshot waits for.
Current(c, s, operation) == Is(c, s, "Output") /\ c.shot.operation = operation

LEMMA CompletedEmit ==
    ASSUME NEW w \in Worlds, NEW s \in Nat, NEW operation \in Nat, NEW result
    PROVE  /\ ~ Current(w.core, s, operation) =>
                Emit(w, Completed(w.core, s, operation, result)) = w
           /\ Current(w.core, s, operation) /\ result = "saved" =>
                \E d \in Cores : LET shot == Quiescent(w.core.shot) IN
                  /\ Emit(w, Completed(w.core, s, operation, result)) = [w EXCEPT !.core = d]
                  /\ Told(w.core, d, shot, w.core.pins, <<SyncOf(shot, w.core.pins), RestoreOf(s)>>,
                          {})
                  /\ Kept(w.core, d)
           /\ Current(w.core, s, operation) /\ result # "saved" =>
                \E d \in Cores : LET shot == Reworked(w.core.shot) IN
                  /\ Emit(w, Completed(w.core, s, operation, result)) = [w EXCEPT !.core = d]
                  /\ Told(w.core, d, shot, w.core.pins, <<SyncOf(shot, w.core.pins)>>, {})
                  /\ Kept(w.core, d)
<1>1. CASE ~ Current(w.core, s, operation) BY <1>1 DEF Completed, Emit, Current
<1>2. CASE Current(w.core, s, operation) /\ result = "saved"
  <2> DEFINE a == Phase(w.core, "Idle")
             cmd == RestoreOf(s)
  <2>1. Completed(w.core, s, operation, result) = Issue(a, <<cmd>>)
    BY <1>2 DEF Completed, RestoreOf, Current
  <2>2. cmd \in Closures /\ cmd.k = "Restore" BY DEF Closures, RestoreOf, Orders
  <2>3. /\ a = [w.core EXCEPT !.shot = Quiescent(w.core.shot)] /\ w.core \in Cores
        /\ Quiescent(w.core.shot) \in Shots
    BY DEF Phase, Quiescent, Worlds, Cores, Drafts, Shots
  <2> HIDE DEF a, cmd
  <2>4. a \in Cores /\ Beside(w.core, a) /\ a.shot = Quiescent(w.core.shot) /\ a.pins = w.core.pins
    BY <2>3, ShotChanged
  <2>5. PICK d \in Cores :
              /\ Emit(w, Issue(a, <<cmd>>)) = [w EXCEPT !.core = d]
              /\ Told(w.core, d, a.shot, a.pins, <<SyncOf(a.shot, a.pins), cmd>>, {})
              /\ Kept(w.core, d)
    BY <2>2, <2>4, EmittedPost
  <2> QED BY <1>2, <2>1, <2>4, <2>5 DEF cmd
<1>3. CASE Current(w.core, s, operation) /\ result # "saved"
  <2> DEFINE a == Phase(w.core, "Editing")
             shot == Reworked(w.core.shot)
  <2>1. Completed(w.core, s, operation, result) = a BY <1>3 DEF Completed, Current
  <2>2. a = [w.core EXCEPT !.shot = shot] /\ w.core \in Cores /\ shot \in Shots
        /\ shot.phase = "Editing" /\ w.core.shot.phase = "Output"
    BY <1>3 DEF Phase, Worlds, Cores, Drafts, Shots, Is, Reworked, Current
  <2> HIDE DEF a, shot
  <2>3. a \in Cores /\ Beside(w.core, a) /\ a.shot = shot /\ a.pins = w.core.pins
    BY <2>2, ShotChanged
  <2>4. a # w.core BY <2>2, <2>3
  <2>5. PICK d \in Cores :
              /\ Emit(w, a) = [w EXCEPT !.core = d]
              /\ Told(w.core, d, a.shot, a.pins, <<SyncOf(a.shot, a.pins)>>, {}) /\ Kept(w.core, d)
    BY <2>3, <2>4, EmittedNothing
  <2> QED BY <1>3, <2>1, <2>3, <2>5 DEF shot
<1> QED BY <1>1, <1>2, <1>3

LEMMA SelectedEmit ==
    ASSUME NEW w \in Worlds, NEW s \in Nat, NEW bounds \in Nat
    PROVE  \/ Emit(w, Selected(w.core, s, bounds)) = w
              /\ (Is(w.core, s, "Selecting") => FALSE)
           \/ /\ Is(w.core, s, "Selecting") \/ Is(w.core, s, "Editing")
              /\ \E d \in Cores : LET shot == Placed(w.core.shot, bounds) IN
                  /\ Emit(w, Selected(w.core, s, bounds)) = [w EXCEPT !.core = d]
                  /\ Told(w.core, d, shot, w.core.pins, <<SyncOf(shot, w.core.pins)>>, {})
                  /\ Kept(w.core, d)
<1>1. CASE ~ (Is(w.core, s, "Selecting") \/ Is(w.core, s, "Editing")) BY <1>1 DEF Selected, Emit
<1>2. CASE Is(w.core, s, "Selecting") \/ Is(w.core, s, "Editing")
  <2> DEFINE a == [Phase(w.core, "Editing") EXCEPT !.shot.bounds = bounds]
             shot == Placed(w.core.shot, bounds)
  <2>1. Selected(w.core, s, bounds) = a BY <1>2 DEF Selected
  <2>2. w.core \in Cores /\ shot \in Shots /\ shot.phase = "Editing"
    BY <1>2 DEF Worlds, Cores, Drafts, Shots, Placed
  <2>3. a = [w.core EXCEPT !.shot = shot] BY <2>2 DEF Phase, Cores, Drafts, Shots, Placed
  <2> HIDE DEF a, shot
  <2>4. a \in Cores /\ Beside(w.core, a) /\ a.shot = shot /\ a.pins = w.core.pins
    BY <2>2, <2>3, ShotChanged
  <2>5. CASE a = w.core BY <2>1, <2>2, <2>4, <2>5 DEF Is, Emit
  <2>6. CASE a # w.core
    <3>1. PICK d \in Cores :
              /\ Emit(w, a) = [w EXCEPT !.core = d]
              /\ Told(w.core, d, a.shot, a.pins, <<SyncOf(a.shot, a.pins)>>, {}) /\ Kept(w.core, d)
      BY <2>4, <2>6, EmittedNothing
    <3> QED BY <1>2, <2>1, <2>4, <3>1 DEF shot
  <2> QED BY <2>5, <2>6
<1> QED BY <1>1, <1>2

LEMMA RequestedEmit ==
    ASSUME NEW w \in Worlds
    PROVE  /\ Active(w.core) => Emit(w, Requested(w.core)) = w
           /\ ~Active(w.core) =>
                \E d \in Cores : LET s    == w.core.shot.session + 1
                                      shot == [session |-> s, phase |-> "Preparing",
                                               operation |-> 0, bounds |-> 0] IN
                  /\ Emit(w, Requested(w.core)) = [w EXCEPT !.core = d]
                  /\ Told(w.core, d, shot, w.core.pins,
                          <<SyncOf(shot, w.core.pins), [k |-> "Suspend", session |-> s]>>,
                          {[k |-> "prepare", session |-> s]})
                  /\ d.held = [session |-> s, frames |-> FALSE]
                  /\ PendingKept(w.core, d) /\ ImagesSynced(w.core, d) /\ PreviewsKept(w.core, d)
<1>1. CASE Active(w.core) BY <1>1 DEF Requested, Emit
<1>2. CASE ~Active(w.core)
  <2>0. PICK c, n : c = w.core /\ n = w.core.shot.session + 1 OBVIOUS
  <2> DEFINE shot == [session |-> n, phase |-> "Preparing", operation |-> 0, bounds |-> 0]
             a == [c EXCEPT !.shot = shot]
             cmd == [k |-> "Prepare", session |-> n]
             x == [k |-> "Suspend", session |-> n]
  <2>1. Requested(c) = Issue(a, <<cmd>>) BY <1>2, <2>0 DEF Requested
  <2>2. c \in Cores /\ n \in Nat /\ shot \in Shots /\ c.pins \in PinTables /\ x \in Closures
    BY <2>0 DEF Worlds, Cores, Drafts, Shots, Closures
  <2> HIDE DEF shot
  <2>3. a \in Cores /\ Beside(c, a) /\ a.shot = shot /\ a.pins = c.pins /\ a.lastPin = c.lastPin
    BY <2>2, ShotChanged
  <2>4. a.lastPin \in Nat BY <2>3 DEF Cores, Drafts
  <2> HIDE DEF a
  <2>5. PICK s : s = Snapped(c, a.shot, a.pins, a.lastPin) OBVIOUS
  <2>6. /\ Told(c, s, shot, c.pins, <<SyncOf(shot, c.pins)>>, {}) /\ Kept(c, s)
        /\ s.queue = Append(c.queue, SyncOf(shot, c.pins)) /\ SyncOf(shot, c.pins) \in Closures
    BY <2>2, <2>3, <2>4, <2>5, SnappedFacts
  <2>7. PICK d : d = Execute(s, cmd) OBVIOUS
  <2>8. /\ d \in Cores /\ Alike(s, d) /\ d.queue = Append(s.queue, x)
        /\ d.spawned = s.spawned \cup {[k |-> "prepare", session |-> n]}
        /\ d.held = [session |-> n, frames |-> FALSE] /\ d.pending = s.pending
        /\ d.images = s.images /\ d.previews = s.previews
    <3>1. s \in Cores BY <2>6 DEF Told
    <3> HIDE DEF x
    <3>2. /\ d \in Cores /\ Alike(s, d)
          /\ d.queue = Append(s.queue, [k |-> "Suspend", session |-> n])
          /\ d.spawned = s.spawned \cup {[k |-> "prepare", session |-> n]}
          /\ d.held = [session |-> n, frames |-> FALSE] /\ d.pending = s.pending
          /\ d.images = s.images /\ d.previews = s.previews
      BY <2>2, <2>7, <3>1, PrepareFacts
    <3> QED BY <3>2 DEF x
  <2>9. Emit(w, Issue(a, <<cmd>>)) = [w EXCEPT !.core = d] BY <2>0, <2>3, <2>5, <2>7, EmittedOne
  <2>10. Grows(c.queue, d.queue, <<SyncOf(shot, c.pins), x>>)
    <3>1. c.queue \in Seq(Closures) BY <2>2 DEF Cores, Drafts
    <3> HIDE DEF x
    <3> QED BY <2>2, <2>6, <2>8, <3>1, GrowsTwo
  <2>11. Told(c, d, shot, c.pins, <<SyncOf(shot, c.pins), x>>, {[k |-> "prepare", session |-> n]})
    BY <2>6, <2>8, <2>10 DEF Told, Alike
  <2>12. PendingKept(c, d) /\ ImagesSynced(c, d) /\ PreviewsKept(c, d)
    BY <2>6, <2>8 DEF Kept, PendingKept, ImagesSynced, PreviewsKept, Alike
  <2> QED BY <1>2, <2>0, <2>1, <2>8, <2>9, <2>11, <2>12 DEF shot
<1> QED BY <1>1, <1>2

Kinds == {"copy", "pin"}
Asked(c, s, operation) == Is(c, s, "Editing") /\ operation > c.shot.operation
Outputting(shot, operation) == [shot EXCEPT !.phase = "Output", !.operation = operation]
OutputOf(s, operation, kind) == [k |-> "output", session |-> s, operation |-> operation,
                                 kind |-> kind]

LEMMA OutputRequestedEmit ==
    ASSUME NEW w \in Worlds, NEW s \in Nat, NEW operation \in Nat, NEW kind \in Kinds, NEW bounds,
           Active(w.core) => Holds(w.core, w.core.shot.session)
    PROVE  \/ Emit(w, OutputRequested(w.core, s, operation, kind, bounds)) = w
           \/ /\ Asked(w.core, s, operation)
              /\ \E d \in Cores : LET shot == Outputting(w.core.shot, operation) IN
                  /\ Emit(w, OutputRequested(w.core, s, operation, kind, bounds))
                      = [w EXCEPT !.core = d]
                  /\ Told(w.core, d, shot, w.core.pins, <<SyncOf(shot, w.core.pins)>>,
                          {OutputOf(s, operation, kind)})
                  /\ Kept(w.core, d)
<1> DEFINE c == w.core
<1>1. CASE ~ (Is(c, s, "Editing") /\ operation > c.shot.operation /\ c.shot.bounds = bounds)
  BY <1>1 DEF OutputRequested, Emit
<1>2. CASE Is(c, s, "Editing") /\ operation > c.shot.operation /\ c.shot.bounds = bounds
  <2> DEFINE shot == Outputting(c.shot, operation)
             a == [Phase(c, "Output") EXCEPT !.shot.operation = operation]
             cmd == [k |-> "Output", session |-> s, operation |-> operation, kind |-> kind]
  <2>1. OutputRequested(c, s, operation, kind, bounds) = Issue(a, <<cmd>>)
    BY <1>2 DEF OutputRequested
  <2>2. c \in Cores /\ shot \in Shots /\ c.pins \in PinTables /\ shot.session = c.shot.session
        /\ shot.phase = "Output"
    BY DEF Worlds, Cores, Drafts, Shots, Outputting
  <2>3. a = [c EXCEPT !.shot = shot] BY <2>2 DEF Phase, Cores, Drafts, Shots, Outputting
  <2> HIDE DEF shot, a
  <2>4. a \in Cores /\ Beside(c, a) /\ a.shot = shot /\ a.pins = c.pins /\ a.lastPin = c.lastPin
    BY <2>2, <2>3, ShotChanged
  <2>5. a.lastPin \in Nat BY <2>4 DEF Cores, Drafts
  <2>6. PICK t : t = Snapped(c, a.shot, a.pins, a.lastPin) OBVIOUS
  <2>7. Told(c, t, shot, c.pins, <<SyncOf(shot, c.pins)>>, {}) /\ Kept(c, t)
    BY <2>2, <2>4, <2>5, <2>6, SnappedFacts
  <2>8. Holds(t, s) BY <1>2, <2>2, <2>7 DEF Is, Active, Told, Kept, HeldKept, Holds
  <2>9. PICK d : d = Execute(t, cmd) OBVIOUS
  <2>10. /\ d \in Cores /\ Alike(t, d) /\ d.queue = t.queue
         /\ d.spawned = t.spawned \cup {OutputOf(s, operation, kind)}
         /\ d.held = t.held /\ d.pending = t.pending /\ d.images = t.images
         /\ d.previews = t.previews
    <3>1. t \in Cores BY <2>7 DEF Told
    <3>2. PICK job \in Jobs : job = OutputOf(s, operation, kind) BY DEF OutputOf, Jobs, Kinds
    <3>3. job = [k |-> "output", session |-> cmd.session, operation |-> cmd.operation,
                 kind |-> cmd.kind]
          /\ Holds(t, cmd.session) /\ cmd.k = "Output"
      BY <2>8, <3>2 DEF OutputOf
    <3> HIDE DEF cmd
    <3> QED BY <2>9, <3>1, <3>2, <3>3, OutputFacts
  <2>11. Emit(w, Issue(a, <<cmd>>)) = [w EXCEPT !.core = d] BY <2>4, <2>6, <2>9, EmittedOne
  <2>12. Told(c, d, shot, c.pins, <<SyncOf(shot, c.pins)>>, {OutputOf(s, operation, kind)})
    BY <2>7, <2>10 DEF Told, Alike
  <2>13. Kept(c, d)
    BY <2>7, <2>10 DEF Kept, HeldKept, PendingKept, ImagesSynced, PreviewsKept, Alike
  <2> QED BY <1>2, <2>1, <2>10, <2>11, <2>12, <2>13 DEF shot, Asked
<1> QED BY <1>1, <1>2

\* The pins.
PinSet(pins, id, pin) == [pins EXCEPT ![id] = pin]

LEMMA PinTableFacts ==
    ASSUME NEW pins \in PinTables
    PROVE  /\ DOMAIN pins \subseteq Nat /\ IsFiniteSet(DOMAIN pins)
           /\ \A id \in DOMAIN pins : id \in Nat /\ pins[id] \in Pins
  BY DEF PinTables

LEMMA PinSetFacts ==
    ASSUME NEW pins \in PinTables, NEW id \in DOMAIN pins, NEW pin \in Pins
    PROVE  /\ PinSet(pins, id, pin) \in PinTables /\ DOMAIN PinSet(pins, id, pin) = DOMAIN pins
           /\ PinSet(pins, id, pin)[id] = pin
           /\ \A other \in DOMAIN pins : other # id => PinSet(pins, id, pin)[other] = pins[other]
<1>1. PICK ids \in SUBSET Nat : pins \in [ids -> Pins] /\ IsFiniteSet(ids) BY DEF PinTables
<1>2. PinSet(pins, id, pin) \in [ids -> Pins] /\ DOMAIN PinSet(pins, id, pin) = DOMAIN pins
  BY <1>1 DEF PinSet
<1>3. PinSet(pins, id, pin) \in PinTables BY <1>1, <1>2 DEF PinTables
<1> QED BY <1>1, <1>2, <1>3 DEF PinSet

LEMMA PinPutFacts ==
    ASSUME NEW pins \in PinTables, NEW id \in Nat, NEW pin \in Pins
    PROVE  /\ Put(pins, id, pin) \in PinTables /\ DOMAIN Put(pins, id, pin) = DOMAIN pins \cup {id}
           /\ Put(pins, id, pin)[id] = pin
           /\ \A other \in DOMAIN pins : other # id => Put(pins, id, pin)[other] = pins[other]
<1>1. PICK ids \in SUBSET Nat : pins \in [ids -> Pins] /\ IsFiniteSet(ids) BY DEF PinTables
<1>2. IsFiniteSet(ids \cup {id}) BY <1>1, FS_AddElement
<1>3. Put(pins, id, pin) \in [ids \cup {id} -> Pins] /\ ids \cup {id} \in SUBSET Nat BY <1>1 DEF Put
<1>4. Put(pins, id, pin) \in PinTables BY <1>2, <1>3 DEF PinTables
<1> QED BY <1>1, <1>3, <1>4 DEF Put

LEMMA PinGoneFacts ==
    ASSUME NEW pins \in PinTables, NEW id
    PROVE  /\ Without(pins, id) \in PinTables /\ DOMAIN Without(pins, id) = DOMAIN pins \ {id}
           /\ \A other \in DOMAIN pins : other # id => Without(pins, id)[other] = pins[other]
<1>1. PICK ids \in SUBSET Nat : pins \in [ids -> Pins] /\ IsFiniteSet(ids) BY DEF PinTables
<1>2. IsFiniteSet(ids \ {id}) BY <1>1, FS_RemoveElement
<1>3. Without(pins, id) \in [ids \ {id} -> Pins] /\ ids \ {id} \in SUBSET Nat
  BY <1>1 DEF Without, Restrict
<1>4. Without(pins, id) \in PinTables BY <1>2, <1>3 DEF PinTables
<1> QED BY <1>1, <1>3, <1>4 DEF Without, Restrict

EndEditOf(id, edit) == [k |-> "EndEdit", id |-> id, edit |-> edit]
Unedited(pin) == [pin EXCEPT !.editing = 0]

LEMMA EditEndedEmit ==
    ASSUME NEW w \in Worlds, NEW id \in Nat, NEW edit \in Nat
    PROVE  /\ ~ EditsIn(w.core, id, edit) => Emit(w, EditEnded(w.core, id, edit)) = w
           /\ EditsIn(w.core, id, edit) =>
                \E d \in Cores : LET pins == PinSet(w.core.pins, id, Unedited(w.core.pins[id])) IN
                  /\ Emit(w, EditEnded(w.core, id, edit)) = [w EXCEPT !.core = d]
                  /\ Told(w.core, d, w.core.shot, pins,
                          <<SyncOf(w.core.shot, pins), EndEditOf(id, edit)>>, {})
                  /\ Kept(w.core, d)
<1> DEFINE c == w.core
<1>1. CASE ~ EditsIn(c, id, edit) BY <1>1 DEF EditEnded, Emit
<1>2. CASE EditsIn(c, id, edit)
  <2> DEFINE pins == PinSet(c.pins, id, Unedited(c.pins[id]))
             a == [c EXCEPT !.pins[id].editing = 0]
             cmd == EndEditOf(id, edit)
  <2>1. EditEnded(c, id, edit) = Issue(a, <<cmd>>) BY <1>2 DEF EditEnded, EndEditCmd, EndEditOf
  <2>2. c \in Cores /\ c.pins \in PinTables /\ cmd \in Closures /\ cmd.k = "EndEdit"
    BY DEF Worlds, Cores, Drafts, Closures, Loans, EndEditOf
  <2>3. a = [c EXCEPT !.pins = pins] BY <2>2 DEF Cores, Drafts, PinSet, Unedited
  <2>4. pins \in PinTables
    <3>1. id \in DOMAIN c.pins /\ Unedited(c.pins[id]) \in Pins
      BY <1>2, <2>2, PinTableFacts DEF EditsIn, Has, Unedited, Pins
    <3> QED BY <2>2, <3>1, PinSetFacts
  <2> HIDE DEF pins, a, cmd
  <2>5. a \in Cores /\ Beside(c, a) /\ a.shot = c.shot /\ a.pins = pins
    BY <2>2, <2>3, <2>4, PinsChanged
  <2>6. PICK d \in Cores :
              /\ Emit(w, Issue(a, <<cmd>>)) = [w EXCEPT !.core = d]
              /\ Told(w.core, d, a.shot, a.pins, <<SyncOf(a.shot, a.pins), cmd>>, {})
              /\ Kept(w.core, d)
    BY <2>2, <2>5, EmittedPost
  <2> QED BY <1>2, <2>1, <2>5, <2>6 DEF cmd, pins
<1> QED BY <1>1, <1>2

\* A command more.
LEMMA PostAfter ==
    ASSUME NEW c \in Cores, NEW s \in Cores, NEW shot, NEW pins, NEW x \in Closures,
           NEW cmd \in Closures,
           Told(c, s, shot, pins, <<x>>, {}), Kept(c, s), s.queue = Append(c.queue, x),
           NEW d, d = Post(s, cmd)
    PROVE  Told(c, d, shot, pins, <<x, cmd>>, {}) /\ Kept(c, d) /\ d \in Cores
<1>1. /\ d \in Cores /\ Alike(s, d) /\ d.queue = Append(s.queue, cmd) /\ d.spawned = s.spawned
      /\ d.held = s.held /\ d.pending = s.pending /\ d.images = s.images /\ d.previews = s.previews
  BY PostFacts
<1>2. Grows(c.queue, d.queue, <<x, cmd>>) BY <1>1, GrowsTwo DEF Cores, Drafts
<1>3. Told(c, d, shot, pins, <<x, cmd>>, {}) BY <1>1, <1>2 DEF Told, Alike
<1>4. Kept(c, d) BY <1>1 DEF Kept, HeldKept, PendingKept, ImagesSynced, PreviewsKept, Alike
<1> QED BY <1>1, <1>3, <1>4

PreviewOf(id, revision)      == [k |-> "preview", id |-> id, revision |-> revision]
Pictures(c, id, revision)    == IF id \in c.images THEN {PreviewOf(id, revision)} ELSE {}
PreviewSet(c, d, id, revision) ==
    /\ id \in c.images => id \in DOMAIN d.previews /\ d.previews[id] = revision
    /\ \A other \in DOMAIN d.pins \cap DOMAIN c.previews :
          other # id => other \in DOMAIN d.previews /\ d.previews[other] = c.previews[other]
Repainted(c, d, id, revision) ==
    HeldKept(c, d) /\ PendingKept(c, d) /\ ImagesSynced(c, d) /\ PreviewSet(c, d, id, revision)

LEMMA RenderAfter ==
    ASSUME NEW c \in Cores, NEW s \in Cores, NEW shot, NEW pins, NEW new,
           Told(c, s, shot, pins, new, {}), Kept(c, s), NEW id \in Nat, id \in DOMAIN pins,
           NEW revision \in Nat,
           NEW d, d = Execute(s, [k |-> "Render", id |-> id, revision |-> revision])
    PROVE  /\ Told(c, d, shot, pins, new, Pictures(c, id, revision))
           /\ Repainted(c, d, id, revision) /\ d \in Cores
<1>1. /\ d \in Cores /\ Alike(s, d) /\ d.queue = s.queue /\ Drawn(s, d, id, revision)
      /\ d.held = s.held /\ d.pending = s.pending /\ d.images = s.images
  BY RenderFacts
<1>2. id \in s.images <=> id \in c.images BY DEF Kept, ImagesSynced, Told
<1>3. d.spawned = c.spawned \cup Pictures(c, id, revision)
  BY <1>1, <1>2 DEF Drawn, Pictures, PreviewOf, Told
<1>4. Told(c, d, shot, pins, new, Pictures(c, id, revision)) BY <1>1, <1>3 DEF Told, Alike
<1>5. PreviewSet(c, d, id, revision) BY <1>1, <1>2 DEF Drawn, Kept, PreviewsKept, Alike, PreviewSet
<1>6. HeldKept(c, d) /\ PendingKept(c, d) /\ ImagesSynced(c, d)
  BY SMTT(30), <1>1 DEF Kept, HeldKept, PendingKept, ImagesSynced, Alike
<1> QED BY <1>1, <1>4, <1>5, <1>6 DEF Repainted

\* What the dispatch of a changed table of pins starts from.
LEMMA PinsSnapped ==
    ASSUME NEW w \in Worlds, NEW pins \in PinTables, NEW a, a = [w.core EXCEPT !.pins = pins],
           NEW s, s = Snapped(w.core, a.shot, a.pins, a.lastPin)
    PROVE  /\ a \in Cores /\ Beside(w.core, a) /\ w.core \in Cores /\ s \in Cores
           /\ Told(w.core, s, w.core.shot, pins, <<SyncOf(w.core.shot, pins)>>, {})
           /\ Kept(w.core, s)
           /\ s.queue = Append(w.core.queue, SyncOf(w.core.shot, pins))
           /\ SyncOf(w.core.shot, pins) \in Closures
<1>1. w.core \in Cores BY DEF Worlds
<1>2. PICK c \in Cores : c = w.core BY <1>1
<1>3. a \in Cores /\ Beside(c, a) /\ a.shot = c.shot /\ a.pins = pins /\ a.lastPin = c.lastPin
  BY <1>2, PinsChanged
<1>4. c.shot \in Shots /\ c.lastPin \in Nat /\ s = Snapped(c, c.shot, pins, c.lastPin)
  BY <1>2, <1>3 DEF Cores, Drafts
<1>5. PICK shot \in Shots, last \in Nat : shot = c.shot /\ last = c.lastPin BY <1>4
<1>6. s = Snapped(c, shot, pins, last) BY <1>4, <1>5
<1>7. /\ Told(c, s, shot, pins, <<SyncOf(shot, pins)>>, {}) /\ Kept(c, s)
      /\ s.queue = Append(c.queue, SyncOf(shot, pins)) /\ SyncOf(shot, pins) \in Closures
  BY <1>6, SnappedFacts
<1> QED BY <1>2, <1>3, <1>5, <1>7 DEF Told

ChangedPin(pin, document) == [pin EXCEPT !.document = document, !.revision = pin.revision + 1]

\* What DocumentChanged takes.
Taken(c, id, document) ==
    /\ Has(c, id)
    /\ LET old == c.pins[id].document IN
       old = None \/ (document.request > old.request /\ document.session = c.pins[id].lastEdit)

LEMMA DocumentEmit ==
    ASSUME NEW w \in Worlds, NEW id \in Nat, NEW document \in Documents
    PROVE  /\ ~ Taken(w.core, id, document) => Emit(w, DocumentChanged(w.core, id, document)) = w
           /\ Taken(w.core, id, document) =>
                \E d \in Cores :
                  LET pins == PinSet(w.core.pins, id, ChangedPin(w.core.pins[id], document))
                      r    == w.core.pins[id].revision + 1
                  IN /\ Emit(w, DocumentChanged(w.core, id, document)) = [w EXCEPT !.core = d]
                     /\ Told(w.core, d, w.core.shot, pins, <<SyncOf(w.core.shot, pins)>>,
                             Pictures(w.core, id, r))
                     /\ Repainted(w.core, d, id, r)
<1>0. PICK c \in Cores : c = w.core /\ c.pins \in PinTables BY DEF Worlds, Cores, Drafts
<1>1. CASE ~ Taken(c, id, document)
  <2>1. DocumentChanged(c, id, document) = c
    BY <1>0, <1>1, PinTableFacts DEF DocumentChanged, Has, Pins, Taken, Documents
  <2> QED BY <1>0, <1>1, <2>1 DEF Emit
<1>2. CASE Taken(c, id, document)
  <2>1. id \in DOMAIN c.pins /\ c.pins[id] \in Pins BY <1>0, <1>2, PinTableFacts DEF Taken, Has
  <2>2. PICK r \in Nat : r = c.pins[id].revision + 1 BY <2>1 DEF Pins
  <2>3. ChangedPin(c.pins[id], document) \in Pins /\ ChangedPin(c.pins[id], document).revision = r
    BY <2>1, <2>2 DEF Pins, ChangedPin
  <2>4. PICK pins : pins = PinSet(c.pins, id, ChangedPin(c.pins[id], document)) OBVIOUS
  <2>5. pins \in PinTables /\ DOMAIN pins = DOMAIN c.pins /\ pins[id].revision = r
    BY <1>0, <2>1, <2>3, <2>4, PinSetFacts
  <2>6. PICK a : a = [c EXCEPT !.pins = pins] OBVIOUS
  <2>7. PICK s : s = Snapped(c, a.shot, a.pins, a.lastPin) OBVIOUS
  <2>8. /\ a \in Cores /\ Beside(c, a) /\ s \in Cores
        /\ Told(c, s, c.shot, pins, <<SyncOf(c.shot, pins)>>, {}) /\ Kept(c, s)
    BY <1>0, <2>5, <2>6, <2>7, PinsSnapped
  <2>9. PICK cmd : cmd = [k |-> "Render", id |-> id, revision |-> r] OBVIOUS
  <2>10. DocumentChanged(c, id, document) = Issue(a, <<cmd>>)
    <3>1. c.pins[id].document # None => c.pins[id].document \in Documents BY <2>1 DEF Pins
    <3>2. a.pins = pins BY <2>6 DEF Cores, Drafts
    <3>3. RenderCmd(a, id) = cmd BY <2>5, <2>9, <3>2 DEF RenderCmd
    <3>4. a = [c EXCEPT !.pins[id] = [c.pins[id] EXCEPT !.document = document,
                                                         !.revision = c.pins[id].revision + 1]]
      BY <2>4, <2>6 DEF PinSet, ChangedPin
    <3> QED BY <1>2, <3>1, <3>3, <3>4 DEF DocumentChanged, Taken, Documents
  <2>11. PICK d : d = Execute(s, cmd) OBVIOUS
  <2>12. Told(c, d, c.shot, pins, <<SyncOf(c.shot, pins)>>, Pictures(c, id, r))
             /\ Repainted(c, d, id, r)
         /\ d \in Cores
    BY <2>1, <2>5, <2>8, <2>9, <2>11, RenderAfter
  <2>13. Emit(w, Issue(a, <<cmd>>)) = [w EXCEPT !.core = d] BY <1>0, <2>7, <2>8, <2>11, EmittedOne
  <2> QED BY <1>0, <1>2, <2>2, <2>4, <2>10, <2>12, <2>13
<1> QED BY <1>0, <1>1, <1>2

\* Two commands.
LEMMA EmittedTwo ==
    ASSUME NEW w \in Worlds, NEW a \in Cores, Beside(w.core, a), NEW first, NEW second,
           NEW d, d = Execute(Execute(Snapped(w.core, a.shot, a.pins, a.lastPin), first), second)
    PROVE  Emit(w, Issue(a, <<first, second>>)) = [w EXCEPT !.core = d]
<1> DEFINE cmds == <<first, second>>
<1>1. cmds \in Seq({first, second}) /\ cmds # <<>> OBVIOUS
<1>2. ExecuteAll(Snapped(w.core, a.shot, a.pins, a.lastPin), cmds) = d
  <2>1. PICK c : c = Snapped(w.core, a.shot, a.pins, a.lastPin) OBVIOUS
  <2>2. ExecuteAll(c, <<first, second>>) = Execute(Execute(c, first), second) BY ExecuteTwo
  <2> QED BY <2>1, <2>2
<1> HIDE DEF cmds
<1>3. Emit(w, Issue(a, cmds)) =
                [w EXCEPT !.core = ExecuteAll(Snapped(w.core, a.shot, a.pins, a.lastPin), cmds)]
  BY <1>1, EmittedIssue
<1>4. Emit(w, Issue(a, cmds)) = [w EXCEPT !.core = d] BY <1>2, <1>3
<1> QED BY <1>4 DEF cmds

LEMMA TwoCommands == ASSUME NEW x, NEW y PROVE <<x>> \o <<y>> = <<x, y>>
<1> DEFINE S == {x, y}
           p == <<x>> \o <<y>>
<1>1. <<x>> \in Seq(S) /\ <<y>> \in Seq(S) /\ Len(<<x>>) = 1 /\ Len(<<y>>) = 1
      /\ <<x>>[1] = x /\ <<y>>[1] = y
  OBVIOUS
<1>2. p \in Seq(S) /\ Len(p) = 2 /\ p[1] = x /\ p[2] = y BY <1>1
<1>3. <<x, y>> \in Seq(S) /\ Len(<<x, y>>) = 2 /\ <<x, y>>[1] = x /\ <<x, y>>[2] = y OBVIOUS
<1> HIDE DEF p, S
<1>4. \A i \in 1..2 : p[i] = <<x, y>>[i] BY <1>2, <1>3
<1>5. p = <<x, y>> BY <1>2, <1>3, <1>4
<1> QED BY <1>5 DEF p

HiddenPin(pin, hidden) ==
    [pin EXCEPT !.hidden = hidden, !.editing = 0,
                !.revision = IF pin.document # None THEN pin.revision + 1 ELSE pin.revision]
\* The end of the edit a pin is in, if there is one.

LEMMA VisibilityEmit ==
    ASSUME NEW w \in Worlds, NEW id \in Nat, NEW hidden \in BOOLEAN
    PROVE  \/ Emit(w, VisibilityChanged(w.core, id, hidden)) = w
           \/ /\ Has(w.core, id)
              /\ \E d \in Cores :
                  LET pin  == w.core.pins[id]
                      pins == PinSet(w.core.pins, id, HiddenPin(pin, hidden))
                  IN /\ Emit(w, VisibilityChanged(w.core, id, hidden)) = [w EXCEPT !.core = d]
                     /\ Told(w.core, d, w.core.shot, pins,
                             IF pin.editing # 0
                                 THEN <<SyncOf(w.core.shot, pins), EndEditOf(id, pin.editing)>>
                                                ELSE <<SyncOf(w.core.shot, pins)>>,
                             IF pin.document # None THEN Pictures(w.core, id, pin.revision + 1)
                                 ELSE {})
                     /\ IF pin.document # None THEN Repainted(w.core, d, id, pin.revision + 1)
                                               ELSE Kept(w.core, d)
<1>0. PICK c \in Cores : c = w.core /\ c.pins \in PinTables BY DEF Worlds, Cores, Drafts
<1>1. CASE ~ Has(c, id) \/ c.pins[id].hidden = hidden
  BY SMTT(30), <1>0, <1>1 DEF VisibilityChanged, Emit
<1>2. CASE Has(c, id) /\ c.pins[id].hidden # hidden
  <2>1. PICK pin \in Pins : id \in DOMAIN c.pins /\ pin = c.pins[id]
    BY <1>0, <1>2, PinTableFacts DEF Has
  <2>2. PICK r \in Nat : r = IF pin.document # None THEN pin.revision + 1 ELSE pin.revision
    BY <2>1 DEF Pins
  <2>3. HiddenPin(pin, hidden) \in Pins /\ HiddenPin(pin, hidden).revision = r
        /\ HiddenPin(pin, hidden).hidden = hidden
    BY <2>1, <2>2 DEF Pins, HiddenPin
  <2>4. PICK pins : pins = PinSet(c.pins, id, HiddenPin(pin, hidden)) OBVIOUS
  <2>5. pins \in PinTables /\ DOMAIN pins = DOMAIN c.pins /\ pins[id] = HiddenPin(pin, hidden)
    BY <1>0, <2>1, <2>3, <2>4, PinSetFacts
  <2>6. PICK a : a = [c EXCEPT !.pins = pins] OBVIOUS
  <2>7. PICK s : s = Snapped(c, a.shot, a.pins, a.lastPin) OBVIOUS
  <2>8. PICK x : x = SyncOf(c.shot, pins) OBVIOUS
  <2>9. /\ a \in Cores /\ Beside(c, a) /\ s \in Cores
        /\ Told(c, s, c.shot, pins, <<x>>, {}) /\ Kept(c, s)
        /\ s.queue = Append(c.queue, x) /\ x \in Closures
    BY <1>0, <2>5, <2>6, <2>7, <2>8, PinsSnapped
  <2>10. a # c /\ a.pins = pins BY <1>2, <2>3, <2>5, <2>6 DEF Cores, Drafts
  <2>11. PICK ended, render : ended = EndEditOf(id, pin.editing)
                           /\ render = [k |-> "Render", id |-> id, revision |-> r]
    OBVIOUS
  <2>12. VisibilityChanged(c, id, hidden) =
           Issue(a, (IF pin.editing # 0 THEN <<ended>> ELSE <<>>) \o (IF pin.document # None
                                                                      THEN <<render>> ELSE <<>>))
    BY <1>2, <2>1, <2>3, <2>4, <2>5, <2>6, <2>10, <2>11 DEF PinSet, HiddenPin, RenderCmd,
       EndEditCmd, EndEditOf, VisibilityChanged
  <2>13. ended \in Closures /\ ended.k = "EndEdit"
    BY <2>1, <2>11 DEF Closures, Loans, EndEditOf, Pins
  <2>14. PICK e : e = Post(s, ended) OBVIOUS
  <2>15. /\ e = Execute(s, ended) /\ e \in Cores /\ Told(c, e, c.shot, pins, <<x, ended>>, {})
         /\ Kept(c, e)
    BY <2>9, <2>13, <2>14, PostedFacts, PostAfter
  <2>16. CASE pin.editing = 0 /\ pin.document = None
    <3>1. VisibilityChanged(c, id, hidden) = a BY <2>9, <2>12, <2>16 DEF Cores, Drafts, Issue
    <3>2. Emit(w, a) = [w EXCEPT !.core = s] BY SMTT(30), <1>0, <2>7, <2>9, <2>10, EmittedPlain
    <3> QED BY <1>0, <1>2, <2>1, <2>4, <2>8, <2>9, <2>16, <3>1, <3>2
  <2>17. CASE pin.editing # 0 /\ pin.document = None
    <3>1. VisibilityChanged(c, id, hidden) = Issue(a, <<ended>>) BY <2>12, <2>17
    <3>2. Emit(w, Issue(a, <<ended>>)) = [w EXCEPT !.core = e]
      BY <1>0, <2>7, <2>9, <2>15, EmittedOne
    <3> QED BY <1>0, <1>2, <2>1, <2>4, <2>8, <2>11, <2>15, <2>17, <3>1, <3>2
  <2>18. CASE pin.editing = 0 /\ pin.document # None
    <3>1. VisibilityChanged(c, id, hidden) = Issue(a, <<render>>) BY <2>12, <2>18
    <3>2. PICK d : d = Execute(s, render) OBVIOUS
    <3>3. /\ Told(c, d, c.shot, pins, <<x>>, Pictures(c, id, r)) /\ Repainted(c, d, id, r)
          /\ d \in Cores
      BY <2>1, <2>5, <2>9, <2>11, <3>2, RenderAfter
    <3>4. Emit(w, Issue(a, <<render>>)) = [w EXCEPT !.core = d]
      BY SMTT(30), <1>0, <2>7, <2>9, <3>2, EmittedOne
    <3> QED BY <1>0, <1>2, <2>1, <2>2, <2>4, <2>8, <2>18, <3>1, <3>3, <3>4
  <2>19. CASE pin.editing # 0 /\ pin.document # None
    <3>1. VisibilityChanged(c, id, hidden) = Issue(a, <<ended, render>>)
      BY <2>12, <2>19, TwoCommands
    <3>2. PICK d : d = Execute(e, render) OBVIOUS
    <3>3. /\ Told(c, d, c.shot, pins, <<x, ended>>, Pictures(c, id, r)) /\ Repainted(c, d, id, r)
          /\ d \in Cores
      BY <2>1, <2>5, <2>11, <2>15, <3>2, RenderAfter
    <3>4. Emit(w, Issue(a, <<ended, render>>)) = [w EXCEPT !.core = d]
      BY <1>0, <2>7, <2>9, <2>15, <3>2, EmittedTwo
    <3> QED BY <1>0, <1>2, <2>1, <2>2, <2>4, <2>8, <2>11, <2>19, <3>1, <3>3, <3>4
  <2> QED BY <2>16, <2>17, <2>18, <2>19
<1> QED BY SMTT(30), <1>0, <1>1, <1>2

LEMMA GrowsMore ==
    ASSUME NEW q \in Seq(Closures), NEW r \in Seq(Closures), NEW new \in Seq(Closures),
           NEW x \in Closures,
           Grows(q, r, new)
    PROVE  Grows(q, Append(r, x), Append(new, x)) /\ Append(new, x) \in Seq(Closures)
<1>1. /\ Len(new) \in Nat /\ Len(q) \in Nat /\ Len(r) = Len(q) + Len(new)
      /\ DOMAIN q = 1..Len(q)
  BY DEF Grows
<1>2. /\ Len(Append(r, x)) = Len(r) + 1 /\ DOMAIN Append(r, x) = 1..(Len(r) + 1)
      /\ Append(r, x)[Len(r) + 1] = x /\ \A i \in 1..Len(r) : Append(r, x)[i] = r[i]
  OBVIOUS
<1>3. /\ Len(Append(new, x)) = Len(new) + 1 /\ DOMAIN Append(new, x) = 1..(Len(new) + 1)
      /\ Append(new, x)[Len(new) + 1] = x /\ \A i \in 1..Len(new) : Append(new, x)[i] = new[i]
  OBVIOUS
<1>4. PICK r2, new2 : r2 = Append(r, x) /\ new2 = Append(new, x) OBVIOUS
<1>5. \A i \in 1..Len(q) : r2[i] = q[i] BY <1>1, <1>2, <1>4 DEF Grows
<1>6. ASSUME NEW i \in 1..Len(new2) PROVE r2[Len(q) + i] = new2[i]
  BY <1>1, <1>2, <1>3, <1>4 DEF Grows
<1>7. /\ Len(new2) \in Nat /\ DOMAIN new2 = 1..Len(new2)
      /\ Len(r2) = Len(q) + Len(new2) /\ DOMAIN r2 = 1..(Len(q) + Len(new2))
  BY <1>1, <1>2, <1>3, <1>4
<1>8. Grows(q, r2, new2) BY <1>1, <1>5, <1>6, <1>7 DEF Grows
<1> QED BY <1>4, <1>8

ClosePinOf(id) == [k |-> "ClosePin", id |-> id]

LEMMA DropAfter ==
    ASSUME NEW c \in Cores, NEW s \in Cores, NEW shot, NEW pins, NEW new \in Seq(Closures),
           Told(c, s, shot, pins, new, {}), Kept(c, s), NEW id \in Nat, id \notin DOMAIN pins,
           NEW d, d = Execute(s, [k |-> "Drop", id |-> id])
    PROVE  Told(c, d, shot, pins, Append(new, ClosePinOf(id)), {}) /\ Kept(c, d) /\ d \in Cores
<1>1. PICK x \in Closures : x = ClosePinOf(id) BY DEF ClosePinOf, Closures
<1>2. /\ d \in Cores /\ Alike(s, d) /\ d.queue = Append(s.queue, [k |-> "ClosePin", id |-> id])
      /\ d.spawned = s.spawned
      /\ d.held = s.held /\ d.pending = s.pending /\ d.images = s.images \ {id}
      /\ d.previews = s.previews
  BY DropFacts
<1>3. d.queue = Append(s.queue, x) BY <1>1, <1>2 DEF ClosePinOf
<1>4. Grows(c.queue, d.queue, Append(new, x))
  <2>1. c.queue \in Seq(Closures) /\ s.queue \in Seq(Closures) /\ Grows(c.queue, s.queue, new)
    BY DEF Cores, Drafts, Told
  <2> QED BY <1>1, <1>3, <2>1, GrowsMore
<1>5. Told(c, d, shot, pins, Append(new, x), {}) BY <1>2, <1>4 DEF Told, Alike
<1>6. d.images = s.images BY <1>2 DEF Kept, ImagesSynced, Told
<1>7. Kept(c, d) BY <1>2, <1>6 DEF Kept, HeldKept, PendingKept, ImagesSynced, PreviewsKept, Alike
<1> QED BY <1>1, <1>2, <1>5, <1>7

\* The snapshot, and the end of the edit of a pin that goes or is hidden.
Closing(shot, pins, id, pin) ==
    IF pin.editing # 0 THEN <<SyncOf(shot, pins), EndEditOf(id, pin.editing)>>
        ELSE <<SyncOf(shot, pins)>>

LEMMA ClosedEmit ==
    ASSUME NEW w \in Worlds, NEW id \in Nat
    PROVE  /\ ~ Has(w.core, id) => Emit(w, Closed(w.core, id)) = w
           /\ Has(w.core, id) =>
                \E d \in Cores : LET pins == Without(w.core.pins, id) IN
                  /\ Emit(w, Closed(w.core, id)) = [w EXCEPT !.core = d]
                  /\ Told(w.core, d, w.core.shot, pins,
                          Append(Closing(w.core.shot, pins, id, w.core.pins[id]), ClosePinOf(id)),
                          {})
                  /\ Kept(w.core, d)
<1>0. PICK c \in Cores : c = w.core /\ c.pins \in PinTables BY DEF Worlds, Cores, Drafts
<1>1. CASE ~ Has(c, id) BY <1>0, <1>1 DEF Closed, Emit
<1>2. CASE Has(c, id)
  <2>1. PICK pin \in Pins : id \in DOMAIN c.pins /\ pin = c.pins[id]
    BY <1>0, <1>2, PinTableFacts DEF Has
  <2>2. PICK pins : pins = Without(c.pins, id) OBVIOUS
  <2>3. pins \in PinTables /\ id \notin DOMAIN pins BY ZenonT(60), <1>0, <2>2, PinGoneFacts
  <2>4. PICK a : a = [c EXCEPT !.pins = pins] OBVIOUS
  <2>5. PICK s : s = Snapped(c, a.shot, a.pins, a.lastPin) OBVIOUS
  <2>6. PICK x : x = SyncOf(c.shot, pins) OBVIOUS
  <2>7. /\ a \in Cores /\ Beside(c, a) /\ s \in Cores
        /\ Told(c, s, c.shot, pins, <<x>>, {}) /\ Kept(c, s)
        /\ s.queue = Append(c.queue, x) /\ x \in Closures
    BY <1>0, <2>3, <2>4, <2>5, <2>6, PinsSnapped
  <2>8. PICK ended, drop : ended = EndEditOf(id, pin.editing) /\ drop = [k |-> "Drop", id |-> id]
    OBVIOUS
  <2>9. Closed(c, id) = Issue(a, (IF pin.editing # 0 THEN <<ended>> ELSE <<>>) \o <<drop>>)
    BY <1>2, <2>1, <2>2, <2>4, <2>8 DEF EndEditCmd, EndEditOf, Closed
  <2>10. /\ ended \in Closures /\ ended.k = "EndEdit" /\ <<x>> \in Seq(Closures)
         /\ <<x, ended>> \in Seq(Closures)
    BY <2>1, <2>7, <2>8 DEF Closures, Loans, EndEditOf, Pins
  <2>11. CASE pin.editing = 0
    <3>1. Closed(c, id) = Issue(a, <<drop>>) BY <2>9, <2>11
    <3>2. PICK d : d = Execute(s, drop) OBVIOUS
    <3>3. Told(c, d, c.shot, pins, Append(<<x>>, ClosePinOf(id)), {}) /\ Kept(c, d) /\ d \in Cores
      BY <2>3, <2>7, <2>8, <2>10, <3>2, DropAfter
    <3>4. Emit(w, Issue(a, <<drop>>)) = [w EXCEPT !.core = d] BY <1>0, <2>5, <2>7, <3>2, EmittedOne
    <3> QED BY <1>0, <1>2, <2>1, <2>2, <2>6, <2>11, <3>1, <3>3, <3>4 DEF Closing
  <2>12. CASE pin.editing # 0
    <3>1. Closed(c, id) = Issue(a, <<ended, drop>>) BY <2>9, <2>12, TwoCommands
    <3>2. PICK e, d : e = Post(s, ended) /\ d = Execute(e, drop) OBVIOUS
    <3>3. /\ e = Execute(s, ended) /\ e \in Cores /\ Told(c, e, c.shot, pins, <<x, ended>>, {})
          /\ Kept(c, e)
      BY <2>7, <2>10, <3>2, PostedFacts, PostAfter
    <3>4. /\ Told(c, d, c.shot, pins, Append(<<x, ended>>, ClosePinOf(id)), {}) /\ Kept(c, d)
          /\ d \in Cores
      BY ZenonT(60), <2>3, <2>8, <2>10, <3>2, <3>3, DropAfter
    <3>5. Emit(w, Issue(a, <<ended, drop>>)) = [w EXCEPT !.core = d]
      BY <1>0, <2>5, <2>7, <3>2, <3>3, EmittedTwo
    <3> QED BY <1>0, <1>2, <2>1, <2>2, <2>6, <2>8, <2>12, <3>1, <3>4, <3>5 DEF Closing
  <2> QED BY <2>11, <2>12
<1> QED BY <1>0, <1>1, <1>2

\* The pixels that waited under an output are those of the pin it made.
Retained(c, d, id, source) ==
    source \in c.pending => d.pending = {} /\ d.images = (c.images \cap DOMAIN d.pins) \cup {id}

LEMMA OpenedEmit ==
    ASSUME NEW w \in Worlds, NEW id \in Nat, NEW source \in Sources, ~ Has(w.core, id)
    PROVE  \/ \E d \in Cores :
                  /\ Emit(w, Opened(w.core, id, source)) = [w EXCEPT !.core = d]
                  /\ Told(w.core, d, w.core.shot, w.core.pins,
                          Append(<<SyncOf(w.core.shot, w.core.pins)>>, ClosePinOf(id)), {})
                  /\ Kept(w.core, d)
           \/ /\ Is(w.core, source[1], "Output") /\ w.core.shot.operation = source[2]
              /\ \E d \in Cores : LET pins == Put(w.core.pins, id, NewPin) IN
                  /\ Emit(w, Opened(w.core, id, source)) = [w EXCEPT !.core = d]
                  /\ Told(w.core, d, w.core.shot, pins, <<SyncOf(w.core.shot, pins)>>, {})
                  /\ HeldKept(w.core, d) /\ PreviewsKept(w.core, d)
                  /\ Retained(w.core, d, id, source)
<1>0. PICK c \in Cores : c = w.core /\ c.pins \in PinTables /\ c.shot \in Shots /\ c.lastPin \in Nat
  BY DEF Worlds, Cores, Drafts
<1>1. CASE ~ (id > c.lastPin /\ Is(c, source[1], "Output") /\ c.shot.operation = source[2])
  <2>1. PICK drop : drop = [k |-> "Drop", id |-> id] OBVIOUS
  <2>2. Opened(c, id, source) = Issue(c, <<drop>>) BY <1>0, <1>1, <2>1 DEF Opened
  <2>3. PICK s : s = Snapped(c, c.shot, c.pins, c.lastPin) OBVIOUS
  <2>4. PICK x : x = SyncOf(c.shot, c.pins) OBVIOUS
  <2>5. Told(c, s, c.shot, c.pins, <<x>>, {}) /\ Kept(c, s) /\ x \in Closures
    BY <1>0, <2>3, <2>4, SnappedFacts
  <2>6. s \in Cores /\ id \notin DOMAIN c.pins /\ <<x>> \in Seq(Closures)
    BY <1>0, <2>5 DEF Told, Has
  <2>7. PICK d : d = Execute(s, drop) OBVIOUS
  <2>8. Told(c, d, c.shot, c.pins, Append(<<x>>, ClosePinOf(id)), {}) /\ Kept(c, d) /\ d \in Cores
    BY <2>1, <2>5, <2>6, <2>7, DropAfter
  <2>9. Emit(w, Issue(c, <<drop>>)) = [w EXCEPT !.core = d]
    BY <1>0, <2>3, <2>7, EmittedOne DEF Beside
  <2> QED BY <1>0, <2>2, <2>4, <2>8, <2>9
<1>2. CASE id > c.lastPin /\ Is(c, source[1], "Output") /\ c.shot.operation = source[2]
  <2>1. PICK cmd : cmd = [k |-> "Retain", id |-> id, source |-> source] OBVIOUS
  <2>2. PICK pins : pins = Put(c.pins, id, NewPin) OBVIOUS
  <2>3. pins \in PinTables /\ id \in DOMAIN pins
    <3>1. PICK pin \in Pins : pin = NewPin BY DEF NewPin, Pins
    <3>2. PICK t \in PinTables : t = c.pins BY <1>0
    <3>3. Put(t, id, pin) \in PinTables /\ DOMAIN Put(t, id, pin) = DOMAIN t \cup {id}
      BY PinPutFacts
    <3> QED BY <2>2, <3>1, <3>2, <3>3
  <2>4. PICK a : a = [c EXCEPT !.lastPin = id, !.pins = pins] OBVIOUS
  <2>5. Opened(c, id, source) = Issue(a, <<cmd>>) BY <1>0, <1>2, <2>1, <2>2, <2>4 DEF Opened
  <2>6. a \in Cores BY <2>3, <2>4 DEF Cores, Drafts
  <2>7. Beside(c, a) /\ a.shot = c.shot /\ a.pins = pins /\ a.lastPin = id
    BY <2>4 DEF Cores, Drafts, Beside
  <2>8. PICK s : s = Snapped(c, a.shot, a.pins, a.lastPin) OBVIOUS
  <2>9. Told(c, s, c.shot, pins, <<SyncOf(c.shot, pins)>>, {}) /\ Kept(c, s)
    BY <1>0, <2>3, <2>7, <2>8, SnappedFacts
  <2>10. s \in Cores BY <2>9 DEF Told
  <2>11. PICK d : d = Execute(s, cmd) OBVIOUS
  <2>12. Emit(w, Issue(a, <<cmd>>)) = [w EXCEPT !.core = d]
    BY <1>0, <2>6, <2>7, <2>8, <2>11, EmittedOne
  <2>13. CASE source \notin s.pending
    <3>1. d = s BY <2>1, <2>11, <2>13 DEF Execute, Retain
    <3>2. source \notin c.pending BY <1>2, <2>9, <2>13 DEF Is, Sources, Kept, PendingKept, Told
    <3> QED BY <1>0, <1>2, <2>2, <2>5, <2>9, <2>10, <2>12, <3>1, <3>2 DEF Kept, Retained
  <2>14. CASE source \in s.pending
    <3>1. /\ d \in Cores /\ Alike(s, d) /\ d.queue = s.queue /\ d.spawned = s.spawned
          /\ d.held = s.held /\ d.pending = s.pending \ {source} /\ d.images = s.images \cup {id}
          /\ d.previews = s.previews
      BY <2>1, <2>10, <2>11, <2>14, RetainFacts
    <3>2. d.pending = {} BY <2>9, <2>14, <3>1 DEF Kept, PendingKept, Told
    <3>3. d.images = (c.images \cap DOMAIN pins) \cup {id}
      BY <2>9, <3>1 DEF Kept, ImagesSynced, Told
    <3>4. Told(c, d, c.shot, pins, <<SyncOf(c.shot, pins)>>, {}) BY <2>9, <3>1 DEF Told, Alike
    <3>5. HeldKept(c, d) /\ PreviewsKept(c, d) BY <2>9, <3>1 DEF Kept, HeldKept, PreviewsKept, Alike
    <3>6. Retained(c, d, id, source) BY <2>9, <3>2, <3>3, <3>4 DEF Retained, Told
    <3> QED BY <1>0, <1>2, <2>2, <2>5, <2>12, <3>1, <3>4, <3>5, <3>6
  <2> QED BY <2>13, <2>14
<1> QED BY <1>1, <1>2

BusyPin(pin) == [pin EXCEPT !.operation = pin.operation + 1, !.busy = TRUE]

LEMMA PinOutputEmit ==
    ASSUME NEW w \in Worlds, NEW id \in Nat, Has(w.core, id) => id \in w.core.images
    PROVE  \/ Emit(w, PinOutputRequested(w.core, id)) = w
           \/ /\ Has(w.core, id)
              /\ \E d \in Cores : LET pin  == w.core.pins[id]
                                      pins == PinSet(w.core.pins, id, BusyPin(pin)) IN
                  /\ Emit(w, PinOutputRequested(w.core, id)) = [w EXCEPT !.core = d]
                  /\ Told(w.core, d, w.core.shot, pins, <<SyncOf(w.core.shot, pins)>>,
                          {PinJob(id, pin.operation + 1)})
                  /\ Kept(w.core, d)
<1>0. PICK c \in Cores : c = w.core /\ c.pins \in PinTables BY DEF Worlds, Cores, Drafts
<1>1. CASE ~ Has(c, id) \/ c.pins[id].busy BY <1>0, <1>1 DEF PinOutputRequested, Emit
<1>2. CASE Has(c, id) /\ ~ c.pins[id].busy
  <2>1. PICK pin \in Pins : id \in DOMAIN c.pins /\ pin = c.pins[id]
    BY <1>0, <1>2, PinTableFacts DEF Has
  <2>2. PICK n \in Nat : n = pin.operation + 1 BY <2>1 DEF Pins
  <2>3. BusyPin(pin) \in Pins BY <2>1, <2>2 DEF Pins, BusyPin
  <2>4. PICK pins : pins = PinSet(c.pins, id, BusyPin(pin)) OBVIOUS
  <2>5. pins \in PinTables /\ DOMAIN pins = DOMAIN c.pins BY <1>0, <2>1, <2>3, <2>4, PinSetFacts
  <2>6. PICK a : a = [c EXCEPT !.pins = pins] OBVIOUS
  <2>7. PICK s : s = Snapped(c, a.shot, a.pins, a.lastPin) OBVIOUS
  <2>8. /\ a \in Cores /\ Beside(c, a) /\ s \in Cores
        /\ Told(c, s, c.shot, pins, <<SyncOf(c.shot, pins)>>, {}) /\ Kept(c, s)
    BY <1>0, <2>5, <2>6, <2>7, PinsSnapped
  <2>9. PICK cmd : cmd = [k |-> "PinOutput", id |-> id, operation |-> n] OBVIOUS
  <2>10. PinOutputRequested(c, id) = Issue(a, <<cmd>>)
    BY <1>2, <2>1, <2>2, <2>4, <2>6, <2>9 DEF PinSet, BusyPin, PinOutputRequested
  <2>11. PICK d : d = Execute(s, cmd) OBVIOUS
  <2>12. id \in s.images BY <1>0, <1>2, <2>1, <2>5, <2>8 DEF Kept, ImagesSynced, Told
  <2>13. /\ d \in Cores /\ Alike(s, d) /\ d.queue = s.queue
         /\ d.spawned = s.spawned \cup {PinJob(id, n)}
         /\ d.held = s.held /\ d.pending = s.pending /\ d.images = s.images
         /\ d.previews = s.previews
    <3>1. s \in Cores /\ cmd.k = "PinOutput" /\ cmd.id = id /\ cmd.operation = n BY <2>8, <2>9
    <3>2. cmd.id \in Nat /\ cmd.operation \in Nat /\ cmd.id \in s.images BY <2>12, <3>1
    <3>3. PICK job \in Jobs : job = PinJob(cmd.id, cmd.operation) BY <3>2 DEF Jobs, PinJob
    <3>4. /\ d \in Cores /\ Alike(s, d) /\ d.queue = s.queue
          /\ d.spawned = s.spawned \cup {job}
          /\ d.held = s.held /\ d.pending = s.pending /\ d.images = s.images
          /\ d.previews = s.previews
      BY ONLY <2>11, <3>1, <3>2, <3>3, PinOutputFacts
    <3> QED BY <3>1, <3>3, <3>4 DEF PinJob
  <2>14. Told(c, d, c.shot, pins, <<SyncOf(c.shot, pins)>>, {PinJob(id, n)})
    BY <2>8, <2>13 DEF Told, Alike
  <2>15. Kept(c, d)
    BY <2>8, <2>13 DEF Kept, HeldKept, PendingKept, ImagesSynced, PreviewsKept, Alike
  <2>16. Emit(w, Issue(a, <<cmd>>)) = [w EXCEPT !.core = d] BY <1>0, <2>7, <2>8, <2>11, EmittedOne
  <2> QED BY <1>0, <1>2, <2>1, <2>2, <2>4, <2>10, <2>13, <2>14, <2>15, <2>16
<1> QED BY <1>0, <1>1, <1>2

\* Commands that post themselves are appended to the queue.
LEMMA ExecutePosts ==
    ASSUME NEW c \in Cores, NEW cmds \in Seq(Loans)
    PROVE  \E d \in Cores : /\ d = ExecuteAll(c, cmds) /\ Alike(c, d) /\ d.queue = c.queue \o cmds
                            /\ d.spawned = c.spawned /\ d.held = c.held /\ d.pending = c.pending
                            /\ d.images = c.images /\ d.previews = c.previews
<1> DEFINE Posted(n, d) ==
             /\ d \in Cores /\ Alike(c, d) /\ d.spawned = c.spawned /\ d.held = c.held
             /\ d.pending = c.pending /\ d.images = c.images /\ d.previews = c.previews
             /\ Len(d.queue) = Len(c.queue) + n
             /\ \A i \in 1..Len(c.queue) : d.queue[i] = c.queue[i]
             /\ \A i \in 1..n : d.queue[Len(c.queue) + i] = cmds[i]
<1>1. Len(cmds) \in Nat /\ Len(c.queue) \in Nat /\ c.queue \in Seq(Closures) BY DEF Cores, Drafts
<1>2. PICK run : /\ ExecuteAll(c, cmds) = run[Len(cmds)] /\ run[0] = c
                 /\ \A n \in 1..Len(cmds) : run[n] = Execute(run[n - 1], cmds[n])
  BY <1>1, ExecuteAllProof
<1>3. Posted(0, run[0]) BY <1>1, <1>2 DEF Alike
<1>4. ASSUME NEW n \in 1..Len(cmds), Posted(n - 1, run[n - 1]) PROVE Posted(n, run[n])
  <2>1. PICK e, cmd, d : e = run[n - 1] /\ cmd = cmds[n] /\ d = run[n] OBVIOUS
  <2>2. cmd \in Loans BY <2>1, <1>1
  <2>3. cmd \in Closures /\ cmd.k \in {"BeginEdit", "EndEdit"} BY <2>2 DEF Closures, Loans
  <2>4. Posted(n - 1, e) /\ d = Execute(e, cmd) BY <1>2, <1>4, <2>1
  <2>5. e \in Cores /\ d = Post(e, cmd) BY <2>3, <2>4, PostedFacts
  <2>6. /\ d \in Cores /\ Alike(e, d)
        /\ d.queue = Append(e.queue, cmd) /\ d.spawned = e.spawned
        /\ d.held = e.held /\ d.pending = e.pending
        /\ d.images = e.images /\ d.previews = e.previews
    BY <2>3, <2>5, PostFacts
  <2>7. e.queue \in Seq(Closures) /\ n \in Nat /\ n - 1 \in Nat BY <1>1, <2>5 DEF Cores, Drafts
  <2>8. /\ Len(d.queue) = Len(e.queue) + 1 /\ d.queue[Len(e.queue) + 1] = cmd
        /\ \A i \in 1..Len(e.queue) : d.queue[i] = e.queue[i]
    BY <2>3, <2>6, <2>7
  <2>9. Len(e.queue) = Len(c.queue) + (n - 1) BY <2>4
  <2>10. \A i \in 1..Len(c.queue) : d.queue[i] = c.queue[i]
    <3>1. \A i \in 1..Len(c.queue) : i \in 1..Len(e.queue) /\ e.queue[i] = c.queue[i]
      BY <1>1, <2>4, <2>7, <2>9
    <3> QED BY <2>8, <3>1
  <2>11. \A i \in 1..n : d.queue[Len(c.queue) + i] = cmds[i]
    <3>1. ASSUME NEW i \in 1..(n - 1) PROVE d.queue[Len(c.queue) + i] = cmds[i]
      <4>1. Len(c.queue) + i \in 1..Len(e.queue) /\ e.queue[Len(c.queue) + i] = cmds[i]
        BY <1>1, <2>4, <2>7, <2>9
      <4> QED BY <2>8, <4>1
    <3>2. d.queue[Len(c.queue) + n] = cmds[n] BY <1>1, <2>1, <2>7, <2>8, <2>9
    <3>3. \A i \in 1..n : i = n \/ i \in 1..(n - 1) BY <2>7
    <3> QED BY <3>1, <3>2, <3>3
  <2>12. Len(d.queue) = Len(c.queue) + n BY <1>1, <2>7, <2>8, <2>9
  <2>13. Posted(n, d) BY <2>4, <2>6, <2>10, <2>11, <2>12 DEF Alike
  <2> QED BY <2>1, <2>13
<1> HIDE DEF Posted
<1>5. \A n \in 0..Len(cmds) : Posted(n, run[n])
  <2> DEFINE Bad == {n \in Nat : n <= Len(cmds) /\ ~ Posted(n, run[n])}
  <2>1. SUFFICES ASSUME Bad # {} PROVE FALSE BY <1>1
  <2>2. PICK n \in Bad : \A m \in Bad : n <= m
    <3>1. Bad \in SUBSET Nat OBVIOUS
    <3> HIDE DEF Bad
    <3> QED BY <2>1, <3>1, LeastNumber
  <2>3. n \in Nat /\ n <= Len(cmds) /\ ~ Posted(n, run[n]) OBVIOUS
  <2>4. n # 0 BY <1>3, <2>3
  <2>5. n \in 1..Len(cmds) /\ n - 1 \in Nat /\ n - 1 <= Len(cmds) BY <1>1, <2>3, <2>4
  <2>6. Posted(n - 1, run[n - 1])
    <3>1. n - 1 \notin Bad
      <4> HIDE DEF Bad
      <4> QED BY <2>2, <2>3, <2>5
    <3> QED BY <2>5, <3>1
  <2> QED BY <1>4, <2>3, <2>5, <2>6
<1>6. PICK d : d = run[Len(cmds)] OBVIOUS
<1>7. Posted(Len(cmds), d) BY <1>1, <1>5, <1>6
<1>8. d.queue = c.queue \o cmds
  <2>1. d.queue \in Seq(Closures) BY <1>7 DEF Posted, Cores, Drafts
  <2>2. cmds \in Seq(Closures) BY DEF Closures
  <2>3. PICK q, r : q = c.queue /\ r = d.queue OBVIOUS
  <2>4. q \in Seq(Closures) /\ r \in Seq(Closures) /\ Len(r) = Len(q) + Len(cmds)
        /\ (\A i \in 1..Len(q) : r[i] = q[i]) /\ (\A i \in 1..Len(cmds) : r[Len(q) + i] = cmds[i])
    BY <1>1, <1>7, <2>1, <2>3 DEF Posted
  <2>5. \A i \in 1..Len(r) : r[i] = (q \o cmds)[i]
    <3>1. TAKE i \in 1..Len(r)
    <3>2. CASE i <= Len(q) BY <1>1, <2>2, <2>4, <3>2
    <3>3. CASE i > Len(q)
      <4>1. PICK j \in 1..Len(cmds) : i = Len(q) + j
        <5>1. i - Len(q) \in 1..Len(cmds) /\ i = Len(q) + (i - Len(q)) BY <1>1, <2>4, <3>3
        <5> QED BY <5>1
      <4>2. (q \o cmds)[Len(q) + j] = cmds[j] BY <2>2, <2>4
      <4> QED BY <2>4, <4>1, <4>2
    <3> QED BY <2>4, <3>2, <3>3
  <2>6. (q \o cmds) \in Seq(Closures) /\ Len(q \o cmds) = Len(r) BY <2>2, <2>4
  <2>7. r = q \o cmds BY <2>4, <2>5, <2>6
  <2> QED BY <2>3, <2>7
<1> QED BY <1>2, <1>6, <1>7, <1>8 DEF Posted

\* EditRequested: the edits of the other pins end, then that of the pin begins.
BegunPin(pin)       == [pin EXCEPT !.operation = pin.operation + 1, !.editing = pin.operation + 1,
                                   !.lastEdit = pin.operation + 1, !.hidden = FALSE]
BegunPins(pins, id) == [[p \in DOMAIN pins |-> Unedited(pins[p])] EXCEPT ![id] = BegunPin(pins[id])]
Others(pins)        == {other \in DOMAIN pins : pins[other].editing # 0}
BeginEditOf(id, edit) == [k |-> "BeginEdit", id |-> id, edit |-> edit]
\* What is posted: the snapshot, the ends of the other edits, the beginning of this one.
Begun(new, shot, pins, id) ==
    /\ new \in Seq(Closures) /\ Len(new) >= 2 /\ new[1] = SyncOf(shot, BegunPins(pins, id))
    /\ new[Len(new)] = BeginEditOf(id, pins[id].operation + 1)
    /\ \A i \in 2..(Len(new) - 1) : \E other \in Others(pins) :
        new[i] = EndEditOf(other, pins[other].editing)
    /\ \A other \in Others(pins) : \E i \in 2..(Len(new) - 1) :
        new[i] = EndEditOf(other, pins[other].editing)

LEMMA BegunPinsFacts ==
    ASSUME NEW pins \in PinTables, NEW id \in DOMAIN pins
    PROVE  /\ BegunPins(pins, id) \in PinTables /\ DOMAIN BegunPins(pins, id) = DOMAIN pins
           /\ BegunPins(pins, id)[id] = BegunPin(pins[id]) /\ BegunPin(pins[id]) \in Pins
           /\ \A other \in DOMAIN pins : other # id
                => BegunPins(pins, id)[other] = Unedited(pins[other])
<1>1. PICK ids \in SUBSET Nat : pins \in [ids -> Pins] /\ IsFiniteSet(ids) BY DEF PinTables
<1>2. \A p \in ids : Unedited(pins[p]) \in Pins BY <1>1 DEF Unedited, Pins
<1>3. BegunPin(pins[id]) \in Pins
  <2>1. pins[id] \in Pins /\ pins[id].operation + 1 \in Nat BY <1>1 DEF Pins
  <2> QED BY <2>1 DEF BegunPin, Pins
<1>4. PICK quiet \in [ids -> Pins] : quiet = [p \in DOMAIN pins |-> Unedited(pins[p])] BY <1>1, <1>2
<1>5. BegunPins(pins, id) = [quiet EXCEPT ![id] = BegunPin(pins[id])] BY <1>4 DEF BegunPins
<1>6. BegunPins(pins, id) \in [ids -> Pins] BY <1>1, <1>3, <1>4, <1>5
<1>7. BegunPins(pins, id) \in PinTables BY <1>1, <1>6 DEF PinTables
<1>8. BegunPins(pins, id)[id] = BegunPin(pins[id])
      /\ \A other \in DOMAIN pins : other # id => BegunPins(pins, id)[other] = quiet[other]
  BY <1>1, <1>3, <1>4, <1>5
<1> QED BY <1>1, <1>3, <1>4, <1>6, <1>7, <1>8

LEMMA SetToSeqFacts ==
    ASSUME NEW S, IsFiniteSet(S)
    PROVE  /\ SetToSeq(S) \in Seq(S) /\ Len(SetToSeq(S)) \in Nat
           /\ \A i \in 1..Len(SetToSeq(S)) : SetToSeq(S)[i] \in S
           /\ \A x \in S : \E i \in 1..Len(SetToSeq(S)) : SetToSeq(S)[i] = x
<1>1. PICK n \in Nat : n = Cardinality(S) /\ ExistsBijection(1..n, S) BY FS_CardinalityType
<1>2. PICK f : f \in Bijection(1..n, S) BY <1>1 DEF ExistsBijection
<1>3. f \in [1..n -> S] /\ IsInjective(f) BY <1>2 DEF Bijection, Injection
<1>4. PICK g : g = SetToSeq(S) OBVIOUS
<1>5. g \in [1..n -> S] /\ IsInjective(g) BY <1>1, <1>3, <1>4 DEF SetToSeq
<1>6. g \in Injection(1..n, S) BY <1>5 DEF Injection
<1>7. IsFiniteSet(1..n) /\ Cardinality(1..n) = n BY FS_Interval
<1>8. g \in Surjection(1..n, S) BY <1>1, <1>6, <1>7, FS_Injection
<1>9. \A x \in S : \E i \in 1..n : g[i] = x BY <1>8 DEF Surjection
<1>10. g \in Seq(S) /\ Len(g) = n BY <1>5
<1> QED BY <1>4, <1>5, <1>9, <1>10

LEMMA EditRequestedEmit ==
    ASSUME NEW w \in Worlds, NEW id \in Nat
    PROVE  \/ Emit(w, EditRequested(w.core, id)) = w
           \/ /\ ~Active(w.core) /\ Has(w.core, id) /\ w.core.pins[id].editing = 0
              /\ w.core.pins[id].document # None
              /\ \E d \in Cores, new \in Seq(Closures) : LET pins == BegunPins(w.core.pins, id) IN
                  /\ Emit(w, EditRequested(w.core, id)) = [w EXCEPT !.core = d]
                  /\ Told(w.core, d, w.core.shot, pins, new, {})
                  /\ Begun(new, w.core.shot, w.core.pins, id)
                  /\ Kept(w.core, d)
<1>0. PICK c \in Cores : c = w.core /\ c.pins \in PinTables BY DEF Worlds, Cores, Drafts
<1>1. CASE EditRequested(c, id) = c BY <1>0, <1>1 DEF Emit
<1>2. CASE EditRequested(c, id) # c
  <2>1. ~Active(c) /\ Has(c, id) /\ c.pins[id].editing = 0 /\ c.pins[id].document # None
    BY <1>2 DEF EditRequested
  <2>2. PICK pin \in Pins : id \in DOMAIN c.pins /\ pin = c.pins[id]
    BY <1>0, <2>1, PinTableFacts DEF Has
  <2>3. PICK n \in Nat : n = pin.operation + 1 BY <2>2 DEF Pins
  <2>4. PICK pins : pins = BegunPins(c.pins, id) OBVIOUS
  <2>5. pins \in PinTables BY <1>0, <2>2, <2>4, BegunPinsFacts
  <2>6. PICK a : a = [c EXCEPT !.pins = pins] OBVIOUS
  <2>7. PICK ends, last : /\ ends = SetToSeq({EndEditOf(other, c.pins[other].editing) : other
                                              \in Others(c.pins)})
                          /\ last = BeginEditOf(id, n)
    OBVIOUS
  <2>8. EditRequested(c, id) = Issue(a, ends \o <<last>>)
    BY <1>2, <2>2, <2>3, <2>4, <2>6, <2>7 DEF EditRequested, BegunPins, BegunPin, Unedited,
       EndEditOf, EndEditCmd, Others, BeginEditOf
  <2>9. PICK s : s = Snapped(c, a.shot, a.pins, a.lastPin) OBVIOUS
  <2>10. PICK x : x = SyncOf(c.shot, pins) OBVIOUS
  <2>11. /\ a \in Cores /\ Beside(c, a) /\ s \in Cores
         /\ Told(c, s, c.shot, pins, <<x>>, {}) /\ Kept(c, s)
         /\ s.queue = Append(c.queue, x) /\ x \in Closures
    BY <1>0, <2>5, <2>6, <2>9, <2>10, PinsSnapped
  <2>12. /\ ends \in Seq(Loans) /\ last \in Loans /\ Len(ends) \in Nat
         /\ \A i \in 1..Len(ends) : \E other \in Others(c.pins) :
             ends[i] = EndEditOf(other, c.pins[other].editing)
         /\ \A other \in Others(c.pins) : \E i \in 1..Len(ends) :
             ends[i] = EndEditOf(other, c.pins[other].editing)
    <3> DEFINE S == {EndEditOf(other, c.pins[other].editing) : other \in Others(c.pins)}
    <3>1. IsFiniteSet(Others(c.pins)) BY <1>0, PinTableFacts, FS_Subset DEF Others
    <3>2. IsFiniteSet(S)
      <4> DEFINE f == [other \in Others(c.pins) |-> EndEditOf(other, c.pins[other].editing)]
      <4>1. f \in Surjection(Others(c.pins), S) BY DEF Surjection
      <4> HIDE DEF f, S
      <4> QED BY <3>1, <4>1, FS_Surjection
    <3>3. S \subseteq Loans /\ last \in Loans
      BY <1>0, <2>7, PinTableFacts DEF Others, Pins, EndEditOf, BeginEditOf, Loans
    <3>4. \A e \in S : \E other \in Others(c.pins) : e = EndEditOf(other, c.pins[other].editing)
      OBVIOUS
    <3>5. \A other \in Others(c.pins) : EndEditOf(other, c.pins[other].editing) \in S OBVIOUS
    <3>6. ends = SetToSeq(S) BY <2>7
    <3> HIDE DEF S
    <3>7. /\ ends \in Seq(S) /\ Len(ends) \in Nat /\ \A i \in 1..Len(ends) : ends[i] \in S
          /\ \A e \in S : \E i \in 1..Len(ends) : ends[i] = e
      BY <3>2, <3>6, SetToSeqFacts
    <3>8. ends \in Seq(Loans) BY <3>3, <3>7
    <3> QED BY <3>3, <3>4, <3>5, <3>7, <3>8
  <2>13. PICK cmds : cmds = ends \o <<last>> OBVIOUS
  <2>14. /\ cmds \in Seq(Loans) /\ cmds # <<>> /\ Len(cmds) = Len(ends) + 1
         /\ cmds[Len(ends) + 1] = last
         /\ \A i \in 1..Len(ends) : cmds[i] = ends[i]
    BY <2>12, <2>13
  <2>15. PICK d \in Cores : /\ d = ExecuteAll(s, cmds) /\ Alike(s, d) /\ d.queue = s.queue \o cmds
                            /\ d.spawned = s.spawned /\ d.held = s.held /\ d.pending = s.pending
                            /\ d.images = s.images /\ d.previews = s.previews
    BY <2>11, <2>14, ExecutePosts
  <2>16. Emit(w, Issue(a, cmds)) = [w EXCEPT !.core = d]
    BY <1>0, <2>9, <2>11, <2>14, <2>15, EmittedIssue
  <2>17. PICK new : new = <<x>> \o cmds OBVIOUS
  <2>18. /\ new \in Seq(Closures) /\ Len(new) = Len(cmds) + 1 /\ new[1] = x
         /\ \A i \in 1..Len(cmds) : new[i + 1] = cmds[i]
    BY <2>11, <2>14, <2>17 DEF Closures
  <2>19. Grows(c.queue, d.queue, new)
    <3>1. PICK q \in Seq(Closures) : q = c.queue BY DEF Cores, Drafts
    <3>2. cmds \in Seq(Closures) BY <2>14 DEF Closures
    <3>3. /\ Len(Append(q, x)) = Len(q) + 1 /\ Append(q, x) \in Seq(Closures)
          /\ Append(q, x)[Len(q) + 1] = x /\ \A i \in 1..Len(q) : Append(q, x)[i] = q[i]
      BY <2>11
    <3>4. PICK r : r = Append(q, x) OBVIOUS
    <3>5. PICK z : z = r \o cmds OBVIOUS
    <3>6. /\ Len(z) = Len(r) + Len(cmds) /\ z \in Seq(Closures)
          /\ (\A i \in 1..Len(r) : z[i] = r[i]) /\ \A i \in 1..Len(cmds) : z[Len(r) + i] = cmds[i]
      BY <3>2, <3>3, <3>4, <3>5
    <3>7. Len(q) \in Nat /\ Len(cmds) \in Nat /\ Len(r) = Len(q) + 1 /\ DOMAIN q = 1..Len(q)
          /\ DOMAIN z = 1..Len(z) /\ DOMAIN new = 1..Len(new)
      BY <2>14, <2>18, <3>3, <3>4, <3>6
    <3>8. \A i \in 1..Len(q) : z[i] = q[i]
      <4>1. \A i \in 1..Len(q) : i \in 1..Len(r) BY <3>7
      <4>2. \A i \in 1..Len(q) : r[i] = q[i] BY <3>3, <3>4
      <4> QED BY <3>6, <4>1, <4>2
    <3>9. ASSUME NEW i \in 1..Len(new) PROVE z[Len(q) + i] = new[i]
      <4>1. CASE i = 1
        <5>1. r[Len(q) + 1] = x /\ Len(q) + 1 \in 1..Len(r) BY <3>3, <3>4, <3>7
        <5> QED BY <2>18, <3>6, <4>1, <5>1
      <4>2. CASE i # 1
        <5>1. PICK j \in 1..Len(cmds) : i = j + 1 BY <2>18, <3>7, <4>2
        <5>2. Len(q) + i = Len(r) + j BY <3>7, <5>1
        <5> QED BY <2>18, <3>6, <5>1, <5>2
      <4> QED BY <4>1, <4>2
    <3>10. Len(z) = Len(q) + Len(new) /\ Len(new) \in Nat BY <2>18, <3>6, <3>7
    <3>11. Grows(q, z, new) BY <3>7, <3>8, <3>9, <3>10 DEF Grows
    <3> QED BY <2>11, <2>15, <3>1, <3>4, <3>5, <3>11
  <2>20. Told(c, d, c.shot, pins, new, {}) BY <2>11, <2>15, <2>19 DEF Told, Alike
  <2>21. Begun(new, c.shot, c.pins, id)
    <3>1. Len(new) = Len(ends) + 2 /\ Len(new) >= 2 /\ new[Len(new)] = last BY <2>12, <2>14, <2>18
    <3>2. ASSUME NEW i \in 2..(Len(new) - 1)
          PROVE  \E other \in Others(c.pins) : new[i] = EndEditOf(other, c.pins[other].editing)
      <4>1. PICK j \in 1..Len(ends) : i = j + 1 BY <2>12, <3>1
      <4>2. new[i] = ends[j] BY <2>12, <2>14, <2>18, <4>1
      <4> QED BY <2>12, <4>2
    <3>3. ASSUME NEW other \in Others(c.pins)
          PROVE  \E i \in 2..(Len(new) - 1) : new[i] = EndEditOf(other, c.pins[other].editing)
      <4>1. PICK j \in 1..Len(ends) : ends[j] = EndEditOf(other, c.pins[other].editing) BY <2>12
      <4>2. j + 1 \in 2..(Len(new) - 1) /\ j \in 1..Len(cmds) BY <2>12, <2>14, <3>1
      <4>3. new[j + 1] = ends[j] BY <2>14, <2>18, <4>2
      <4> QED BY <4>1, <4>2, <4>3
    <3> QED BY <2>2, <2>3, <2>4, <2>7, <2>10, <2>18, <3>1, <3>2, <3>3 DEF Begun
  <2>22. Kept(c, d)
    BY <2>11, <2>15 DEF Kept, HeldKept, PendingKept, ImagesSynced, PreviewsKept, Alike
  <2> QED BY <1>0, <2>1, <2>4, <2>8, <2>13, <2>16, <2>18, <2>20, <2>21, <2>22
<1> QED BY <1>0, <1>1, <1>2

----------------------------------------
(* The operations of the event loop.                                         *)

\* The parts of the view an operation leaves alone.
Except(v, v2, parts) ==
    /\ v2 \in Views
    /\ "flow" \in parts \/ v2.flow = v.flow
    /\ "recovery" \in parts \/ v2.recovery = v.recovery
    /\ "active" \in parts \/ v2.active = v.active
    /\ "stored" \in parts \/ v2.stored = v.stored
    /\ "windows" \in parts \/ v2.windows = v.windows
    /\ "next" \in parts \/ v2.next = v.next
    /\ "host" \in parts \/ v2.host = v.host
    /\ "timers" \in parts \/ v2.timers = v.timers
    /\ "drawn" \in parts \/ v2.drawn = v.drawn
    /\ "registry" \in parts \/ v2.registry = v.registry

LEMMA ViewWorld ==
    ASSUME NEW w \in Worlds, NEW v \in Views
    PROVE  /\ [w EXCEPT !.view = v] \in Worlds /\ [w EXCEPT !.view = v].core = w.core
           /\ [w EXCEPT !.view = v].view = v /\ w.view \in Views /\ w.core \in Cores
  BY DEF Worlds

LEMMA DeferFacts ==
    ASSUME NEW w \in Worlds, NEW timer \in Timers, NEW w2, w2 = Defer(w, timer)
    PROVE  /\ w2 \in Worlds /\ w2.core = w.core /\ Except(w.view, w2.view, {"timers"})
           /\ w2.view.timers = w.view.timers \cup {timer}
<1>1. PICK v : v = [w.view EXCEPT !.timers = w.view.timers \cup {timer}] OBVIOUS
<1>2. w2 = [w EXCEPT !.view = v] /\ w.view \in Views BY <1>1 DEF Defer, Worlds, Views
<1>3. v \in Views BY <1>1, <1>2 DEF Views
<1>4. w2 \in Worlds /\ w2.core = w.core /\ w2.view = v BY <1>2, <1>3, ViewWorld
<1> QED BY <1>1, <1>2, <1>3, <1>4 DEF Except, Views

\* What the end of an edit that was lost with its editor leaves behind.
ShotFailed(s)       == [k |-> "shot failed", session |-> s]
EditFailed(id, e)   == [k |-> "edit failed", id |-> id, edit |-> e]
Farewell(editing)   == IF editing = None THEN {}
                       ELSE IF editing.k = "shot" THEN {ShotFailed(editing.session)}
                       ELSE {EditFailed(editing.id, editing.edit)}
ClearedOf(registry) == [registry EXCEPT !.document = "blank", !.editing = None, !.open = FALSE]
KeptAside(v) ==
    LET editing == v.registry.editing IN
    IF editing # None /\ editing.k = "pin" /\ editing.id \in DOMAIN v.stored
    THEN [v.stored EXCEPT ![editing.id] = [v.stored[editing.id] EXCEPT !.document
                                           = v.registry.document]]
    ELSE v.stored

LEMMA StoreFacts ==
    ASSUME NEW v \in Views
    PROVE  /\ v.stored \in TableOf(Entries) /\ v.windows \in TableOf(Windows)
           /\ v.registry \in Registries /\ v.timers \in SUBSET Timers
           /\ v.registry.editing # None => v.registry.editing \in Edited
           /\ \A id \in DOMAIN v.stored : id \in Nat /\ v.stored[id] \in Entries
           /\ \A id \in DOMAIN v.windows : id \in Nat /\ v.windows[id] \in Windows
<1>1. /\ v.stored \in TableOf(Entries) /\ v.windows \in TableOf(Windows)
      /\ v.registry \in Registries /\ v.timers \in SUBSET Timers
  BY DEF Views, Store, WindowTables
<1>2. v.registry.editing # None => v.registry.editing \in Edited BY <1>1 DEF Registries
<1>3. PICK f, g : f = v.stored /\ g = v.windows OBVIOUS
<1>4. \A id \in DOMAIN f : id \in Nat /\ f[id] \in Entries BY <1>1, <1>3, TableFacts
<1>5. \A id \in DOMAIN g : id \in Nat /\ g[id] \in Windows BY <1>1, <1>3, TableFacts
<1> QED BY <1>1, <1>2, <1>3, <1>4, <1>5

LEMMA RegistryCloseFacts ==
    ASSUME NEW w \in Worlds, NEW w2, w2 = RegistryClose(w)
    PROVE  /\ w2 \in Worlds /\ w2.core = w.core
           /\ Except(w.view, w2.view, {"registry", "timers", "stored"})
           /\ w2.view.registry = ClearedOf(w.view.registry)
           /\ w2.view.timers = w.view.timers \cup Farewell(w.view.registry.editing)
           /\ w2.view.stored = KeptAside(w.view)
<1>1. w.view \in Views /\ w.core \in Cores BY DEF Worlds
<1>2. PICK v, editing : v = w.view /\ editing = w.view.registry.editing OBVIOUS
<1>3. v \in Views /\ v.registry \in Registries /\ (editing # None => editing \in Edited)
  BY <1>1, <1>2, StoreFacts
<1>4. PICK r : r = ClearedOf(v.registry) OBVIOUS
<1>5. r \in Registries BY <1>3, <1>4 DEF ClearedOf, Registries, Contents
<1>6. PICK cleared : cleared = [w EXCEPT !.view.registry
                                = [@ EXCEPT !.document = "blank", !.editing = None,
                                                                !.open = FALSE]]
  OBVIOUS
<1>7. PICK vc : vc = [v EXCEPT !.registry = r] OBVIOUS
<1>8. cleared = [w EXCEPT !.view = vc] BY <1>1, <1>2, <1>4, <1>6, <1>7 DEF Worlds, Views, ClearedOf
<1>9. vc \in Views /\ vc.registry = r /\ Except(v, vc, {"registry"})
  BY <1>3, <1>5, <1>7 DEF Views, Except
<1>10. cleared \in Worlds /\ cleared.core = w.core /\ cleared.view = vc BY <1>8, <1>9, ViewWorld
<1>11. CASE editing = None
  BY <1>2, <1>4, <1>6, <1>9, <1>10, <1>11 DEF RegistryClose, Except, Farewell, KeptAside
<1>12. CASE editing # None /\ editing.k = "shot"
  <2>1. PICK timer : timer = ShotFailed(editing.session) OBVIOUS
  <2>2. w2 = Defer(cleared, timer) BY <1>2, <1>6, <1>12, <2>1 DEF RegistryClose, ShotFailed
  <2>3. timer \in Timers BY <1>3, <1>12, <2>1 DEF Edited, Timers, ShotFailed
  <2>4. /\ w2 \in Worlds /\ w2.core = cleared.core /\ Except(cleared.view, w2.view, {"timers"})
        /\ w2.view.timers = cleared.view.timers \cup {timer}
    BY <1>10, <2>2, <2>3, DeferFacts
  <2>5. Farewell(editing) = {timer} /\ KeptAside(v) = v.stored
    BY <1>2, <1>12, <2>1 DEF Farewell, KeptAside
  <2> QED BY <1>2, <1>4, <1>9, <1>10, <2>4, <2>5 DEF Except
<1>13. CASE editing # None /\ editing.k # "shot"
  <2>1. PICK timer : timer = EditFailed(editing.id, editing.edit) OBVIOUS
  <2>2. timer \in Timers /\ editing.k = "pin" BY <1>3, <1>13, <2>1 DEF Edited, Timers, EditFailed
  <2>3. Farewell(editing) = {timer} BY <1>13, <2>1 DEF Farewell
  <2>4. CASE editing.id \notin DOMAIN v.stored
    <3>1. w2 = Defer(cleared, timer) BY <1>2, <1>6, <1>13, <2>1, <2>4 DEF RegistryClose, EditFailed
    <3>2. /\ w2 \in Worlds /\ w2.core = cleared.core /\ Except(cleared.view, w2.view, {"timers"})
          /\ w2.view.timers = cleared.view.timers \cup {timer}
      BY <1>10, <2>2, <3>1, DeferFacts
    <3> QED BY <1>2, <1>4, <1>9, <1>10, <2>3, <2>4, <3>2 DEF Except, KeptAside
  <2>5. CASE editing.id \in DOMAIN v.stored
    <3>1. PICK entry : entry = [v.stored[editing.id] EXCEPT !.document = v.registry.document]
      OBVIOUS
    <3>2. /\ v.stored \in TableOf(Entries) /\ v.stored[editing.id] \in Entries
          /\ v.registry.document \in Contents
      BY <1>3, <2>5, StoreFacts DEF Registries
    <3>3. entry \in Entries BY <3>1, <3>2 DEF Entries
    <3>4. PICK stored : stored = [v.stored EXCEPT ![editing.id] = entry] OBVIOUS
    <3>5. stored \in Store
      <4>1. PICK f : f = v.stored OBVIOUS
      <4>2. [f EXCEPT ![editing.id] = entry] \in TableOf(Entries)
        BY <2>5, <3>2, <3>3, <4>1, SetTable
      <4> QED BY <3>4, <4>1, <4>2 DEF Store
    <3>6. PICK vs : vs = [vc EXCEPT !.stored = stored] OBVIOUS
    <3>7. vs \in Views /\ vs.stored = stored /\ Except(vc, vs, {"stored"})
      BY <1>9, <3>5, <3>6 DEF Views, Except
    <3>8. PICK kept : kept = [cleared EXCEPT !.view.stored[editing.id].document
                              = w.view.registry.document]
      BY ZenonT(60)
    <3>9. kept = [cleared EXCEPT !.view = vs]
      BY ZenonT(60), <1>2, <1>9, <1>10, <3>1, <3>4, <3>6, <3>8 DEF Except, Worlds, Views
    <3>10. kept \in Worlds /\ kept.core = w.core /\ kept.view = vs
      BY SMTT(30), <1>10, <3>7, <3>9, ViewWorld
    <3>11. w2 = Defer(kept, timer)
      BY <1>2, <1>6, <1>13, <2>1, <2>5, <3>8 DEF RegistryClose, EditFailed
    <3>12. /\ w2 \in Worlds /\ w2.core = kept.core /\ Except(kept.view, w2.view, {"timers"})
           /\ w2.view.timers = kept.view.timers \cup {timer}
      BY <2>2, <3>10, <3>11, DeferFacts
    <3>13. KeptAside(v) = stored BY ZenonT(60), <1>2, <1>13, <2>2, <2>5, <3>1, <3>4 DEF KeptAside
    <3> QED BY <1>2, <1>4, <1>9, <2>3, <3>7, <3>10, <3>12, <3>13 DEF Except
  <2> QED BY <2>4, <2>5
<1> QED BY <1>11, <1>12, <1>13

\* What each dispatch tells: the core before and after.  One that changes nothing is silent.
EndedTold(c, d, s) ==
    IF c.shot.session = s /\ Active(c)
    THEN LET shot == Quiescent(c.shot) IN
         Told(c, d, shot, c.pins, <<SyncOf(shot, c.pins), RestoreOf(s)>>, {}) /\ Kept(c, d)
    ELSE d = c
CompletedTold(c, d, s, operation, saved) ==
    IF Current(c, s, operation)
    THEN IF saved
         THEN LET shot == Quiescent(c.shot) IN
              Told(c, d, shot, c.pins, <<SyncOf(shot, c.pins), RestoreOf(s)>>, {}) /\ Kept(c, d)
         ELSE LET shot == Reworked(c.shot) IN
              Told(c, d, shot, c.pins, <<SyncOf(shot, c.pins)>>, {}) /\ Kept(c, d)
    ELSE d = c
SelectedTold(c, d, s, bounds) ==
    \/ d = c /\ ~ Is(c, s, "Selecting")
    \/ /\ Is(c, s, "Selecting") \/ Is(c, s, "Editing")
       /\ LET shot == Placed(c.shot, bounds) IN
          Told(c, d, shot, c.pins, <<SyncOf(shot, c.pins)>>, {}) /\ Kept(c, d)
PreparingOf(s) == [session |-> s, phase |-> "Preparing", operation |-> 0, bounds |-> 0]
SuspendOf(s)   == [k |-> "Suspend", session |-> s]
PrepareOf(s)   == [k |-> "prepare", session |-> s]
RequestedTold(c, d) ==
    IF Active(c) THEN d = c
    ELSE LET s    == c.shot.session + 1
             shot == PreparingOf(s)
         IN /\ Told(c, d, shot, c.pins, <<SyncOf(shot, c.pins), SuspendOf(s)>>, {PrepareOf(s)})
            /\ d.held = [session |-> s, frames |-> FALSE]
            /\ PendingKept(c, d) /\ ImagesSynced(c, d) /\ PreviewsKept(c, d)
OutputTold(c, d, s, operation, kind) ==
    \/ d = c
    \/ /\ Asked(c, s, operation)
       /\ LET shot == Outputting(c.shot, operation) IN
          /\ Told(c, d, shot, c.pins, <<SyncOf(shot, c.pins)>>, {OutputOf(s, operation, kind)})
          /\ Kept(c, d)
EditEndedTold(c, d, id, edit) ==
    IF EditsIn(c, id, edit)
    THEN LET pins == PinSet(c.pins, id, Unedited(c.pins[id])) IN
         Told(c, d, c.shot, pins, <<SyncOf(c.shot, pins), EndEditOf(id, edit)>>, {}) /\ Kept(c, d)
    ELSE d = c
DocumentTold(c, d, id, document) ==
    IF Taken(c, id, document)
    THEN LET pins == PinSet(c.pins, id, ChangedPin(c.pins[id], document))
             r    == c.pins[id].revision + 1
         IN /\ Told(c, d, c.shot, pins, <<SyncOf(c.shot, pins)>>, Pictures(c, id, r))
            /\ Repainted(c, d, id, r)
    ELSE d = c
Ending(shot, pins, id, pin) ==
    IF pin.editing # 0 THEN <<SyncOf(shot, pins), EndEditOf(id, pin.editing)>>
        ELSE <<SyncOf(shot, pins)>>
HiddenTold(c, d, id, hidden) ==
    \/ d = c
    \/ /\ Has(c, id)
       /\ LET pin  == c.pins[id]
              pins == PinSet(c.pins, id, HiddenPin(pin, hidden))
          IN /\ Told(c, d, c.shot, pins, Ending(c.shot, pins, id, pin),
                     IF pin.document # None THEN Pictures(c, id, pin.revision + 1) ELSE {})
             /\ IF pin.document # None THEN Repainted(c, d, id, pin.revision + 1) ELSE Kept(c, d)
ClosedTold(c, d, id) ==
    IF Has(c, id)
    THEN LET pins == Without(c.pins, id) IN
         /\ Told(c, d, c.shot, pins, Append(Closing(c.shot, pins, id, c.pins[id]), ClosePinOf(id)),
                 {})
         /\ Kept(c, d)
    ELSE d = c
OpenedTold(c, d, id, source) ==
    \/ /\ Told(c, d, c.shot, c.pins, Append(<<SyncOf(c.shot, c.pins)>>, ClosePinOf(id)), {})
       /\ Kept(c, d)
    \/ /\ Is(c, source[1], "Output") /\ c.shot.operation = source[2]
       /\ LET pins == Put(c.pins, id, NewPin) IN
          /\ Told(c, d, c.shot, pins, <<SyncOf(c.shot, pins)>>, {})
          /\ HeldKept(c, d) /\ PreviewsKept(c, d)
          /\ Retained(c, d, id, source)
PinOutputTold(c, d, id) ==
    \/ d = c
    \/ /\ Has(c, id)
       /\ LET pin  == c.pins[id]
              pins == PinSet(c.pins, id, BusyPin(pin))
          IN /\ Told(c, d, c.shot, pins, <<SyncOf(c.shot, pins)>>, {PinJob(id, pin.operation + 1)})
             /\ Kept(c, d)
EditRequestedTold(c, d, id) ==
    \/ d = c
    \/ /\ ~Active(c) /\ Has(c, id) /\ c.pins[id].editing = 0 /\ c.pins[id].document # None
       /\ \E new \in Seq(Closures) : LET pins == BegunPins(c.pins, id) IN
          Told(c, d, c.shot, pins, new, {}) /\ Begun(new, c.shot, c.pins, id) /\ Kept(c, d)

LEMMA WorldTold ==
    ASSUME NEW w \in Worlds, NEW w2, w2 = w \/ \E d \in Cores : w2 = [w EXCEPT !.core = d]
    PROVE  w2 \in Worlds /\ w2.view = w.view /\ w.core \in Cores
           /\ (w2 = w => w2.core = w.core)
           /\ \A d \in Cores : w2 = [w EXCEPT !.core = d] => w2.core = d
  BY WorldFacts DEF Worlds

LEMMA EndedWorld ==
    ASSUME NEW w \in Worlds, NEW s \in Nat,
           NEW w2, w2 = Emit(w, Ended(w.core, s))
    PROVE  w2 \in Worlds /\ w2.view = w.view /\ EndedTold(w.core, w2.core, s)
<1>1. CASE ~ (w.core.shot.session = s /\ Active(w.core)) BY <1>1, EndedEmit, WorldTold DEF EndedTold
<1>2. CASE w.core.shot.session = s /\ Active(w.core)
  <2>1. PICK d \in Cores : /\ w2 = [w EXCEPT !.core = d]
      /\ LET shot == Quiescent(w.core.shot) IN
           /\ Told(w.core, d, shot, w.core.pins, <<SyncOf(shot, w.core.pins), RestoreOf(s)>>, {})
           /\ Kept(w.core, d)
    BY <1>2, EndedEmit
  <2>2. w2 \in Worlds /\ w2.view = w.view /\ w2.core = d BY <2>1, WorldTold
  <2> QED BY <1>2, <2>1, <2>2 DEF EndedTold
<1> QED BY <1>1, <1>2

LEMMA CompletedWorld ==
    ASSUME NEW w \in Worlds, NEW s \in Nat, NEW operation \in Nat, NEW result,
           NEW w2, w2 = Emit(w, Completed(w.core, s, operation, result))
    PROVE  /\ w2 \in Worlds /\ w2.view = w.view
           /\ CompletedTold(w.core, w2.core, s, operation, result = "saved")
<1>0. /\ ~ Current(w.core, s, operation) =>
           Emit(w, Completed(w.core, s, operation, result)) = w
      /\ Current(w.core, s, operation) /\ result = "saved" =>
           \E d \in Cores : LET shot == Quiescent(w.core.shot) IN
             /\ Emit(w, Completed(w.core, s, operation, result)) = [w EXCEPT !.core = d]
             /\ Told(w.core, d, shot, w.core.pins, <<SyncOf(shot, w.core.pins), RestoreOf(s)>>, {})
             /\ Kept(w.core, d)
      /\ Current(w.core, s, operation) /\ result # "saved" =>
           \E d \in Cores : LET shot == Reworked(w.core.shot) IN
             /\ Emit(w, Completed(w.core, s, operation, result)) = [w EXCEPT !.core = d]
             /\ Told(w.core, d, shot, w.core.pins, <<SyncOf(shot, w.core.pins)>>, {})
             /\ Kept(w.core, d)
  BY CompletedEmit
<1>1. CASE ~ Current(w.core, s, operation) BY <1>0, <1>1, WorldTold DEF CompletedTold
<1>2. CASE Current(w.core, s, operation) /\ result = "saved"
  <2>1. PICK d \in Cores : /\ w2 = [w EXCEPT !.core = d]
      /\ LET shot == Quiescent(w.core.shot) IN
           /\ Told(w.core, d, shot, w.core.pins, <<SyncOf(shot, w.core.pins), RestoreOf(s)>>, {})
           /\ Kept(w.core, d)
    BY <1>0, <1>2
  <2>2. w2 \in Worlds /\ w2.view = w.view /\ w2.core = d BY <2>1, WorldTold
  <2> QED BY <1>2, <2>1, <2>2 DEF CompletedTold
<1>3. CASE Current(w.core, s, operation) /\ result # "saved"
  <2>1. PICK d \in Cores : /\ w2 = [w EXCEPT !.core = d]
      /\ LET shot == Reworked(w.core.shot) IN
           /\ Told(w.core, d, shot, w.core.pins, <<SyncOf(shot, w.core.pins)>>, {})
           /\ Kept(w.core, d)
    BY <1>0, <1>3
  <2>2. w2 \in Worlds /\ w2.view = w.view /\ w2.core = d BY <2>1, WorldTold
  <2> QED BY <1>3, <2>1, <2>2 DEF CompletedTold
<1> QED BY <1>1, <1>2, <1>3

LEMMA RequestedWorld ==
    ASSUME NEW w \in Worlds, NEW w2, w2 = Emit(w, Requested(w.core))
    PROVE  w2 \in Worlds /\ w2.view = w.view /\ RequestedTold(w.core, w2.core)
<1>1. CASE Active(w.core) BY <1>1, RequestedEmit, WorldTold DEF RequestedTold
<1>2. CASE ~Active(w.core)
  <2>1. PICK d \in Cores : /\ w2 = [w EXCEPT !.core = d]
      /\ LET s    == w.core.shot.session + 1
             shot == PreparingOf(s)
         IN /\ Told(w.core, d, shot, w.core.pins, <<SyncOf(shot, w.core.pins), SuspendOf(s)>>,
                    {PrepareOf(s)})
            /\ d.held = [session |-> s, frames |-> FALSE]
            /\ PendingKept(w.core, d) /\ ImagesSynced(w.core, d) /\ PreviewsKept(w.core, d)
    BY <1>2, RequestedEmit DEF PreparingOf, SuspendOf, PrepareOf
  <2>2. w2 \in Worlds /\ w2.view = w.view /\ w2.core = d BY <2>1, WorldTold
  <2> QED BY <1>2, <2>1, <2>2 DEF RequestedTold
<1> QED BY <1>1, <1>2

LEMMA EditEndedWorld ==
    ASSUME NEW w \in Worlds, NEW id \in Nat, NEW edit \in Nat,
           NEW w2, w2 = Emit(w, EditEnded(w.core, id, edit))
    PROVE  w2 \in Worlds /\ w2.view = w.view /\ EditEndedTold(w.core, w2.core, id, edit)
<1>1. CASE ~ EditsIn(w.core, id, edit)
  <2>1. w2 = w BY <1>1, EditEndedEmit
  <2> QED BY <1>1, <2>1, WorldTold DEF EditEndedTold
<1>2. CASE EditsIn(w.core, id, edit)
  <2>1. PICK d \in Cores : /\ w2 = [w EXCEPT !.core = d]
      /\ LET pins == PinSet(w.core.pins, id, Unedited(w.core.pins[id])) IN
           /\ Told(w.core, d, w.core.shot, pins, <<SyncOf(w.core.shot, pins), EndEditOf(id, edit)>>,
                   {})
           /\ Kept(w.core, d)
    BY <1>2, EditEndedEmit
  <2>2. w2 \in Worlds /\ w2.view = w.view /\ w2.core = d BY <2>1, WorldTold
  <2> QED BY <1>2, <2>1, <2>2 DEF EditEndedTold
<1> QED BY <1>1, <1>2

LEMMA DocumentWorld ==
    ASSUME NEW w \in Worlds, NEW id \in Nat, NEW document \in Documents,
           NEW w2, w2 = Emit(w, DocumentChanged(w.core, id, document))
    PROVE  w2 \in Worlds /\ w2.view = w.view /\ DocumentTold(w.core, w2.core, id, document)
<1>1. CASE ~ Taken(w.core, id, document)
  <2>1. w2 = w BY <1>1, DocumentEmit
  <2> QED BY <1>1, <2>1, WorldTold DEF DocumentTold
<1>2. CASE Taken(w.core, id, document)
  <2>1. PICK d \in Cores : /\ w2 = [w EXCEPT !.core = d]
      /\ LET pins == PinSet(w.core.pins, id, ChangedPin(w.core.pins[id], document))
             r    == w.core.pins[id].revision + 1
         IN /\ Told(w.core, d, w.core.shot, pins, <<SyncOf(w.core.shot, pins)>>,
                    Pictures(w.core, id, r))
            /\ Repainted(w.core, d, id, r)
    BY <1>2, DocumentEmit
  <2>2. w2 \in Worlds /\ w2.view = w.view /\ w2.core = d BY <2>1, WorldTold
  <2> QED BY <1>2, <2>1, <2>2 DEF DocumentTold
<1> QED BY <1>1, <1>2

LEMMA ClosedWorld ==
    ASSUME NEW w \in Worlds, NEW id \in Nat,
           NEW w2, w2 = Emit(w, Closed(w.core, id))
    PROVE  w2 \in Worlds /\ w2.view = w.view /\ ClosedTold(w.core, w2.core, id)
<1>1. CASE ~ Has(w.core, id) BY <1>1, ClosedEmit, WorldTold DEF ClosedTold
<1>2. CASE Has(w.core, id)
  <2>1. PICK d \in Cores : /\ w2 = [w EXCEPT !.core = d]
      /\ LET pins == Without(w.core.pins, id) IN
         /\ Told(w.core, d, w.core.shot, pins,
                 Append(Closing(w.core.shot, pins, id, w.core.pins[id]), ClosePinOf(id)), {})
         /\ Kept(w.core, d)
    BY <1>2, ClosedEmit
  <2>2. w2 \in Worlds /\ w2.view = w.view /\ w2.core = d BY <2>1, WorldTold
  <2> QED BY <1>2, <2>1, <2>2 DEF ClosedTold
<1> QED BY <1>1, <1>2

LEMMA SelectedWorld ==
    ASSUME NEW w \in Worlds, NEW s \in Nat, NEW bounds \in Nat,
           NEW w2, w2 = Emit(w, Selected(w.core, s, bounds))
    PROVE  w2 \in Worlds /\ w2.view = w.view /\ SelectedTold(w.core, w2.core, s, bounds)
<1>1. \/ w2 = w /\ SelectedTold(w.core, w.core, s, bounds)
      \/ \E d \in Cores : w2 = [w EXCEPT !.core = d] /\ SelectedTold(w.core, d, s, bounds)
  BY SelectedEmit DEF SelectedTold
<1>2. CASE w2 = w /\ SelectedTold(w.core, w.core, s, bounds) BY <1>2, WorldTold
<1>3. CASE \E d \in Cores : w2 = [w EXCEPT !.core = d] /\ SelectedTold(w.core, d, s, bounds)
  BY <1>3, WorldTold
<1> QED BY <1>1, <1>2, <1>3

LEMMA OutputWorld ==
    ASSUME NEW w \in Worlds, NEW s \in Nat, NEW operation \in Nat, NEW kind \in Kinds, NEW bounds,
           Active(w.core) => Holds(w.core, w.core.shot.session),
           NEW w2, w2 = Emit(w, OutputRequested(w.core, s, operation, kind, bounds))
    PROVE  w2 \in Worlds /\ w2.view = w.view /\ OutputTold(w.core, w2.core, s, operation, kind)
<1>0. \/ Emit(w, OutputRequested(w.core, s, operation, kind, bounds)) = w
      \/ /\ Asked(w.core, s, operation)
         /\ \E d \in Cores : LET shot == Outputting(w.core.shot, operation) IN
             /\ Emit(w, OutputRequested(w.core, s, operation, kind, bounds)) = [w EXCEPT !.core = d]
             /\ Told(w.core, d, shot, w.core.pins, <<SyncOf(shot, w.core.pins)>>,
                     {OutputOf(s, operation, kind)})
             /\ Kept(w.core, d)
  BY OutputRequestedEmit
<1>1. \/ w2 = w /\ OutputTold(w.core, w.core, s, operation, kind)
      \/ \E d \in Cores : w2 = [w EXCEPT !.core = d] /\ OutputTold(w.core, d, s, operation, kind)
  BY <1>0, WorldTold DEF OutputTold
<1>2. CASE w2 = w /\ OutputTold(w.core, w.core, s, operation, kind) BY <1>2, WorldTold
<1>3. CASE \E d \in Cores : w2 = [w EXCEPT !.core = d] /\ OutputTold(w.core, d, s, operation, kind)
  BY <1>3, WorldTold
<1> QED BY <1>1, <1>2, <1>3

LEMMA HiddenWorld ==
    ASSUME NEW w \in Worlds, NEW id \in Nat, NEW hidden \in BOOLEAN,
           NEW w2, w2 = Emit(w, VisibilityChanged(w.core, id, hidden))
    PROVE  w2 \in Worlds /\ w2.view = w.view /\ HiddenTold(w.core, w2.core, id, hidden)
<1>1. \/ w2 = w /\ HiddenTold(w.core, w.core, id, hidden)
      \/ \E d \in Cores : w2 = [w EXCEPT !.core = d] /\ HiddenTold(w.core, d, id, hidden)
  BY VisibilityEmit DEF HiddenTold, Ending
<1>2. CASE w2 = w /\ HiddenTold(w.core, w.core, id, hidden) BY <1>2, WorldTold
<1>3. CASE \E d \in Cores : w2 = [w EXCEPT !.core = d] /\ HiddenTold(w.core, d, id, hidden)
  BY <1>3, WorldTold
<1> QED BY <1>1, <1>2, <1>3

LEMMA OpenedWorld ==
    ASSUME NEW w \in Worlds, NEW id \in Nat, NEW source \in Sources, ~ Has(w.core, id),
           NEW w2, w2 = Emit(w, Opened(w.core, id, source))
    PROVE  w2 \in Worlds /\ w2.view = w.view /\ OpenedTold(w.core, w2.core, id, source)
<1>0. \/ \E d \in Cores :
             /\ Emit(w, Opened(w.core, id, source)) = [w EXCEPT !.core = d]
             /\ Told(w.core, d, w.core.shot, w.core.pins,
                     Append(<<SyncOf(w.core.shot, w.core.pins)>>, ClosePinOf(id)), {})
             /\ Kept(w.core, d)
      \/ /\ Is(w.core, source[1], "Output") /\ w.core.shot.operation = source[2]
         /\ \E d \in Cores : LET pins == Put(w.core.pins, id, NewPin) IN
             /\ Emit(w, Opened(w.core, id, source)) = [w EXCEPT !.core = d]
             /\ Told(w.core, d, w.core.shot, pins, <<SyncOf(w.core.shot, pins)>>, {})
             /\ HeldKept(w.core, d) /\ PreviewsKept(w.core, d)
             /\ Retained(w.core, d, id, source)
  BY OpenedEmit
<1>1. \/ w2 = w /\ OpenedTold(w.core, w.core, id, source)
      \/ \E d \in Cores : w2 = [w EXCEPT !.core = d] /\ OpenedTold(w.core, d, id, source)
  BY <1>0, WorldTold DEF OpenedTold
<1>2. CASE w2 = w /\ OpenedTold(w.core, w.core, id, source) BY <1>2, WorldTold
<1>3. CASE \E d \in Cores : w2 = [w EXCEPT !.core = d] /\ OpenedTold(w.core, d, id, source)
  BY <1>3, WorldTold
<1> QED BY <1>1, <1>2, <1>3

LEMMA PinOutputWorld ==
    ASSUME NEW w \in Worlds, NEW id \in Nat, Has(w.core, id) => id \in w.core.images,
           NEW w2, w2 = Emit(w, PinOutputRequested(w.core, id))
    PROVE  w2 \in Worlds /\ w2.view = w.view /\ PinOutputTold(w.core, w2.core, id)
<1>1. \/ w2 = w /\ PinOutputTold(w.core, w.core, id)
      \/ \E d \in Cores : w2 = [w EXCEPT !.core = d] /\ PinOutputTold(w.core, d, id)
  BY PinOutputEmit DEF PinOutputTold
<1>2. CASE w2 = w /\ PinOutputTold(w.core, w.core, id) BY <1>2, WorldTold
<1>3. CASE \E d \in Cores : w2 = [w EXCEPT !.core = d] /\ PinOutputTold(w.core, d, id)
  BY <1>3, WorldTold
<1> QED BY <1>1, <1>2, <1>3

LEMMA EditRequestedWorld ==
    ASSUME NEW w \in Worlds, NEW id \in Nat,
           NEW w2, w2 = Emit(w, EditRequested(w.core, id))
    PROVE  w2 \in Worlds /\ w2.view = w.view /\ EditRequestedTold(w.core, w2.core, id)
<1>1. \/ w2 = w /\ EditRequestedTold(w.core, w.core, id)
      \/ \E d \in Cores : w2 = [w EXCEPT !.core = d] /\ EditRequestedTold(w.core, d, id)
  BY EditRequestedEmit DEF EditRequestedTold
<1>2. CASE w2 = w /\ EditRequestedTold(w.core, w.core, id) BY <1>2, WorldTold
<1>3. CASE \E d \in Cores : w2 = [w EXCEPT !.core = d] /\ EditRequestedTold(w.core, d, id)
  BY <1>3, WorldTold
<1> QED BY <1>1, <1>2, <1>3

OpenOf(registry) == [registry EXCEPT !.open = TRUE]
ShutOf(document, capture)   == [document |-> document, open |-> FALSE, editing |-> None,
                                capture |-> capture]
OpenedOf(document, capture) == [document |-> document, open |-> TRUE, editing |-> None,
                                capture |-> capture]

LentTo(registry, document, capture) == [registry EXCEPT !.document = document, !.capture = capture]
WithRegistry(w, registry)   == [w EXCEPT !.view.registry = registry]

LEMMA ShutFacts ==
    ASSUME NEW document \in Contents, NEW capture \in Captures, NEW r, r = ShutOf(document, capture)
    PROVE  /\ r \in Registries /\ r.document = document /\ ~r.open
           /\ r.editing = None /\ r.capture = capture
  BY DEF ShutOf, Registries

LEMMA OpenShut ==
    ASSUME NEW document, NEW capture
    PROVE  OpenOf(ShutOf(document, capture)) = OpenedOf(document, capture)
<1>1. PICK r : r = OpenOf(ShutOf(document, capture)) OBVIOUS
<1>2. r \in [document : {document}, open : {TRUE}, editing : {None}, capture : {capture}]
  BY <1>1 DEF OpenOf, ShutOf
<1>3. r = OpenedOf(document, capture) BY ONLY <1>2 DEF OpenedOf
<1> QED BY <1>1, <1>3

LEMMA ShutLent ==
    ASSUME NEW document, NEW capture, NEW content, NEW what
    PROVE  LentTo(ShutOf(document, capture), content, what) = ShutOf(content, what)
<1>1. PICK r : r = LentTo(ShutOf(document, capture), content, what) OBVIOUS
<1>2. r \in [document : {content}, open : {FALSE}, editing : {None}, capture : {what}]
  BY <1>1 DEF ShutOf, LentTo
<1>3. r = ShutOf(content, what) BY ONLY <1>2 DEF ShutOf
<1> QED BY <1>1, <1>3

LEMMA ClearedShut ==
    ASSUME NEW r \in Registries
    PROVE  ClearedOf(r) = ShutOf("blank", r.capture)
<1>1. PICK x : x = ClearedOf(r) OBVIOUS
<1>2. x \in [document : {"blank"}, open : {FALSE}, editing : {None}, capture : {r.capture}]
  BY <1>1 DEF ClearedOf, Registries
<1>3. x = ShutOf("blank", r.capture) BY ONLY <1>2 DEF ShutOf
<1> QED BY <1>1, <1>3

LEMMA RegistrySet ==
    ASSUME NEW w \in Worlds, NEW r \in Registries, NEW w2, w2 = WithRegistry(w, r)
    PROVE  /\ w2 \in Worlds /\ w2.core = w.core /\ w2.view.registry = r
           /\ Except(w.view, w2.view, {"registry"})
<1>1. w.view \in Views BY DEF Worlds
<1>2. PICK v : v = [w.view EXCEPT !.registry = r] OBVIOUS
<1>3. w2 = [w EXCEPT !.view = v] BY <1>2 DEF Worlds, WithRegistry
<1>4. v \in Views /\ v.registry = r BY <1>1, <1>2 DEF Views
<1>5. Except(w.view, v, {"registry"}) BY <1>1, <1>2, <1>4 DEF Views, Except
<1>6. PICK w3 : w3 = [w EXCEPT !.view = v] OBVIOUS
<1>7. w3 \in Worlds /\ w3.core = w.core /\ w3.view = v /\ w2 = w3 BY <1>3, <1>4, <1>6, ViewWorld
<1> QED BY <1>4, <1>5, <1>7

LEMMA ToggleFacts ==
    ASSUME NEW w \in Worlds, NEW w2, w2 = Toggle(w)
    PROVE  /\ ~w.view.registry.open =>
                /\ w2 \in Worlds /\ w2.core = w.core /\ w2.view.registry = OpenOf(w.view.registry)
                /\ Except(w.view, w2.view, {"registry"})
           /\ w.view.registry.open => w2 = CloseEditor(w)
<1>1. CASE ~w.view.registry.open
  <2>1. PICK r : r = OpenOf(w.view.registry) OBVIOUS
  <2>2. w.view.registry \in Registries BY DEF Worlds, Views
  <2>3. r \in Registries BY <2>1, <2>2 DEF OpenOf, Registries
  <2>4. w2 = WithRegistry(w, r)
    BY <1>1, <2>1, <2>2 DEF WithRegistry, Toggle, Worlds, Views, OpenOf, Registries
  <2> QED BY <1>1, <2>1, <2>3, <2>4, RegistrySet
<1> QED BY <1>1 DEF Toggle

\* The editor closed while nothing is edited: only its registry changes.
LEMMA IdleClose ==
    ASSUME NEW w \in Worlds, w.view.registry.editing = None, NEW w2, w2 = RegistryClose(w)
    PROVE  /\ w2 \in Worlds /\ w2.core = w.core /\ Except(w.view, w2.view, {"registry"})
           /\ w2.view.registry = ClearedOf(w.view.registry)
<1>1. /\ w2 \in Worlds /\ w2.core = w.core
      /\ Except(w.view, w2.view, {"registry", "timers", "stored"})
      /\ w2.view.registry = ClearedOf(w.view.registry)
      /\ w2.view.timers = w.view.timers \cup Farewell(w.view.registry.editing)
      /\ w2.view.stored = KeptAside(w.view)
  BY RegistryCloseFacts
<1>2. Farewell(w.view.registry.editing) = {} /\ KeptAside(w.view) = w.view.stored
  BY DEF Farewell, KeptAside
<1> QED BY <1>1, <1>2 DEF Except

\* Where a lent editor was: what is put aside for a screenshot, and put back.
AsideOf(registry) == [document |-> registry.document, capture |-> registry.capture]
BackOf(aside)     == OpenedOf(aside.document, aside.capture)

LEMMA SuspendFacts ==
    ASSUME NEW w \in Worlds, Lent(w.view), w.view.active = None, NEW s \in Nat, NEW w2,
           w2 = Suspend(w, s)
    PROVE  \/ w2 = w /\ (w.view.flow.session # s \/ w.view.flow.phase # "Preparing"
                         \/ w.view.recovery # None)
           \/ w.view.recovery = None /\ w2 = Emit(w, Ended(w.core, s))
           \/ /\ w.view.recovery = None /\ w.view.flow.session = s
              /\ w2 \in Worlds /\ w2.core = w.core
              /\ Except(w.view, w2.view, {"registry", "recovery"})
              /\ w2.view.recovery = AsideOf(w.view.registry)
              /\ w2.view.registry = ClearedOf(w.view.registry)
<1>1. CASE w.view.flow.session # s \/ w.view.flow.phase # "Preparing" \/ w.view.recovery # None
  BY <1>1 DEF Suspend
<1>2. CASE /\ ~ (w.view.flow.session # s \/ w.view.flow.phase # "Preparing"
                 \/ w.view.recovery # None)
           /\ ~w.view.registry.open
  BY <1>2 DEF Suspend
<1>3. CASE /\ ~ (w.view.flow.session # s \/ w.view.flow.phase # "Preparing"
                 \/ w.view.recovery # None)
           /\ w.view.registry.open
  <2>1. PICK v : v = w.view OBVIOUS
  <2>2. v \in Views /\ v.registry \in Registries /\ v.registry.editing = None
    BY <1>3, <2>1 DEF Worlds, Views, Lent
  <2>3. PICK aside : aside = AsideOf(v.registry) OBVIOUS
  <2>4. aside \in PutAside BY <2>2, <2>3 DEF AsideOf, PutAside, Registries
  <2>5. PICK r : r = [v.registry EXCEPT !.document = "blank"] OBVIOUS
  <2>6. r \in Registries /\ r.editing = None /\ ClearedOf(r) = ClearedOf(v.registry)
    BY <2>2, <2>5 DEF Registries, Contents, ClearedOf
  <2>7. PICK v1 : v1 = [v EXCEPT !.recovery = aside, !.registry = r] OBVIOUS
  <2>8. v1 \in Views /\ v1.registry = r /\ v1.recovery = aside BY <2>2, <2>4, <2>6, <2>7 DEF Views
  <2>9. Except(v, v1, {"registry", "recovery"}) BY <2>2, <2>7, <2>8 DEF Views, Except
  <2>10. PICK w1 : w1 = [w EXCEPT !.view = v1] OBVIOUS
  <2>11. w1 \in Worlds /\ w1.core = w.core /\ w1.view = v1 BY <2>8, <2>10, ViewWorld
  <2>12. w2 = RegistryClose(w1)
    BY <1>3, <2>1, <2>2, <2>3, <2>5, <2>7, <2>10 DEF Suspend, Document, Worlds, Views, AsideOf
  <2>13. /\ w2 \in Worlds /\ w2.core = w1.core /\ Except(w1.view, w2.view, {"registry"})
         /\ w2.view.registry = ClearedOf(w1.view.registry)
    BY <2>6, <2>8, <2>11, <2>12, IdleClose
  <2> QED BY <1>3, <2>1, <2>3, <2>6, <2>8, <2>9, <2>11, <2>13 DEF Except
<1> QED BY <1>1, <1>2, <1>3

LEMMA ShowFacts ==
    ASSUME NEW w \in Worlds, NEW s \in Nat, NEW w2, w2 = Show(w, s)
    PROVE  \/ w2 = w /\ ~ (w.view.flow.session = s /\ w.view.flow.phase = "Selecting"
                           /\ w.view.recovery # None)
           \/ /\ w.view.flow.session = s /\ w.view.flow.phase = "Selecting"
              /\ w.view.recovery # None
              /\ w2 \in Worlds /\ w2.core = w.core /\ Except(w.view, w2.view, {"host"})
              /\ w2.view.host = s
<1>1. CASE ~ (w.view.flow.session = s /\ w.view.flow.phase = "Selecting" /\ w.view.recovery # None)
  BY <1>1 DEF Show
<1>2. CASE w.view.flow.session = s /\ w.view.flow.phase = "Selecting" /\ w.view.recovery # None
  <2>1. PICK v : v = [w.view EXCEPT !.host = s] OBVIOUS
  <2>2. w2 = [w EXCEPT !.view = v] /\ w.view \in Views BY <1>2, <2>1 DEF Show, Worlds
  <2>3. v \in Views /\ v.host = s BY <2>1, <2>2 DEF Views
  <2>4. Except(w.view, v, {"host"}) BY <2>1, <2>2, <2>3 DEF Views, Except
  <2> QED BY <1>2, <2>2, <2>3, <2>4, ViewWorld
<1> QED BY <1>1, <1>2

LEMMA RestoreFacts ==
    ASSUME NEW w \in Worlds, NEW s \in Nat, NEW w2, w2 = Restore(w, s)
    PROVE  \/ w2 = w /\ (w.view.flow.session # s \/ w.view.recovery = None)
           \/ /\ w.view.flow.session = s /\ w.view.recovery # None
              /\ w2 \in Worlds /\ w2.core = w.core
              /\ Except(w.view, w2.view, {"registry", "recovery", "host"})
              /\ w2.view.recovery = None /\ w2.view.host = 0
              /\ w2.view.registry = BackOf(w.view.recovery)
<1>1. CASE w.view.flow.session # s \/ w.view.recovery = None BY <1>1 DEF Restore
<1>2. CASE w.view.flow.session = s /\ w.view.recovery # None
  <2>1. PICK v : v = w.view OBVIOUS
  <2>2. v \in Views /\ v.registry \in Registries /\ v.recovery \in PutAside
    BY <1>2, <2>1 DEF Worlds, Views
  <2>3. PICK r : r = [v.registry EXCEPT !.editing = None] OBVIOUS
  <2>4. r \in Registries /\ r.editing = None BY <2>2, <2>3 DEF Registries
  <2>5. PICK v1 : v1 = [v EXCEPT !.recovery = None, !.host = 0, !.registry = r] OBVIOUS
  <2>6. v1 \in Views /\ v1.registry = r /\ v1.recovery = None /\ v1.host = 0
    BY <2>2, <2>4, <2>5 DEF Views
  <2>7. Except(v, v1, {"registry", "recovery", "host"}) BY <2>2, <2>5, <2>6 DEF Views, Except
  <2>8. PICK w1 : w1 = [w EXCEPT !.view = v1] OBVIOUS
  <2>9. w1 \in Worlds /\ w1.core = w.core /\ w1.view = v1 BY <2>6, <2>8, ViewWorld
  <2>10. w1 = Editing([w EXCEPT !.view.recovery = None, !.view.host = 0], None)
    BY <2>1, <2>2, <2>3, <2>5, <2>8 DEF Editing, Worlds, Views
  <2>11. PICK closed : closed = RegistryClose(w1) OBVIOUS
  <2>12. /\ closed \in Worlds /\ closed.core = w1.core /\ Except(w1.view, closed.view, {"registry"})
         /\ closed.view.registry = ClearedOf(w1.view.registry)
    BY <2>4, <2>6, <2>9, <2>11, IdleClose
  <2>13. PICK r2 : r2 = ShutOf(v.recovery.document, v.recovery.capture) OBVIOUS
  <2>14. r2 \in Registries /\ ~r2.open /\ OpenOf(r2) = BackOf(v.recovery)
    BY <2>2, <2>13, ShutFacts, OpenShut DEF PutAside, BackOf
  <2>15. PICK w3 : w3 = WithRegistry(closed, r2) OBVIOUS
  <2>16. /\ w3 \in Worlds /\ w3.core = closed.core /\ w3.view.registry = r2
         /\ Except(closed.view, w3.view, {"registry"})
    BY <2>12, <2>14, <2>15, RegistrySet
  <2>17. r2 = LentTo(closed.view.registry, v.recovery.document, v.recovery.capture)
    BY <2>4, <2>6, <2>9, <2>12, <2>13, ClearedShut, ShutLent
  <2>18. w3 = [closed EXCEPT !.view.registry.document = v.recovery.document,
                             !.view.registry.capture = v.recovery.capture]
    BY <2>12, <2>15, <2>17 DEF Worlds, Views, WithRegistry, LentTo
  <2>19. w2 = Toggle(w3) BY <1>2, <2>1, <2>10, <2>11, <2>18 DEF Restore
  <2>20. /\ w2 \in Worlds /\ w2.core = w3.core /\ w2.view.registry = OpenOf(w3.view.registry)
         /\ Except(w3.view, w2.view, {"registry"})
    BY <2>14, <2>16, <2>19, ToggleFacts
  <2>21. w2.view.registry = BackOf(w.view.recovery) /\ w2.core = w.core
    BY <2>1, <2>9, <2>12, <2>14, <2>16, <2>20
  <2>22. /\ Except(w.view, w2.view, {"registry", "recovery", "host"}) /\ w2.view.recovery = None
         /\ w2.view.host = 0
    BY <2>1, <2>6, <2>7, <2>9, <2>12, <2>16, <2>20 DEF Except
  <2> QED BY <1>2, <2>20, <2>21, <2>22
<1> QED BY SMTT(30), <1>1, <1>2

\* The windows and the documents of pins: one of them is changed, added or removed.
Rewindowed(v, v2, id, window) ==
    /\ DOMAIN v2.windows = DOMAIN v.windows /\ v2.windows[id] = window
    /\ \A other \in DOMAIN v.windows : other # id => v2.windows[other] = v.windows[other]
Restocked(v, v2, id, entry) ==
    /\ DOMAIN v2.stored = DOMAIN v.stored /\ v2.stored[id] = entry
    /\ \A other \in DOMAIN v.stored : other # id => v2.stored[other] = v.stored[other]
WithWindow(w, id, window) == [w EXCEPT !.view.windows[id] = window]
WithEntry(w, id, entry)   == [w EXCEPT !.view.stored[id] = entry]

LEMMA WindowSet ==
    ASSUME NEW w \in Worlds, NEW id \in DOMAIN w.view.windows, NEW x \in Windows,
           NEW w2, w2 = WithWindow(w, id, x)
    PROVE  /\ w2 \in Worlds /\ w2.core = w.core /\ Except(w.view, w2.view, {"windows"})
           /\ Rewindowed(w.view, w2.view, id, x)
<1>1. w.view \in Views /\ w.view.windows \in TableOf(Windows) BY DEF Worlds, Views, WindowTables
<1>2. PICK f : f = [w.view.windows EXCEPT ![id] = x] OBVIOUS
<1>3. f \in WindowTables BY <1>1, <1>2, SetTable DEF WindowTables
<1>4. /\ DOMAIN f = DOMAIN w.view.windows /\ f[id] = x
      /\ \A other \in DOMAIN w.view.windows : other # id => f[other] = w.view.windows[other]
  BY <1>2
<1>5. PICK v : v = [w.view EXCEPT !.windows = f] OBVIOUS
<1>6. v \in Views /\ v.windows = f BY <1>1, <1>3, <1>5 DEF Views
<1>7. Except(w.view, v, {"windows"}) BY <1>1, <1>5, <1>6 DEF Views, Except
<1>8. PICK w3 : w3 = [w EXCEPT !.view = v] OBVIOUS
<1>9. w2 = w3 BY <1>2, <1>5, <1>8 DEF WithWindow, Worlds, Views
<1>10. w3 \in Worlds /\ w3.core = w.core /\ w3.view = v BY <1>6, <1>8, ViewWorld
<1> QED BY <1>4, <1>6, <1>7, <1>9, <1>10 DEF Rewindowed

LEMMA EntrySet ==
    ASSUME NEW w \in Worlds, NEW id \in DOMAIN w.view.stored, NEW x \in Entries,
           NEW w2, w2 = WithEntry(w, id, x)
    PROVE  /\ w2 \in Worlds /\ w2.core = w.core /\ Except(w.view, w2.view, {"stored"})
           /\ Restocked(w.view, w2.view, id, x)
<1>1. w.view \in Views /\ w.view.stored \in TableOf(Entries) BY DEF Worlds, Views, Store
<1>2. PICK f : f = [w.view.stored EXCEPT ![id] = x] OBVIOUS
<1>3. f \in Store BY <1>1, <1>2, SetTable DEF Store
<1>4. /\ DOMAIN f = DOMAIN w.view.stored /\ f[id] = x
      /\ \A other \in DOMAIN w.view.stored : other # id => f[other] = w.view.stored[other]
  BY <1>2
<1>5. PICK v : v = [w.view EXCEPT !.stored = f] OBVIOUS
<1>6. v \in Views /\ v.stored = f BY <1>1, <1>3, <1>5 DEF Views
<1>7. Except(w.view, v, {"stored"}) BY <1>1, <1>5, <1>6 DEF Views, Except
<1>8. PICK w3 : w3 = [w EXCEPT !.view = v] OBVIOUS
<1>9. w2 = w3 BY <1>2, <1>5, <1>8 DEF WithEntry, Worlds, Views
<1>10. w3 \in Worlds /\ w3.core = w.core /\ w3.view = v BY <1>6, <1>8, ViewWorld
<1> QED BY <1>4, <1>6, <1>7, <1>9, <1>10 DEF Restocked

\* What becomes of a window.
ClosingOf(window)          == [window EXCEPT !.phase = "Closing"]
VisibleOf(window)          == [window EXCEPT !.phase = "Visible"]
EditedOf(window)           == [window EXCEPT !.editing = TRUE, !.picture = 0]
ReleasedOf(window)         == [window EXCEPT !.editing = FALSE]
PaintedOf(window, picture) == [window EXCEPT !.picture = picture]

LEMMA WindowFacts ==
    ASSUME NEW x \in Windows, NEW picture \in Nat
    PROVE  /\ ClosingOf(x) \in Windows /\ VisibleOf(x) \in Windows /\ EditedOf(x) \in Windows
           /\ ReleasedOf(x) \in Windows /\ PaintedOf(x, picture) \in Windows
  BY DEF Windows, ClosingOf, VisibleOf, EditedOf, ReleasedOf, PaintedOf

LEMMA EditWindowFacts ==
    ASSUME NEW w \in Worlds, NEW id \in Nat, NEW editing \in BOOLEAN, NEW w2,
           w2 = EditWindow(w, id, editing)
    PROVE  /\ w2 \in Worlds /\ w2.core = w.core /\ Except(w.view, w2.view, {"windows"})
           /\ id \notin DOMAIN w.view.windows => w2 = w
           /\ id \in DOMAIN w.view.windows =>
                Rewindowed(w.view, w2.view, id,
                           IF editing THEN EditedOf(w.view.windows[id])
                               ELSE ReleasedOf(w.view.windows[id]))
<1>1. CASE id \notin DOMAIN w.view.windows BY <1>1 DEF EditWindow, Except, Worlds
<1>2. CASE id \in DOMAIN w.view.windows
  <2>1. PICK y : y = w.view.windows[id] OBVIOUS
  <2>2. w.view \in Views /\ w.view.windows \in TableOf(Windows) BY DEF Worlds, Views, WindowTables
  <2>3. y \in Windows BY <1>2, <2>1, <2>2, TableFacts
  <2>4. PICK x : x = IF editing THEN EditedOf(y) ELSE ReleasedOf(y) OBVIOUS
  <2>5. x \in Windows BY <2>3, <2>4, WindowFacts
  <2>6. w2 = WithWindow(w, id, x)
    <3>1. CASE editing
      <4>1. w2 = [w EXCEPT !.view.windows[id].editing = editing, !.view.windows[id].picture = 0]
        BY <1>2, <3>1 DEF EditWindow
      <4>2. x = [y EXCEPT !.editing = editing, !.picture = 0]
        BY <2>3, <2>4, <3>1 DEF EditedOf, Windows
      <4>3. PICK f : f = w.view.windows OBVIOUS
      <4>4. [f EXCEPT ![id].editing = editing, ![id].picture = 0] = [f EXCEPT ![id] = x]
        BY <1>2, <2>1, <2>2, <4>2, <4>3 DEF TableOf
      <4>5. w2 = [w EXCEPT !.view.windows = [f EXCEPT ![id].editing = editing, ![id].picture = 0]]
        BY ZenonT(60), <1>2, <2>2, <4>1, <4>3 DEF Worlds, Views
      <4> QED BY <4>3, <4>4, <4>5 DEF WithWindow
    <3>2. CASE ~editing
      <4>1. w2 = [w EXCEPT !.view.windows[id].editing = editing, !.view.windows[id].picture = @]
        BY <1>2, <3>2 DEF EditWindow
      <4>2. x = [y EXCEPT !.editing = editing, !.picture = y.picture]
        BY <2>3, <2>4, <3>2 DEF ReleasedOf, Windows
      <4>3. PICK f : f = w.view.windows OBVIOUS
      <4>4. [f EXCEPT ![id].editing = editing, ![id].picture = @] = [f EXCEPT ![id] = x]
        BY <1>2, <2>1, <2>2, <4>2, <4>3 DEF TableOf
      <4>5. w2 = [w EXCEPT !.view.windows = [f EXCEPT ![id].editing = editing, ![id].picture = @]]
        BY ZenonT(60), <1>2, <2>2, <4>1, <4>3 DEF Worlds, Views
      <4> QED BY <4>3, <4>4, <4>5 DEF WithWindow
    <3> QED BY SMTT(30), <3>1, <3>2
  <2> QED BY <1>2, <2>1, <2>4, <2>5, <2>6, WindowSet
<1> QED BY <1>1, <1>2

\* Publishing: the document of the edit, as it is kept and as the core is told.
Publishes(v, id) ==
    /\ v.registry.editing # None /\ v.registry.editing.k = "pin" /\ v.registry.editing.id = id
    /\ id \in DOMAIN v.stored
PublicationOf(v, id) ==
    [session |-> v.registry.editing.edit, request |-> v.stored[id].published.request + 1]
EntryOf(document, published) == [document |-> document, published |-> published]

LEMMA PublicationFacts ==
    ASSUME NEW v \in Views, NEW id, Publishes(v, id)
    PROVE  /\ PublicationOf(v, id) \in Documents /\ id \in Nat /\ v.stored[id] \in Entries
           /\ v.registry \in Registries /\ v.registry.editing \in Edited
           /\ \A content \in Contents : EntryOf(content, PublicationOf(v, id)) \in Entries
  BY StoreFacts DEF Publishes, Edited, Entries, Documents, PublicationOf, EntryOf

LEMMA PublishFacts ==
    ASSUME NEW w \in Worlds, NEW id \in Nat, NEW w2, w2 = Publish(w, id)
    PROVE  \/ w2 = w /\ ~ Publishes(w.view, id)
           \/ /\ Publishes(w.view, id)
              /\ w2 \in Worlds /\ Except(w.view, w2.view, {"stored"})
              /\ Restocked(w.view, w2.view, id,
                           EntryOf(w.view.stored[id].document, PublicationOf(w.view, id)))
              /\ DocumentTold(w.core, w2.core, id, PublicationOf(w.view, id))
<1>1. CASE ~ Publishes(w.view, id) BY <1>1 DEF Publish, Publishes
<1>2. CASE Publishes(w.view, id)
  <2>1. PICK v : v = w.view OBVIOUS
  <2>2. v \in Views /\ w.view \in Views BY <2>1 DEF Worlds
  <2>3. PICK document \in Documents : document = PublicationOf(v, id)
    BY <1>2, <2>1, <2>2, PublicationFacts
  <2>4. PICK entry : entry = EntryOf(v.stored[id].document, document) OBVIOUS
  <2>5. v.stored[id] \in Entries /\ entry \in Entries /\ id \in DOMAIN v.stored
    BY <1>2, <2>1, <2>2, <2>3, <2>4, PublicationFacts DEF Entries, Publishes
  <2>6. PICK kept : kept = WithEntry(w, id, entry) OBVIOUS
  <2>7. kept \in Worlds /\ kept.core = w.core /\ Except(w.view, kept.view, {"stored"})
        /\ Restocked(w.view, kept.view, id, entry)
    BY <2>1, <2>5, <2>6, EntrySet
  <2>8. kept = [w EXCEPT !.view.stored[id].published = document]
    <3>1. PICK f : f = v.stored OBVIOUS
    <3>2. entry = [f[id] EXCEPT !.published = document] BY <2>4, <2>5, <3>1 DEF EntryOf, Entries
    <3>3. [f EXCEPT ![id].published = document] = [f EXCEPT ![id] = entry] BY <2>5, <3>1, <3>2
    <3> QED BY <2>1, <2>2, <2>6, <3>1, <3>3 DEF WithEntry, Worlds, Views
  <2>9. w2 = Emit(kept, DocumentChanged(kept.core, id, document))
    BY <1>2, <2>1, <2>3, <2>8 DEF PublicationOf, Publish, Publishes
  <2>10. w2 \in Worlds /\ w2.view = kept.view /\ DocumentTold(kept.core, w2.core, id, document)
    BY <2>7, <2>9, DocumentWorld
  <2> QED BY <1>2, <2>1, <2>3, <2>4, <2>7, <2>10
<1> QED BY <1>1, <1>2

\* The edit that holds the editor.
Matches(v, id, edit) == v.active # None /\ v.active.id = id /\ v.active.edit = edit
ReturnedOf(a) == IF a.open THEN OpenedOf(a.document, a.capture) ELSE ShutOf(a.document, a.capture)

LEMMA InactiveFacts ==
    ASSUME NEW w \in Worlds, NEW w2, w2 = [w EXCEPT !.view.active = None]
    PROVE  /\ w2 \in Worlds /\ w2.core = w.core /\ w2.view.active = None
           /\ Except(w.view, w2.view, {"active"})
<1>1. w.view \in Views BY DEF Worlds
<1>2. PICK v : v = [w.view EXCEPT !.active = None] OBVIOUS
<1>3. PICK w3 : w3 = [w EXCEPT !.view = v] OBVIOUS
<1>4. w2 = w3 BY <1>2, <1>3 DEF Worlds
<1>5. v \in Views /\ v.active = None BY <1>1, <1>2 DEF Views
<1>6. Except(w.view, v, {"active"}) BY <1>1, <1>2, <1>5 DEF Views, Except
<1>7. w3 \in Worlds /\ w3.core = w.core /\ w3.view = v BY <1>3, <1>5, ViewWorld
<1> QED BY <1>4, <1>5, <1>6, <1>7

LEMMA ShutAlike ==
    ASSUME NEW r \in Registries, ~r.open, r.editing = None
    PROVE  r = ShutOf(r.document, r.capture)
<1>1. PICK x : x = r OBVIOUS
<1>2. x \in [document : {r.document}, open : {FALSE}, editing : {None}, capture : {r.capture}]
  BY <1>1 DEF Registries
<1>3. x = ShutOf(r.document, r.capture) BY ONLY <1>2 DEF ShutOf
<1> QED BY <1>1, <1>3

\* The editor is emptied at the end of an edit; its document is kept with the pin.
EmptiedOf(w, id, edit) ==
    LET editing == w.view.registry.editing IN
    IF editing # None /\ editing.k = "pin" /\ editing.id = id /\ editing.edit = edit
    THEN RegistryClose(Editing(Document(
           IF id \in DOMAIN w.view.stored
           THEN [w EXCEPT !.view.stored[id].document = w.view.registry.document]
           ELSE w, "blank"), None))
    ELSE w
GivenBackOf(w, a, id) ==
    EditWindow([w EXCEPT !.view.registry.document = a.document,
                !.view.registry.capture = a.capture], id, FALSE)

LEMMA EmptiedFacts ==
    ASSUME NEW w \in Worlds, NEW id \in Nat, NEW edit \in Nat, NEW w2, w2 = EmptiedOf(w, id, edit),
           w.view.registry.open => w.view.registry.editing # None,
           w.view.registry.editing # None =>
             /\ w.view.registry.editing.k = "pin" /\ w.view.registry.editing.id = id
             /\ w.view.registry.editing.edit = edit
    PROVE  /\ w2 \in Worlds /\ w2.core = w.core /\ Except(w.view, w2.view, {"registry", "stored"})
           /\ ~w2.view.registry.open /\ w2.view.registry.editing = None
           /\ w2.view.registry \in Registries
           /\ Publishes(w.view, id) =>
                Restocked(w.view, w2.view, id,
                          EntryOf(w.view.registry.document, w.view.stored[id].published))
           /\ ~ Publishes(w.view, id) => w2.view.stored = w.view.stored
<1>1. PICK v : v = w.view OBVIOUS
<1>2. v \in Views /\ v.registry \in Registries BY <1>1 DEF Worlds, Views
<1>3. CASE v.registry.editing = None BY <1>1, <1>2, <1>3 DEF EmptiedOf, Publishes, Except
<1>4. CASE v.registry.editing # None
  <2>1. PICK s : s = IF id \in DOMAIN w.view.stored
                     THEN [w EXCEPT !.view.stored[id].document = w.view.registry.document] ELSE w
    OBVIOUS
  <2>2. w2 = RegistryClose(Editing(Document(s, "blank"), None)) BY <1>1, <1>4, <2>1 DEF EmptiedOf
  <2>3. /\ s \in Worlds /\ s.core = w.core /\ Except(w.view, s.view, {"stored"})
        /\ id \in DOMAIN v.stored =>
             Restocked(w.view, s.view, id,
                       EntryOf(w.view.registry.document, w.view.stored[id].published))
        /\ id \notin DOMAIN v.stored => s.view.stored = w.view.stored
    <3>1. CASE id \notin DOMAIN v.stored BY <1>1, <1>2, <2>1, <3>1 DEF Except
    <3>2. CASE id \in DOMAIN v.stored
      <4>1. PICK f : f = v.stored OBVIOUS
      <4>2. f[id] \in Entries /\ v.registry.document \in Contents
        BY <1>2, <3>2, <4>1, StoreFacts DEF Registries
      <4>3. PICK entry : entry = EntryOf(v.registry.document, f[id].published) OBVIOUS
      <4>4. entry \in Entries /\ entry = [f[id] EXCEPT !.document = v.registry.document]
        BY <4>2, <4>3 DEF EntryOf, Entries
      <4>5. [f EXCEPT ![id].document = v.registry.document] = [f EXCEPT ![id] = entry]
        BY <3>2, <4>1, <4>4
      <4>6. PICK s2 : s2 = WithEntry(w, id, entry) OBVIOUS
      <4>7. s = s2 BY <1>1, <1>2, <2>1, <3>2, <4>1, <4>5, <4>6 DEF WithEntry, Worlds, Views
      <4>8. /\ s2 \in Worlds /\ s2.core = w.core /\ Except(w.view, s2.view, {"stored"})
            /\ Restocked(w.view, s2.view, id, entry)
        BY <1>1, <3>2, <4>4, <4>6, EntrySet
      <4> QED BY <1>1, <3>2, <4>1, <4>3, <4>7, <4>8
    <3> QED BY <3>1, <3>2
  <2>4. PICK r : r = [v.registry EXCEPT !.document = "blank", !.editing = None] OBVIOUS
  <2>5. r \in Registries /\ r.editing = None BY <1>2, <2>4 DEF Registries, Contents
  <2>6. PICK e : e = WithRegistry(s, r) OBVIOUS
  <2>7. /\ e \in Worlds /\ e.core = s.core /\ e.view.registry = r
        /\ Except(s.view, e.view, {"registry"})
    BY <2>3, <2>5, <2>6, RegistrySet
  <2>8. e = Editing(Document(s, "blank"), None)
    BY <1>1, <1>2, <2>3, <2>4, <2>6 DEF Except, WithRegistry, Editing, Document, Worlds, Views
  <2>9. /\ w2 \in Worlds /\ w2.core = e.core /\ Except(e.view, w2.view, {"registry"})
        /\ w2.view.registry = ClearedOf(e.view.registry)
    BY <2>2, <2>5, <2>7, <2>8, IdleClose
  <2>10. /\ ~w2.view.registry.open /\ w2.view.registry.editing = None
         /\ w2.view.registry \in Registries
    BY <2>5, <2>7, <2>9 DEF ClearedOf, Registries, Contents
  <2>11. Publishes(v, id) <=> id \in DOMAIN v.stored BY <1>1, <1>4 DEF Publishes
  <2>12. /\ w2.view.stored = s.view.stored /\ w2.core = w.core
         /\ Except(w.view, w2.view, {"registry", "stored"})
    BY <1>1, <2>3, <2>7, <2>9 DEF Except
  <2> QED BY <1>1, <2>3, <2>9, <2>10, <2>11, <2>12 DEF Restocked
<1> QED BY <1>3, <1>4

LEMMA GivenBackFacts ==
    ASSUME NEW w \in Worlds, NEW a \in Lendings, NEW id \in Nat,
           ~w.view.registry.open, w.view.registry.editing = None,
           NEW w3, w3 = GivenBackOf(w, a, id), NEW w4, w4 = IF a.open THEN Toggle(w3) ELSE w3
    PROVE  /\ w4 \in Worlds /\ w4.core = w.core /\ Except(w.view, w4.view, {"registry", "windows"})
           /\ w4.view.registry = ReturnedOf(a)
           /\ id \notin DOMAIN w.view.windows => w4.view.windows = w.view.windows
           /\ id \in DOMAIN w.view.windows
                => Rewindowed(w.view, w4.view, id, ReleasedOf(w.view.windows[id]))
<1>1. PICK v : v = w.view OBVIOUS
<1>2. v \in Views /\ v.registry \in Registries BY <1>1 DEF Worlds, Views
<1>3. PICK r : r = ShutOf(a.document, a.capture) OBVIOUS
<1>4. r = LentTo(v.registry, a.document, a.capture) BY <1>1, <1>2, <1>3, ShutAlike, ShutLent
<1>5. a.document \in Contents /\ a.capture \in Captures BY DEF Lendings
<1>6. r \in Registries /\ ~r.open BY <1>3, <1>5, ShutFacts
<1>7. PICK w1 : w1 = WithRegistry(w, r) OBVIOUS
<1>8. /\ w1 \in Worlds /\ w1.core = w.core /\ w1.view.registry = r
      /\ Except(w.view, w1.view, {"registry"})
  BY <1>6, <1>7, RegistrySet
<1>9. w1 = [w EXCEPT !.view.registry.document = a.document, !.view.registry.capture = a.capture]
  BY <1>1, <1>2, <1>4, <1>7 DEF WithRegistry, LentTo, Worlds, Views
<1>10. w3 = EditWindow(w1, id, FALSE) BY <1>9 DEF GivenBackOf
<1>11. /\ w3 \in Worlds /\ w3.core = w1.core /\ Except(w1.view, w3.view, {"windows"})
       /\ id \notin DOMAIN w1.view.windows => w3 = w1
       /\ id \in DOMAIN w1.view.windows => Rewindowed(w1.view, w3.view, id,
                                                      ReleasedOf(w1.view.windows[id]))
  <2>1. PICK editing \in BOOLEAN : ~editing /\ w3 = EditWindow(w1, id, editing) BY <1>10
  <2> QED BY <1>8, <2>1, EditWindowFacts
<1>12. w1.view.windows = v.windows /\ w3.view.registry = r BY <1>1, <1>8, <1>11 DEF Except
<1>13. CASE ~a.open BY <1>1, <1>3, <1>8, <1>11, <1>12, <1>13 DEF ReturnedOf, Except, Rewindowed
<1>14. CASE a.open
  BY <1>1, <1>3, <1>6, <1>8, <1>11, <1>12, <1>14, ToggleFacts, OpenShut DEF ReturnedOf, Except,
     Rewindowed
<1> QED BY <1>13, <1>14

\* The end of the edit that holds the editor: published, kept aside, given back.
EditTaken(w, w2, id) ==
    LET v == w.view  v2 == w2.view IN
    /\ w2 \in Worlds /\ Except(v, v2, {"active", "registry", "stored", "windows"})
    /\ v2.active = None /\ v2.registry = ReturnedOf(v.active)
    /\ IF Publishes(v, id)
       THEN /\ Restocked(v, v2, id, EntryOf(v.registry.document, PublicationOf(v, id)))
            /\ DocumentTold(w.core, w2.core, id, PublicationOf(v, id))
       ELSE v2.stored = v.stored /\ w2.core = w.core
    /\ IF id \in DOMAIN v.windows THEN Rewindowed(v, v2, id, ReleasedOf(v.windows[id]))
       ELSE v2.windows = v.windows

LEMMA EndFacts ==
    ASSUME NEW w \in Worlds, Lent(w.view), NEW id \in Nat, NEW edit \in Nat, NEW w2,
           w2 = End(w, id, edit)
    PROVE  IF Matches(w.view, id, edit) THEN EditTaken(w, w2, id) ELSE w2 = w
<1>1. CASE ~ Matches(w.view, id, edit) BY ZenonT(60), <1>1 DEF End, Matches
<1>2. CASE Matches(w.view, id, edit)
  <2>1. PICK v, a : v = w.view /\ a = w.view.active OBVIOUS
  <2>2. v \in Views /\ a \in Lendings /\ v.registry \in Registries
    BY <1>2, <2>1 DEF Worlds, Views, Matches
  <2>3. PICK w0 : w0 = [w EXCEPT !.view.active = None] OBVIOUS
  <2>4. /\ w0 \in Worlds /\ w0.core = w.core /\ w0.view.active = None
        /\ Except(w.view, w0.view, {"active"})
    BY <2>3, InactiveFacts
  <2>5. PICK w1 : w1 = Publish(w0, id) OBVIOUS
  <2>6. (Publishes(w0.view, id) <=> Publishes(v, id))
            /\ PublicationOf(w0.view, id) = PublicationOf(v, id)
        /\ w0.view.stored = v.stored /\ w0.view.windows = v.windows /\ w0.view.registry = v.registry
    BY <2>1, <2>4 DEF Publishes, PublicationOf, Except
  <2>7. \/ w1 = w0 /\ ~ Publishes(w0.view, id)
        \/ /\ Publishes(w0.view, id)
           /\ w1 \in Worlds /\ Except(w0.view, w1.view, {"stored"})
           /\ Restocked(w0.view, w1.view, id,
                        EntryOf(w0.view.stored[id].document, PublicationOf(w0.view, id)))
           /\ DocumentTold(w0.core, w1.core, id, PublicationOf(w0.view, id))
    BY <2>4, <2>5, PublishFacts
  <2>8. w1 \in Worlds /\ Except(w0.view, w1.view, {"stored"}) BY <2>4, <2>7 DEF Except
  <2>9. w1.view.registry = v.registry /\ w1.view.windows = v.windows /\ w1.view.active = None
    BY <2>4, <2>6, <2>8 DEF Except
  <2>10. Publishes(w1.view, id) <=> Publishes(v, id) BY <2>6, <2>7, <2>9 DEF Publishes, Restocked
  <2>11. PICK x : x = EmptiedOf(w1, id, edit) OBVIOUS
  <2>12. /\ w1.view.registry.open => w1.view.registry.editing # None
         /\ w1.view.registry.editing # None =>
              /\ w1.view.registry.editing.k = "pin" /\ w1.view.registry.editing.id = id
              /\ w1.view.registry.editing.edit = edit
    BY <1>2, <2>1, <2>9 DEF Lent, Matches
  <2>13. /\ x \in Worlds /\ x.core = w1.core /\ Except(w1.view, x.view, {"registry", "stored"})
         /\ ~x.view.registry.open /\ x.view.registry.editing = None
         /\ x.view.registry \in Registries
         /\ Publishes(w1.view, id) =>
              Restocked(w1.view, x.view, id,
                        EntryOf(w1.view.registry.document, w1.view.stored[id].published))
         /\ ~ Publishes(w1.view, id) => x.view.stored = w1.view.stored
    BY <2>8, <2>11, <2>12, EmptiedFacts
  <2>14. PICK w3 : w3 = GivenBackOf(x, a, id) OBVIOUS
  <2>15. w2 = IF a.open THEN Toggle(w3) ELSE w3
    <3>1. w2 = LET back == GivenBackOf(EmptiedOf(Publish([w EXCEPT !.view.active = None], id), id,
                                                 edit),
                                       w.view.active, id)
               IN IF w.view.active.open THEN Toggle(back) ELSE back
      BY <1>2, Zenon DEF End, EmptiedOf, GivenBackOf, Matches
    <3> QED BY <2>1, <2>3, <2>5, <2>11, <2>14, <3>1
  <2>16. /\ w2 \in Worlds /\ w2.core = x.core /\ Except(x.view, w2.view, {"registry", "windows"})
         /\ w2.view.registry = ReturnedOf(a)
         /\ id \notin DOMAIN x.view.windows => w2.view.windows = x.view.windows
         /\ id \in DOMAIN x.view.windows
              => Rewindowed(x.view, w2.view, id, ReleasedOf(x.view.windows[id]))
    BY <2>2, <2>13, <2>14, <2>15, GivenBackFacts
  <2>17. Except(v, w2.view, {"active", "registry", "stored", "windows"}) /\ w2.view.active = None
    BY <2>1, <2>4, <2>8, <2>13, <2>16 DEF Except
  <2>18. x.view.windows = v.windows /\ w2.view.stored = x.view.stored
    BY <2>9, <2>13, <2>16 DEF Except
  <2>19. IF id \in DOMAIN v.windows THEN Rewindowed(v, w2.view, id, ReleasedOf(v.windows[id]))
         ELSE w2.view.windows = v.windows
    BY <2>16, <2>18 DEF Rewindowed
  <2>20. CASE Publishes(v, id)
    <3>1. PICK p : p = PublicationOf(v, id) OBVIOUS
    <3>2. /\ Restocked(w0.view, w1.view, id, EntryOf(v.stored[id].document, p))
          /\ DocumentTold(w.core, w1.core, id, p)
      BY <2>4, <2>6, <2>7, <2>20, <3>1
    <3>3. w1.view.stored[id].published = p BY <3>2 DEF Restocked, EntryOf
    <3>4. Restocked(w1.view, x.view, id, EntryOf(v.registry.document, p))
      BY <2>9, <2>10, <2>13, <2>20, <3>3
    <3>5. Restocked(v, w2.view, id, EntryOf(v.registry.document, p))
      BY <2>6, <2>18, <3>2, <3>4 DEF Restocked
    <3> QED BY <1>2, <2>1, <2>13, <2>16, <2>17, <2>19, <2>20, <3>1, <3>2, <3>5 DEF EditTaken
  <2>21. CASE ~ Publishes(v, id)
    BY <1>2, <2>1, <2>4, <2>6, <2>7, <2>10, <2>13, <2>16, <2>17, <2>18, <2>19, <2>21 DEF EditTaken
  <2> QED BY <1>2, <2>20, <2>21
<1> QED BY <1>1, <1>2

\* The beginning of an edit: the registry is put aside and holds the document of the pin.
FreedOf(w) == IF w.view.active = None THEN w ELSE End(w, w.view.active.id, w.view.active.edit)
LendingOf(id, edit, registry) ==
    [id |-> id, edit |-> edit, open |-> registry.open, document |-> registry.document,
     capture |-> registry.capture]
HoldingOf(document, id, edit) ==
    [document |-> document, open |-> TRUE, editing |-> [k |-> "pin", id |-> id, edit |-> edit],
     capture |-> "frozen"]
HoldingShut(document, id, edit) ==
    [document |-> document, open |-> FALSE, editing |-> [k |-> "pin", id |-> id, edit |-> edit],
     capture |-> "frozen"]
Lends(v, id) ==
    /\ id \in DOMAIN v.windows /\ v.windows[id].phase = "Visible"
    /\ id \in DOMAIN v.stored

LEMMA HoldingFacts ==
    ASSUME NEW document \in Contents, NEW id \in Nat, NEW edit \in Nat
    PROVE  /\ HoldingShut(document, id, edit) \in Registries
           /\ ~HoldingShut(document, id, edit).open
           /\ OpenOf(HoldingShut(document, id, edit)) = HoldingOf(document, id, edit)
<1>1. PICK e \in Edited : e = [k |-> "pin", id |-> id, edit |-> edit] BY DEF Edited
<1>2. PICK r : r = HoldingShut(document, id, edit) OBVIOUS
<1>3. r = [document |-> document, open |-> FALSE, editing |-> e, capture |-> "frozen"]
  BY <1>1, <1>2 DEF HoldingShut
<1>4. r \in Registries /\ ~r.open BY <1>3 DEF Registries, Captures
<1>5. PICK x : x = OpenOf(r) OBVIOUS
<1>6. x \in [document : {document}, open : {TRUE}, editing : {e}, capture : {"frozen"}]
  BY <1>3, <1>5 DEF OpenOf
<1>7. PICK y : y = HoldingOf(document, id, edit) OBVIOUS
<1>8. y \in [document : {document}, open : {TRUE}, editing : {e}, capture : {"frozen"}]
  BY <1>1, <1>7 DEF HoldingOf
<1>9. x = [document |-> document, open |-> TRUE, editing |-> e, capture |-> "frozen"] BY ONLY <1>6
<1>10. y = [document |-> document, open |-> TRUE, editing |-> e, capture |-> "frozen"] BY ONLY <1>8
<1> QED BY <1>2, <1>4, <1>5, <1>7, <1>9, <1>10

EditLent(w, w2, id, edit) ==
    LET v == w.view  v2 == w2.view IN
    /\ w2 \in Worlds /\ w2.core = w.core
    /\ Except(v, v2, {"active", "registry", "stored", "windows"})
    /\ v2.active = LendingOf(id, edit, v.registry)
    /\ v2.registry = HoldingOf(v.stored[id].document, id, edit)
    /\ Restocked(v, v2, id, EntryOf("blank", v.stored[id].published))
    /\ Rewindowed(v, v2, id, EditedOf(v.windows[id]))
\* What the editor becomes: the edit is noted, the document is handed over.
TakenOver(w, held, id, edit) ==
    [w EXCEPT
      !.view.active = [id |-> id, edit |-> edit, open |-> held.open,
                       document |-> held.document, capture |-> held.capture],
      !.view.registry = [@ EXCEPT !.document = w.view.stored[id].document,
                                  !.editing = [k |-> "pin", id |-> id, edit |-> edit],
                                  !.capture = "frozen"],
      !.view.stored[id].document = "blank"]

LEMMA TakenOverFacts ==
    ASSUME NEW w \in Worlds, NEW held \in Registries, NEW id \in Nat, NEW edit \in Nat,
           id \in DOMAIN w.view.stored, ~w.view.registry.open, w.view.registry.editing = None,
           NEW w2, w2 = TakenOver(w, held, id, edit)
    PROVE  /\ w2 \in Worlds /\ w2.core = w.core
           /\ Except(w.view, w2.view, {"active", "registry", "stored"})
           /\ w2.view.active = LendingOf(id, edit, held)
           /\ w2.view.registry = HoldingShut(w.view.stored[id].document, id, edit)
           /\ Restocked(w.view, w2.view, id, EntryOf("blank", w.view.stored[id].published))
<1>1. PICK v : v = w.view OBVIOUS
<1>2. v \in Views /\ v.registry \in Registries /\ v.stored[id] \in Entries
  BY <1>1, StoreFacts DEF Worlds
<1>3. PICK active : active = LendingOf(id, edit, held) OBVIOUS
<1>4. active \in Lendings BY <1>3 DEF LendingOf, Lendings, Registries
<1>5. PICK e \in Edited : e = [k |-> "pin", id |-> id, edit |-> edit] BY DEF Edited
<1>6. v.stored[id].document \in Contents /\ v.stored[id].published \in Documents BY <1>2 DEF Entries
<1>7. PICK r : r = HoldingShut(v.stored[id].document, id, edit) OBVIOUS
<1>8. r \in Registries BY <1>6, <1>7, HoldingFacts
<1>9. r = [v.registry EXCEPT !.document = v.stored[id].document, !.editing = e,
           !.capture = "frozen"]
  <2>1. PICK x : x = [v.registry EXCEPT !.document = v.stored[id].document, !.editing = e,
                      !.capture = "frozen"]
    OBVIOUS
  <2>2. x \in [document : {v.stored[id].document}, open : {FALSE}, editing : {e},
               capture : {"frozen"}]
    BY <1>1, <1>2, <2>1 DEF Registries
  <2>3. x = [document |-> v.stored[id].document, open |-> FALSE, editing |-> e,
             capture |-> "frozen"]
    BY ONLY <2>2
  <2>4. r = [document |-> v.stored[id].document, open |-> FALSE, editing |-> e,
             capture |-> "frozen"]
    BY <1>5, <1>7 DEF HoldingShut
  <2> QED BY <2>1, <2>3, <2>4
<1>10. PICK f : f = v.stored OBVIOUS
<1>11. PICK entry : entry = EntryOf("blank", f[id].published) OBVIOUS
<1>12. entry \in Entries /\ entry = [f[id] EXCEPT !.document = "blank"]
  BY <1>2, <1>6, <1>10, <1>11 DEF EntryOf, Entries, Contents
<1>13. [f EXCEPT ![id].document = "blank"] = [f EXCEPT ![id] = entry] BY <1>1, <1>10, <1>12
<1>14. PICK v1 : v1 = [v EXCEPT !.active = active, !.registry = r] OBVIOUS
<1>15. v1 \in Views /\ v1.active = active /\ v1.registry = r /\ v1.stored = f
  BY <1>2, <1>4, <1>8, <1>10, <1>14 DEF Views
<1>16. Except(v, v1, {"active", "registry"}) BY <1>2, <1>14, <1>15 DEF Views, Except
<1>17. PICK w1 : w1 = [w EXCEPT !.view = v1] OBVIOUS
<1>18. w1 \in Worlds /\ w1.core = w.core /\ w1.view = v1 BY <1>15, <1>17, ViewWorld
<1>19. PICK w3 : w3 = WithEntry(w1, id, entry) OBVIOUS
<1>20. /\ w3 \in Worlds /\ w3.core = w1.core /\ Except(w1.view, w3.view, {"stored"})
       /\ Restocked(w1.view, w3.view, id, entry)
  BY SMTT(30), <1>1, <1>10, <1>12, <1>15, <1>18, <1>19, EntrySet
<1>21. w2 = [w EXCEPT !.view.active = active, !.view.registry = r,
             !.view.stored = [f EXCEPT ![id] = entry]]
  BY <1>1, <1>2, <1>3, <1>5, <1>9, <1>10, <1>13 DEF TakenOver, LendingOf, Worlds, Views
<1>22. w2 = w3
  BY ZenonT(60), <1>1, <1>2, <1>10, <1>14, <1>15, <1>17, <1>18, <1>19, <1>21 DEF WithEntry, Worlds,
     Views
<1>23. /\ Except(v, w3.view, {"active", "registry", "stored"}) /\ w3.view.active = active
       /\ w3.view.registry = r
  BY <1>15, <1>16, <1>18, <1>20 DEF Except
<1>24. Restocked(v, w3.view, id, entry) BY <1>10, <1>15, <1>18, <1>20 DEF Restocked
<1> QED BY <1>1, <1>3, <1>7, <1>10, <1>11, <1>18, <1>20, <1>22, <1>23, <1>24

LEMMA BeginFacts ==
    ASSUME NEW w \in Worlds, NEW id \in Nat, NEW edit \in Nat, NEW w1 \in Worlds, w1 = FreedOf(w),
           w1.view.registry.editing = None, NEW w2, w2 = BeginEdit(w, id, edit)
    PROVE  IF Lends(w1.view, id) THEN EditLent(w1, w2, id, edit)
           ELSE w2 = Emit(w1, EditEnded(w1.core, id, edit))
<1>1. CASE ~ Lends(w1.view, id) BY <1>1, Zenon DEF BeginEdit, Lends, FreedOf
<1>2. CASE Lends(w1.view, id)
  <2>1. PICK v, held : v = w1.view /\ held = w1.view.registry OBVIOUS
  <2>2. v \in Views /\ held \in Registries BY <2>1 DEF Worlds, Views
  <2>3. PICK x : x = RegistryClose(Document(w1, "blank")) OBVIOUS
  <2>4. w2 = Toggle(EditWindow(TakenOver(x, held, id, edit), id, TRUE))
    <3>1. w2 = LET x2 == RegistryClose(Document(FreedOf(w), "blank")) IN
               Toggle(EditWindow(TakenOver(x2, FreedOf(w).view.registry, id, edit), id, TRUE))
      BY <1>2, Zenon DEF BeginEdit, TakenOver, FreedOf, Lends
    <3> QED BY <2>1, <2>3, <3>1
  <2>5. PICK r : r = [held EXCEPT !.document = "blank"] OBVIOUS
  <2>6. r \in Registries /\ r.editing = None BY <2>1, <2>2, <2>5 DEF Registries, Contents
  <2>7. PICK b : b = WithRegistry(w1, r) OBVIOUS
  <2>8. /\ b \in Worlds /\ b.core = w1.core /\ b.view.registry = r
        /\ Except(w1.view, b.view, {"registry"})
    BY <2>6, <2>7, RegistrySet
  <2>9. b = Document(w1, "blank")
    BY <2>1, <2>2, <2>5, <2>7 DEF Document, WithRegistry, Worlds, Views
  <2>10. /\ x \in Worlds /\ x.core = b.core /\ Except(b.view, x.view, {"registry"})
         /\ x.view.registry = ClearedOf(b.view.registry)
    BY <2>3, <2>6, <2>8, <2>9, IdleClose
  <2>11. ~x.view.registry.open /\ x.view.registry.editing = None
    BY <2>6, <2>8, <2>10 DEF ClearedOf, Registries
  <2>12. Except(v, x.view, {"registry"}) /\ x.view.stored = v.stored /\ x.view.windows = v.windows
    BY <2>1, <2>8, <2>10 DEF Except
  <2>13. PICK y : y = TakenOver(x, held, id, edit) OBVIOUS
  <2>14. /\ y \in Worlds /\ y.core = x.core
         /\ Except(x.view, y.view, {"active", "registry", "stored"})
         /\ y.view.active = LendingOf(id, edit, held)
         /\ y.view.registry = HoldingShut(x.view.stored[id].document, id, edit)
         /\ Restocked(x.view, y.view, id, EntryOf("blank", x.view.stored[id].published))
    BY <1>2, <2>1, <2>2, <2>10, <2>11, <2>12, <2>13, TakenOverFacts DEF Lends
  <2>15. PICK z : z = EditWindow(y, id, TRUE) OBVIOUS
  <2>16. y.view.windows = v.windows /\ id \in DOMAIN v.windows
    BY <1>2, <2>1, <2>12, <2>14 DEF Except, Lends
  <2>17. /\ z \in Worlds /\ z.core = y.core /\ Except(y.view, z.view, {"windows"})
         /\ Rewindowed(y.view, z.view, id, EditedOf(v.windows[id]))
    <3>1. PICK editing \in BOOLEAN : editing /\ z = EditWindow(y, id, editing) BY <2>15
    <3> QED BY ZenonT(60), <2>14, <2>16, <3>1, EditWindowFacts
  <2>18. v.stored[id].document \in Contents BY <1>2, <2>1, <2>2, StoreFacts DEF Lends, Entries
  <2>19. z.view.registry = HoldingShut(v.stored[id].document, id, edit)
    BY <2>12, <2>14, <2>17 DEF Except
  <2>20. /\ w2 \in Worlds /\ w2.core = z.core /\ w2.view.registry = OpenOf(z.view.registry)
         /\ Except(z.view, w2.view, {"registry"})
    BY ZenonT(60), <2>4, <2>13, <2>15, <2>17, <2>18, <2>19, HoldingFacts, ToggleFacts
  <2>21. w2.view.registry = HoldingOf(v.stored[id].document, id, edit)
    BY <2>18, <2>19, <2>20, HoldingFacts
  <2>22. Except(v, w2.view, {"active", "registry", "stored", "windows"})
         /\ w2.view.active = LendingOf(id, edit, held)
    BY <2>12, <2>14, <2>17, <2>20 DEF Except
  <2>23. Restocked(v, w2.view, id, EntryOf("blank", v.stored[id].published))
    BY <2>12, <2>14, <2>17, <2>20 DEF Except, Restocked
  <2>24. Rewindowed(v, w2.view, id, EditedOf(v.windows[id]))
    BY <2>16, <2>17, <2>20 DEF Except, Rewindowed
  <2> QED BY <1>2, <2>1, <2>8, <2>10, <2>14, <2>17, <2>20, <2>21, <2>22, <2>23, <2>24 DEF EditLent
<1> QED BY <1>1, <1>2

\* The windows of pins.
Removed(v, v2, id) ==
    /\ DOMAIN v2.windows = DOMAIN v.windows \ {id} /\ DOMAIN v2.stored = DOMAIN v.stored \ {id}
    /\ \A other \in DOMAIN v.windows : other # id => v2.windows[other] = v.windows[other]
    /\ \A other \in DOMAIN v.stored : other # id => v2.stored[other] = v.stored[other]

LEMMA CloseWindowFacts ==
    ASSUME NEW w \in Worlds, NEW id \in Nat, NEW w2, w2 = CloseWindow(w, id)
    PROVE  /\ w2 \in Worlds /\ Except(w.view, w2.view, {"stored", "windows"})
           /\ Removed(w.view, w2.view, id) /\ ClosedTold(w.core, w2.core, id)
<1>1. PICK v : v = w.view OBVIOUS
<1>2. v \in Views /\ v.stored \in TableOf(Entries) /\ v.windows \in TableOf(Windows)
  BY <1>1, StoreFacts DEF Worlds
<1>3. PICK f, g : f = Without(v.stored, id) /\ g = Without(v.windows, id) OBVIOUS
<1>4. /\ f \in Store /\ DOMAIN f = DOMAIN v.stored \ {id}
      /\ \A other \in DOMAIN v.stored : other # id => f[other] = v.stored[other]
  <2>1. PICK h \in TableOf(Entries) : h = v.stored BY <1>2
  <2>2. Without(h, id) \in TableOf(Entries) BY GoneTable
  <2> QED BY <1>3, <2>1, <2>2 DEF Store, Without, Restrict
<1>5. /\ g \in WindowTables /\ DOMAIN g = DOMAIN v.windows \ {id}
      /\ \A other \in DOMAIN v.windows : other # id => g[other] = v.windows[other]
  <2>1. PICK h \in TableOf(Windows) : h = v.windows BY <1>2
  <2>2. Without(h, id) \in TableOf(Windows) BY GoneTable
  <2> QED BY <1>3, <2>1, <2>2 DEF WindowTables, Without, Restrict
<1>6. PICK v1 : v1 = [v EXCEPT !.stored = f, !.windows = g] OBVIOUS
<1>7. v1 \in Views /\ v1.stored = f /\ v1.windows = g BY <1>2, <1>4, <1>5, <1>6 DEF Views
<1>8. Except(v, v1, {"stored", "windows"}) BY <1>2, <1>6, <1>7 DEF Views, Except
<1>9. PICK gone : gone = [w EXCEPT !.view = v1] OBVIOUS
<1>10. gone \in Worlds /\ gone.core = w.core /\ gone.view = v1 BY <1>7, <1>9, ViewWorld
<1>11. gone = [w EXCEPT !.view.stored = Without(@, id), !.view.windows = Without(@, id)]
  BY <1>1, <1>2, <1>3, <1>6, <1>9 DEF Worlds, Views
<1>12. w2 = Emit(gone, Closed(gone.core, id)) BY <1>11 DEF CloseWindow
<1>13. w2 \in Worlds /\ w2.view = gone.view /\ ClosedTold(gone.core, w2.core, id)
  BY <1>10, <1>12, ClosedWorld
<1>14. Removed(v, v1, id) BY <1>4, <1>5, <1>7 DEF Removed
<1> QED BY <1>1, <1>8, <1>10, <1>13, <1>14

CloseTimer(id) == [k |-> "close window", id |-> id]

LEMMA RequestCloseFacts ==
    ASSUME NEW w \in Worlds, NEW id \in Nat, NEW w2, w2 = RequestClose(w, id)
    PROVE  \/ w2 = w /\ (id \in DOMAIN w.view.windows => w.view.windows[id].phase = "Closing")
           \/ /\ id \in DOMAIN w.view.windows /\ w.view.windows[id].phase # "Closing"
              /\ w2 \in Worlds /\ Except(w.view, w2.view, {"timers", "windows"})
              /\ Rewindowed(w.view, w2.view, id, ClosingOf(w.view.windows[id]))
              /\ w2.view.timers = w.view.timers \cup {CloseTimer(id)}
              /\ ClosedTold(w.core, w2.core, id)
<1>1. CASE id \notin DOMAIN w.view.windows \/ w.view.windows[id].phase = "Closing"
  BY <1>1 DEF RequestClose
<1>2. CASE id \in DOMAIN w.view.windows /\ w.view.windows[id].phase # "Closing"
  <2>1. PICK v, x, timer : v = w.view /\ x = ClosingOf(w.view.windows[id]) /\ timer = CloseTimer(id)
    OBVIOUS
  <2>2. v \in Views /\ v.windows[id] \in Windows /\ id \in DOMAIN v.windows
    BY <1>2, <2>1, StoreFacts DEF Worlds
  <2>3. x \in Windows BY <2>1, <2>2, WindowFacts
  <2>4. PICK w1 : w1 = WithWindow(w, id, x) OBVIOUS
  <2>5. /\ w1 \in Worlds /\ w1.core = w.core /\ Except(w.view, w1.view, {"windows"})
        /\ Rewindowed(w.view, w1.view, id, x)
    BY <2>1, <2>2, <2>3, <2>4, WindowSet
  <2>6. w1 = [w EXCEPT !.view.windows[id].phase = "Closing"]
    <3>1. PICK f : f = v.windows OBVIOUS
    <3>2. [f EXCEPT ![id].phase = "Closing"] = [f EXCEPT ![id] = x]
      BY <2>1, <2>2, <3>1 DEF ClosingOf
    <3> QED BY <2>1, <2>2, <2>4, <3>1, <3>2 DEF WithWindow, Worlds, Views
  <2>7. timer \in Timers BY <2>1 DEF CloseTimer, Timers
  <2>8. PICK closing : closing = Defer(w1, timer) OBVIOUS
  <2>9. /\ closing \in Worlds /\ closing.core = w1.core /\ Except(w1.view, closing.view, {"timers"})
        /\ closing.view.timers = w1.view.timers \cup {timer}
    BY <2>5, <2>7, <2>8, DeferFacts
  <2>10. w2 = Emit(closing, Closed(closing.core, id))
    BY <1>2, <2>1, <2>6, <2>8 DEF RequestClose, CloseTimer
  <2>11. w2 \in Worlds /\ w2.view = closing.view /\ ClosedTold(closing.core, w2.core, id)
    BY <2>9, <2>10, ClosedWorld
  <2>12. Except(w.view, w2.view, {"timers", "windows"})
             /\ w2.view.timers = w.view.timers \cup {timer}
         /\ w2.view.windows = w1.view.windows
    BY <2>5, <2>9, <2>11 DEF Except
  <2> QED BY <1>2, <2>1, <2>5, <2>9, <2>11, <2>12 DEF Rewindowed
<1> QED BY <1>1, <1>2

\* A window that is being prepared, and its document.
Added(v, v2, id, window, entry) ==
    /\ DOMAIN v2.windows = DOMAIN v.windows \cup {id}
    /\ DOMAIN v2.stored = DOMAIN v.stored \cup {id}
    /\ v2.windows[id] = window /\ v2.stored[id] = entry
    /\ \A other \in DOMAIN v.windows : other # id => v2.windows[other] = v.windows[other]
    /\ \A other \in DOMAIN v.stored : other # id => v2.stored[other] = v.stored[other]
NewWindow(source) == [phase |-> "Preparing", source |-> source, revision |-> 0, picture |-> 0,
                      editing |-> FALSE]
FirstOf(source)   == [session |-> source[1], request |-> source[2]]

LEMMA ShowPinFacts ==
    ASSUME NEW w \in Worlds, NEW source \in Sources, NEW w2, w2 = ShowPin(w, source)
    PROVE  \/ w2 = w /\ ~ OutputCurrent(w, source)
           \/ /\ OutputCurrent(w, source)
              /\ w2 \in Worlds /\ w2.core = w.core
              /\ Except(w.view, w2.view, {"next", "windows", "stored"})
              /\ w2.view.next = w.view.next + 1
              /\ Added(w.view, w2.view, w.view.next + 1, NewWindow(source),
                       EntryOf("pin", FirstOf(source)))
<1>1. CASE ~ OutputCurrent(w, source) BY <1>1 DEF ShowPin
<1>2. CASE OutputCurrent(w, source)
  <2>1. PICK v, id : v = w.view /\ id = w.view.next + 1 OBVIOUS
  <2>2. v \in Views /\ v.stored \in TableOf(Entries) /\ v.windows \in TableOf(Windows) /\ id \in Nat
    BY <2>1, StoreFacts DEF Worlds, Views
  <2>3. PICK x, y : x = NewWindow(source) /\ y = EntryOf("pin", FirstOf(source)) OBVIOUS
  <2>4. x \in Windows BY <2>3 DEF NewWindow, Windows
  <2>5. y \in Entries BY <2>3 DEF Sources, FirstOf, Documents, EntryOf, Entries, Contents
  <2>6. PICK f, g : f = Put(v.stored, id, y) /\ g = Put(v.windows, id, x) OBVIOUS
  <2>7. f \in Store BY <2>2, <2>5, <2>6, PutTable DEF Store
  <2>8. g \in WindowTables BY <2>2, <2>4, <2>6, PutTable DEF WindowTables
  <2>9. PICK v1 : v1 = [v EXCEPT !.next = id, !.windows = g, !.stored = f] OBVIOUS
  <2>10. v1 \in Views /\ v1.stored = f /\ v1.windows = g /\ v1.next = id
    BY <2>2, <2>7, <2>8, <2>9 DEF Views
  <2>11. Except(v, v1, {"next", "windows", "stored"}) BY <2>2, <2>9, <2>10 DEF Views, Except
  <2>12. PICK w1 : w1 = [w EXCEPT !.view = v1] OBVIOUS
  <2>13. w1 \in Worlds /\ w1.core = w.core /\ w1.view = v1 BY <2>10, <2>12, ViewWorld
  <2>14. w2 = w1
    BY <1>2, <2>1, <2>2, <2>3, <2>6, <2>9, <2>12
    DEF ShowPin, NewWindow, EntryOf, FirstOf, Worlds, Views
  <2>15. Added(v, v1, id, x, y) BY <2>6, <2>10 DEF Added, Put
  <2> QED BY <1>2, <2>1, <2>3, <2>10, <2>11, <2>13, <2>14, <2>15
<1> QED BY <1>1, <1>2

RevisedOf(window, revision) == [window EXCEPT !.revision = revision]
Synced(v, v2, snapshot) ==
    /\ v2.flow = snapshot.shot /\ DOMAIN v2.windows = DOMAIN v.windows
    /\ \A id \in DOMAIN v.windows :
          v2.windows[id] = IF id \in DOMAIN snapshot.pins
                           THEN RevisedOf(v.windows[id], snapshot.pins[id].revision)
                               ELSE v.windows[id]

LEMMA SyncViewFacts ==
    ASSUME NEW w \in Worlds, NEW snapshot \in Snapshots, NEW w2, w2 = SyncView(w, snapshot)
    PROVE  /\ w2 \in Worlds /\ w2.core = w.core /\ Except(w.view, w2.view, {"flow", "windows"})
           /\ Synced(w.view, w2.view, snapshot)
<1>1. PICK v : v = w.view OBVIOUS
<1>2. v \in Views /\ v.windows \in TableOf(Windows) BY <1>1, StoreFacts DEF Worlds
<1>3. snapshot.shot \in Shots /\ snapshot.pins \in PinTables BY DEF Snapshots
<1>4. PICK g : g = [id \in DOMAIN v.windows |->
                      IF id \in DOMAIN snapshot.pins
                      THEN RevisedOf(v.windows[id], snapshot.pins[id].revision) ELSE v.windows[id]]
  OBVIOUS
<1>5. \A id \in DOMAIN v.windows : g[id] \in Windows
  <2>1. SUFFICES ASSUME NEW id \in DOMAIN v.windows PROVE g[id] \in Windows OBVIOUS
  <2>2. v.windows[id] \in Windows BY <1>2, StoreFacts
  <2>3. id \in DOMAIN snapshot.pins => snapshot.pins[id].revision \in Nat
    BY <1>3, PinTableFacts DEF Pins
  <2> QED BY <1>4, <2>2, <2>3 DEF RevisedOf, Windows
<1>6. g \in WindowTables
  <2>1. PICK ids \in SUBSET Nat : ids = DOMAIN v.windows BY <1>2, TableFacts
  <2>2. g \in [ids -> Windows] BY <1>4, <1>5, <2>1
  <2> QED BY <2>1, <2>2 DEF WindowTables, TableOf
<1>7. PICK v1 : v1 = [v EXCEPT !.flow = snapshot.shot, !.windows = g] OBVIOUS
<1>8. v1 \in Views /\ v1.flow = snapshot.shot /\ v1.windows = g BY <1>2, <1>3, <1>6, <1>7 DEF Views
<1>9. Except(v, v1, {"flow", "windows"}) BY <1>2, <1>7, <1>8 DEF Views, Except
<1>10. PICK w1 : w1 = [w EXCEPT !.view = v1] OBVIOUS
<1>11. w1 \in Worlds /\ w1.core = w.core /\ w1.view = v1 BY <1>8, <1>10, ViewWorld
<1>12. w2 = w1 BY <1>1, <1>2, <1>4, <1>7, <1>10 DEF SyncView, RevisedOf, Worlds, Views
<1>13. Synced(v, v1, snapshot) BY <1>4, <1>8 DEF Synced
<1> QED BY <1>1, <1>9, <1>11, <1>12, <1>13

Presents(v, id, revision) ==
    /\ id \in DOMAIN v.windows
    /\ v.windows[id].phase = "Visible" /\ ~v.windows[id].editing
    /\ v.windows[id].revision = revision

LEMMA PresentFacts ==
    ASSUME NEW w \in Worlds, NEW id \in Nat, NEW revision \in Nat, NEW w2,
           w2 = Present(w, id, revision)
    PROVE  \/ w2 = w /\ ~ Presents(w.view, id, revision)
           \/ /\ Presents(w.view, id, revision)
              /\ w2 \in Worlds /\ w2.core = w.core /\ Except(w.view, w2.view, {"windows"})
              /\ Rewindowed(w.view, w2.view, id, PaintedOf(w.view.windows[id], revision))
<1>1. CASE ~ Presents(w.view, id, revision) BY <1>1 DEF Present, Presents
<1>2. CASE Presents(w.view, id, revision)
  <2>1. PICK v, x : v = w.view /\ x = PaintedOf(w.view.windows[id], revision) OBVIOUS
  <2>2. v \in Views /\ v.windows[id] \in Windows /\ id \in DOMAIN v.windows
    BY <1>2, <2>1, StoreFacts DEF Worlds, Presents
  <2>3. x \in Windows BY <2>1, <2>2, WindowFacts
  <2>4. w2 = WithWindow(w, id, x)
    <3>1. PICK f : f = v.windows OBVIOUS
    <3>2. [f EXCEPT ![id].picture = revision] = [f EXCEPT ![id] = x]
      BY <2>1, <2>2, <3>1 DEF PaintedOf
    <3>3. w2 = [w EXCEPT !.view.windows[id].picture = revision] BY <1>2 DEF Present, Presents
    <3> QED BY <2>1, <2>2, <3>1, <3>2, <3>3 DEF WithWindow, Worlds, Views
  <2> QED BY <1>2, <2>1, <2>2, <2>3, <2>4, WindowSet
<1> QED BY <1>1, <1>2

\* The rest of what actions do to the view.
WithDrawn(w, drawn) == [w EXCEPT !.view.drawn = drawn]

LEMMA DrawnFacts ==
    ASSUME NEW w \in Worlds, NEW drawn \in BOOLEAN, NEW w2, w2 = WithDrawn(w, drawn)
    PROVE  /\ w2 \in Worlds /\ w2.core = w.core /\ w2.view.drawn = drawn
           /\ Except(w.view, w2.view, {"drawn"})
<1>1. w.view \in Views BY DEF Worlds
<1>2. PICK v : v = [w.view EXCEPT !.drawn = drawn] OBVIOUS
<1>3. PICK w3 : w3 = [w EXCEPT !.view = v] OBVIOUS
<1>4. w2 = w3 BY <1>2, <1>3 DEF Worlds, WithDrawn
<1>5. v \in Views /\ v.drawn = drawn BY <1>1, <1>2 DEF Views
<1>6. Except(w.view, v, {"drawn"}) BY <1>1, <1>2, <1>5 DEF Views, Except
<1>7. w3 \in Worlds /\ w3.core = w.core /\ w3.view = v BY <1>3, <1>5, ViewWorld
<1> QED BY <1>4, <1>5, <1>6, <1>7

\* The edit that holds the editor ends: the core is told, and the editor is given back.
LEMMA FinishFacts ==
    ASSUME NEW w \in Worlds, w.view.active # None, NEW w2, w2 = FinishEdit(w)
    PROVE  /\ w.view.active.id \in Nat /\ w.view.active.edit \in Nat
           /\ w2 \in Worlds /\ w2.view = w.view
           /\ EditEndedTold(w.core, w2.core, w.view.active.id, w.view.active.edit)
<1>1. PICK a \in Lendings : a = w.view.active BY DEF Worlds, Views
<1>2. a.id \in Nat /\ a.edit \in Nat BY DEF Lendings
<1>3. w2 = Emit(w, EditEnded(w.core, a.id, a.edit)) BY <1>1 DEF FinishEdit
<1>4. w2 \in Worlds /\ w2.view = w.view /\ EditEndedTold(w.core, w2.core, a.id, a.edit)
  BY <1>2, <1>3, EditEndedWorld
<1> QED BY <1>1, <1>2, <1>4

LEMMA FinishNowFacts ==
    ASSUME NEW w \in Worlds, Lent(w.view), w.view.active # None, NEW w2, w2 = FinishNow(w)
    PROVE  \E w1 \in Worlds : /\ w1.view = w.view
                              /\ w.view.active.id \in Nat /\ w.view.active.edit \in Nat
                              /\ EditEndedTold(w.core, w1.core, w.view.active.id,
                                               w.view.active.edit)
                              /\ EditTaken(w1, w2, w.view.active.id)
<1>1. PICK w1 : w1 = FinishEdit(w) OBVIOUS
<1>2. /\ w1 \in Worlds /\ w1.view = w.view
      /\ w.view.active.id \in Nat /\ w.view.active.edit \in Nat
      /\ EditEndedTold(w.core, w1.core, w.view.active.id, w.view.active.edit)
  BY <1>1, FinishFacts
<1>3. w2 = End(w1, w.view.active.id, w.view.active.edit) BY <1>1 DEF FinishNow
<1>4. Matches(w1.view, w.view.active.id, w.view.active.edit) BY <1>2 DEF Matches
<1>5. EditTaken(w1, w2, w.view.active.id) BY <1>2, <1>3, <1>4, EndFacts
<1> QED BY <1>2, <1>5

LEMMA FreedFacts ==
    ASSUME NEW w \in Worlds, Lent(w.view), NEW w2, w2 = FreedOf(w)
    PROVE  IF w.view.active = None THEN w2 = w ELSE EditTaken(w, w2, w.view.active.id)
<1>1. CASE w.view.active # None
  <2>1. PICK a \in Lendings : a = w.view.active BY <1>1 DEF Worlds, Views
  <2>2. a.id \in Nat /\ a.edit \in Nat BY DEF Lendings
  <2>3. w2 = End(w, a.id, a.edit) /\ Matches(w.view, a.id, a.edit)
    BY <1>1, <2>1 DEF FreedOf, Matches
  <2> QED BY <1>1, <2>1, <2>2, <2>3, EndFacts
<1> QED BY <1>1 DEF FreedOf

\* A window appears.
LEMMA VisibleFacts ==
    ASSUME NEW w \in Worlds, NEW id \in DOMAIN w.view.windows,
           NEW w2, w2 = [w EXCEPT !.view.windows[id].phase = "Visible"]
    PROVE  /\ w2 \in Worlds /\ w2.core = w.core /\ Except(w.view, w2.view, {"windows"})
           /\ Rewindowed(w.view, w2.view, id, VisibleOf(w.view.windows[id]))
<1>1. PICK v, x : v = w.view /\ x = VisibleOf(w.view.windows[id]) OBVIOUS
<1>2. v \in Views /\ v.windows[id] \in Windows BY <1>1, StoreFacts DEF Worlds
<1>3. x \in Windows BY <1>1, <1>2 DEF Windows, VisibleOf
<1>4. w2 = WithWindow(w, id, x)
  <2>1. PICK f : f = v.windows OBVIOUS
  <2>2. [f EXCEPT ![id].phase = "Visible"] = [f EXCEPT ![id] = x] BY <1>1, <1>2, <2>1 DEF VisibleOf
  <2> QED BY <1>1, <1>2, <2>1, <2>2 DEF WithWindow, Worlds, Views
<1> QED BY <1>1, <1>3, <1>4, WindowSet

\* A timer fires.
LEMMA FiredFacts ==
    ASSUME NEW w \in Worlds, NEW timer \in w.view.timers,
           NEW w2, w2 = [w EXCEPT !.view.timers = @ \ {timer}]
    PROVE  /\ w2 \in Worlds /\ w2.core = w.core /\ w2.view.timers = w.view.timers \ {timer}
           /\ Except(w.view, w2.view, {"timers"}) /\ timer \in Timers
<1>1. w.view \in Views /\ w.view.timers \in SUBSET Timers BY DEF Worlds, Views
<1>2. PICK v : v = [w.view EXCEPT !.timers = w.view.timers \ {timer}] OBVIOUS
<1>3. PICK w3 : w3 = [w EXCEPT !.view = v] OBVIOUS
<1>4. w2 = w3 BY <1>2, <1>3 DEF Worlds, Views
<1>5. v \in Views /\ v.timers = w.view.timers \ {timer} BY <1>1, <1>2 DEF Views
<1>6. Except(w.view, v, {"timers"}) BY <1>1, <1>2, <1>5 DEF Views, Except
<1>7. w3 \in Worlds /\ w3.core = w.core /\ w3.view = v BY <1>3, <1>5, ViewWorld
<1> QED BY <1>1, <1>4, <1>5, <1>6, <1>7

\* The editor is lent to a screenshot whose region was selected.
SelectedBy(registry, s) ==
    [registry EXCEPT !.editing = [k |-> "shot", session |-> s, region |-> 1], !.capture = "frozen"]
LEMMA RegionFacts ==
    ASSUME NEW w \in Worlds, NEW s \in Nat, NEW w2,
           w2 = [w EXCEPT !.view.host = 0,
                          !.view.registry.editing = [k |-> "shot", session |-> s, region |-> 1],
                          !.view.registry.capture = "frozen"]
    PROVE  /\ w2 \in Worlds /\ w2.core = w.core /\ w2.view.host = 0
           /\ w2.view.registry = SelectedBy(w.view.registry, s)
           /\ Except(w.view, w2.view, {"host", "registry"})
<1>1. w.view \in Views /\ w.view.registry \in Registries BY DEF Worlds, Views
<1>2. PICK e \in Edited : e = [k |-> "shot", session |-> s, region |-> 1] BY DEF Edited
<1>3. PICK r : r = [w.view.registry EXCEPT !.editing = e, !.capture = "frozen"] OBVIOUS
<1>4. r \in Registries /\ r = SelectedBy(w.view.registry, s)
  BY <1>1, <1>2, <1>3 DEF Registries, Captures, SelectedBy
<1>5. PICK v : v = [w.view EXCEPT !.host = 0, !.registry = r] OBVIOUS
<1>6. PICK w3 : w3 = [w EXCEPT !.view = v] OBVIOUS
<1>7. w2 = w3 BY ZenonT(60), <1>1, <1>2, <1>3, <1>5, <1>6 DEF Worlds, Views
<1>8. v \in Views /\ v.host = 0 /\ v.registry = r BY <1>1, <1>4, <1>5 DEF Views
<1>9. Except(w.view, v, {"host", "registry"}) BY <1>1, <1>5, <1>8 DEF Views, Except
<1>10. w3 \in Worlds /\ w3.core = w.core /\ w3.view = v BY <1>6, <1>8, ViewWorld
<1> QED BY <1>4, <1>7, <1>8, <1>9, <1>10

\* The region is dragged.
DraggedBy(registry) == [registry EXCEPT !.editing = [registry.editing EXCEPT !.region = 2]]
LEMMA DragFacts ==
    ASSUME NEW w \in Worlds, w.view.registry.editing # None, w.view.registry.editing.k = "shot",
           NEW w2, w2 = [w EXCEPT !.view.registry.editing.region = 2]
    PROVE  /\ w2 \in Worlds /\ w2.core = w.core
           /\ w2.view.registry = DraggedBy(w.view.registry)
           /\ Except(w.view, w2.view, {"registry"})
<1>1. w.view \in Views /\ w.view.registry \in Registries /\ w.view.registry.editing \in Edited
  BY DEF Worlds, Views, Registries
<1>2. PICK e : e = [w.view.registry.editing EXCEPT !.region = 2] OBVIOUS
<1>3. e \in Edited BY <1>1, <1>2 DEF Edited
<1>4. PICK r : r = [w.view.registry EXCEPT !.editing = e] OBVIOUS
<1>5. r \in Registries /\ r = DraggedBy(w.view.registry)
  BY <1>1, <1>2, <1>3, <1>4 DEF Registries, DraggedBy
<1>6. w2 = WithRegistry(w, r) BY <1>1, <1>2, <1>4 DEF Worlds, Views, Registries, WithRegistry
<1>7. /\ w2 \in Worlds /\ w2.core = w.core /\ w2.view.registry = r
      /\ Except(w.view, w2.view, {"registry"})
  BY ONLY <1>5, <1>6, w \in Worlds, RegistrySet
<1> QED BY <1>5, <1>7

\* What is drawn.
DesktopOf(registry) == [registry EXCEPT !.document = "desktop"]
LEMMA DocumentSet ==
    ASSUME NEW w \in Worlds, NEW w2, w2 = Document(w, "desktop")
    PROVE  /\ w2 \in Worlds /\ w2.core = w.core
           /\ w2.view.registry = DesktopOf(w.view.registry)
           /\ Except(w.view, w2.view, {"registry"})
<1>1. w.view \in Views /\ w.view.registry \in Registries BY DEF Worlds, Views
<1>2. PICK r : r = DesktopOf(w.view.registry) OBVIOUS
<1>3. r \in Registries BY <1>1, <1>2 DEF Registries, DesktopOf, Contents
<1>4. w2 = WithRegistry(w, r)
  BY <1>1, <1>2 DEF Worlds, Views, Registries, WithRegistry, Document, DesktopOf
<1> QED BY <1>2, <1>3, <1>4, RegistrySet

\* Where what is drawn on the desktop is, once it is clear to whom the editor is lent.
DrawnAt(v) ==
    v.drawn => IF v.recovery # None THEN v.recovery.document = "desktop"
               ELSE IF v.active # None THEN v.active.document = "desktop"
               ELSE v.registry.document = "desktop"
Editor(v) == Lent(v) /\ DrawnAt(v)

LEMMA DrawnAtMeans ==
    ASSUME NEW v \in Views, Lent(v)
    PROVE  DrawnAt(v) <=> OnePlace(v)
<1>1. /\ v.registry # None /\ v.registry = v["registry"] /\ v.recovery = v["recovery"]
      /\ v.active = v["active"]
  BY DEF Views, Registries, None
<1> DEFINE r == v.registry.document = "desktop"
           p == v.recovery # None /\ v.recovery.document = "desktop"
           a == v.active # None /\ v.active.document = "desktop"
<1>2. /\ "registry" \in Desktops(v) <=> r
      /\ "recovery" \in Desktops(v) <=> p
      /\ "active" \in Desktops(v) <=> a
      /\ Desktops(v) \subseteq {"registry", "recovery", "active"}
  BY <1>1 DEF Desktops
<1>3. ~ (p /\ a) /\ (p \/ a => ~r)
      /\ (v.recovery # None \/ v.active # None => ~r) /\ ~ (v.recovery # None /\ v.active # None)
  BY DEF Lent
<1>4. (\E place \in {"registry", "recovery", "active"} : Desktops(v) = {place}) <=> (r \/ p \/ a)
  BY <1>2, <1>3
<1>5. (v.recovery # None => (r \/ p \/ a <=> v.recovery.document = "desktop"))
      /\ (v.recovery = None /\ v.active # None => (r \/ p \/ a <=> v.active.document = "desktop"))
      /\ (v.recovery = None /\ v.active = None => (r \/ p \/ a <=> v.registry.document = "desktop"))
  BY <1>3
<1> QED BY <1>4, <1>5 DEF DrawnAt, OnePlace

\* The editor is untouched.
LEMMA EditorSame ==
    ASSUME NEW v, NEW u, Editor(v),
           u.recovery = v.recovery, u.active = v.active, u.registry = v.registry, u.drawn = v.drawn,
           u.host = v.host \/ u.host = 0 \/ v.recovery # None,
           \A id \in DOMAIN u.stored : u.stored[id].document # "desktop"
    PROVE  Editor(u)
  BY DEF Editor, Lent, DrawnAt

\* It is cleared: by the end of what it is lent to, or because it is lost.
LEMMA EditorCleared ==
    ASSUME NEW v \in Views, NEW u, Editor(v), u.recovery = v.recovery, u.active = v.active,
           u.registry = ClearedOf(v.registry), u.stored = KeptAside(v), u.host = v.host,
           u.drawn => v.drawn /\ (v.registry.document # "desktop" \/ v.recovery # None
                                  \/ v.active # None)
    PROVE  Editor(u)
<1>1. v.registry \in Registries BY DEF Views
<1>2. /\ u.registry.document = "blank" /\ u.registry.editing = None /\ ~u.registry.open
      /\ u.registry.capture = v.registry.capture
  BY <1>1 DEF ClearedOf, Registries
<1>3. \A id \in DOMAIN u.stored : u.stored[id].document # "desktop"
  <2>1. CASE /\ v.registry.editing # None /\ v.registry.editing.k = "pin"
             /\ v.registry.editing.id \in DOMAIN v.stored
    <3>1. v.registry.document # "desktop" BY <2>1 DEF Editor, Lent
    <3>2. PICK e \in DOMAIN v.stored : e = v.registry.editing.id BY <2>1
    <3>3. v.stored[e] \in Entries BY StoreFacts
    <3>4. u.stored = [v.stored EXCEPT ![e] = [v.stored[e] EXCEPT !.document = v.registry.document]]
      BY <2>1, <3>2 DEF KeptAside
    <3>5. u.stored[e].document = v.registry.document /\ DOMAIN u.stored = DOMAIN v.stored
          /\ \A id \in DOMAIN v.stored : id # e => u.stored[id] = v.stored[id]
      BY <3>3, <3>4 DEF Entries
    <3> QED BY <3>1, <3>5 DEF Editor, Lent
  <2>2. CASE ~ (/\ v.registry.editing # None /\ v.registry.editing.k = "pin"
                /\ v.registry.editing.id \in DOMAIN v.stored)
    BY <2>2 DEF KeptAside, Editor, Lent
  <2> QED BY <2>1, <2>2
<1>4. v.drawn /\ v.recovery = None /\ v.active = None => v.registry.document = "desktop"
  BY DEF Editor, DrawnAt
<1> QED BY <1>2, <1>3, <1>4 DEF Editor, Lent, DrawnAt

\* What is drawn on the desktop is put aside for a screenshot, and put back.
LEMMA EditorAside ==
    ASSUME NEW v \in Views, NEW u, Editor(v), v.recovery = None, v.active = None, u.active = None,
           u.recovery = AsideOf(v.registry), u.registry = ClearedOf(v.registry),
           u.stored = v.stored,
           u.host = v.host, u.drawn = v.drawn
    PROVE  Editor(u)
  BY DEF Views, ClearedOf, Registries, AsideOf, None, Editor, Lent, DrawnAt

LEMMA EditorBack ==
    ASSUME NEW v \in Views, NEW u, Editor(v), v.recovery # None, u.recovery = None,
           u.active = v.active,
           u.registry = BackOf(v.recovery), u.stored = v.stored, u.host = 0, u.drawn = v.drawn
    PROVE  Editor(u)
  BY DEF BackOf, OpenedOf, Editor, Lent, DrawnAt

\* It is given back at the end of an edit.
LEMMA EditorReturned ==
    ASSUME NEW w \in Worlds, NEW w2, NEW id, Editor(w.view), w.view.active # None,
           EditTaken(w, w2, id)
    PROVE  Editor(w2.view)
<1>1. PICK v, u : v = w.view /\ u = w2.view OBVIOUS
<1>2. /\ Except(v, u, {"active", "registry", "stored", "windows"}) /\ u.active = None
      /\ u.registry = ReturnedOf(v.active) /\ v.recovery = None
  BY <1>1 DEF EditTaken, Editor, Lent
<1>3. u.recovery = None /\ u.host = v.host /\ u.drawn = v.drawn BY <1>2 DEF Except
<1>4. u.registry.document = v.active.document /\ u.registry.editing = None
      /\ u.registry.capture = v.active.capture
  BY <1>2 DEF ReturnedOf, OpenedOf, ShutOf
<1>5. \A other \in DOMAIN u.stored : u.stored[other].document # "desktop"
  BY <1>1 DEF EditTaken, Restocked, EntryOf, Editor, Lent
<1> QED BY <1>1, <1>2, <1>3, <1>4, <1>5 DEF Editor, Lent, DrawnAt

\* It is lent to a pin.
LEMMA EditorLent ==
    ASSUME NEW w \in Worlds, NEW w2, NEW id, NEW edit, Editor(w.view), w.view.active = None,
           w.view.recovery = None, id \in DOMAIN w.view.stored, EditLent(w, w2, id, edit)
    PROVE  Editor(w2.view)
<1>1. PICK v, u : v = w.view /\ u = w2.view OBVIOUS
<1>2. /\ Except(v, u, {"active", "registry", "stored", "windows"})
      /\ u.active = LendingOf(id, edit, v.registry)
      /\ u.registry = HoldingOf(v.stored[id].document, id, edit)
      /\ Restocked(v, u, id, EntryOf("blank", v.stored[id].published))
  BY <1>1 DEF EditLent
<1>3. u.recovery = None /\ u.host = v.host /\ u.drawn = v.drawn BY <1>1, <1>2 DEF Except
<1>4. /\ u.active # None /\ u.active.id = id /\ u.active.edit = edit
      /\ u.active.document = v.registry.document /\ u.active.capture = v.registry.capture
  BY <1>2 DEF LendingOf, None
<1>5. /\ u.registry.document = v.stored[id].document /\ u.registry.editing # None
      /\ u.registry.editing.k = "pin" /\ u.registry.editing.id = id
      /\ u.registry.editing.edit = edit
  BY <1>2 DEF HoldingOf, None
<1>6. v.stored[id].document # "desktop" /\ v.registry.capture = "live" BY <1>1 DEF Editor, Lent
<1>7. \A other \in DOMAIN u.stored : u.stored[other].document # "desktop"
  BY <1>1, <1>2 DEF Restocked, EntryOf, Editor, Lent
<1> QED BY <1>1, <1>3, <1>4, <1>5, <1>6, <1>7 DEF Editor, Lent, DrawnAt

\* What a dispatch posts: its snapshot, the ends of edits, and what follows them.
Announced(q, r, shot, pins, X) ==
    \E n \in Nat, m \in Nat :
        /\ n < m /\ DOMAIN q = 1..n /\ DOMAIN r = 1..m
        /\ \A i \in 1..n : r[i] = q[i]
        /\ r[n + 1] = SyncOf(shot, pins)
        /\ \A i \in (n + 2)..m : r[i] \in X
        /\ \A i \in (n + 2)..(m - 1) : r[i].k = "EndEdit"
        /\ \A x \in X : \E i \in (n + 2)..m : r[i] = x

LEMMA AppendOne == ASSUME NEW a, NEW x PROVE Append(<<a>>, x) = <<a, x>>
<1>0. PICK S : a \in S /\ x \in S
  <2>1. a \in {a, x} /\ x \in {a, x} OBVIOUS
  <2> QED BY <2>1
<1>1. <<a>> \in Seq(S) BY <1>0
<1>2. PICK t : t = Append(<<a>>, x) OBVIOUS
<1>3. t \in Seq(S) /\ Len(t) = 2 /\ t[1] = a /\ t[2] = x BY <1>0, <1>1, <1>2
<1>4. t = <<a, x>> BY <1>3
<1> QED BY <1>1, <1>2, <1>4

LEMMA AppendTwo == ASSUME NEW a, NEW b, NEW x PROVE Append(<<a, b>>, x) = <<a, b, x>>
<1>0. PICK S : a \in S /\ b \in S /\ x \in S
  <2>1. a \in {a, b, x} /\ b \in {a, b, x} /\ x \in {a, b, x} OBVIOUS
  <2> QED BY <2>1
<1>1. <<a, b>> \in Seq(S) BY <1>0
<1>2. PICK t : t = Append(<<a, b>>, x) OBVIOUS
<1>3. t \in Seq(S) /\ Len(t) = 3 /\ t[1] = a /\ t[2] = b /\ t[3] = x BY <1>0, <1>1, <1>2
<1>4. t = <<a, b, x>> BY <1>3
<1> QED BY <1>1, <1>2, <1>4

LEMMA AnnouncedOne ==
    ASSUME NEW q, NEW r, NEW shot, NEW pins, Grows(q, r, <<SyncOf(shot, pins)>>)
    PROVE  Announced(q, r, shot, pins, {})
<1>0. PICK x, new : x = SyncOf(shot, pins) /\ new = <<x>> /\ Len(new) = 1 /\ new[1] = x
          /\ Grows(q, r, new)
  OBVIOUS
<1>1. PICK n \in Nat : n = Len(q) /\ DOMAIN q = 1..n /\ DOMAIN r = 1..(n + 1)
           /\ (\A i \in 1..n : r[i] = q[i]) /\ r[n + 1] = SyncOf(shot, pins)
  <2>1. /\ Len(q) \in Nat /\ DOMAIN q = 1..Len(q) /\ DOMAIN r = 1..(Len(q) + 1)
        /\ (\A i \in 1..Len(q) : r[i] = q[i]) /\ \A i \in 1..1 : r[Len(q) + i] = new[i]
    BY ONLY <1>0 DEF Grows
  <2>2. r[Len(q) + 1] = new[1] BY <2>1
  <2> QED BY ZenonT(60), <1>0, <2>1, <2>2
<1>2. PICK m \in Nat : m = n + 1 OBVIOUS
<1>3. n < m /\ DOMAIN r = 1..m /\ (n + 2)..m = {} /\ (n + 2)..(m - 1) = {} BY <1>1, <1>2
<1> QED BY <1>1, <1>3 DEF Announced

LEMMA AnnouncedTwo ==
    ASSUME NEW q, NEW r, NEW shot, NEW pins, NEW x, Grows(q, r, <<SyncOf(shot, pins), x>>)
    PROVE  Announced(q, r, shot, pins, {x})
<1>1. PICK n \in Nat : n = Len(q) /\ DOMAIN q = 1..n /\ DOMAIN r = 1..(n + 2)
           /\ (\A i \in 1..n : r[i] = q[i])
           /\ \A i \in 1..2 : r[n + i] = <<SyncOf(shot, pins), x>>[i]
  BY ZenonT(60) DEF Grows
<1>2. r[n + 1] = SyncOf(shot, pins) /\ r[n + 2] = x BY <1>1
<1>3. PICK m \in Nat : m = n + 2 OBVIOUS
<1>4. n < m /\ DOMAIN r = 1..m /\ (n + 2)..m = {n + 2} /\ (n + 2)..(m - 1) = {} BY <1>1, <1>3
<1> QED BY <1>1, <1>2, <1>4 DEF Announced

LEMMA AnnouncedThree ==
    ASSUME NEW q, NEW r, NEW shot, NEW pins, NEW e, NEW x, e.k = "EndEdit",
           Grows(q, r, Append(<<SyncOf(shot, pins), e>>, x))
    PROVE  Announced(q, r, shot, pins, {e, x})
<1>0. Append(<<SyncOf(shot, pins), e>>, x) = <<SyncOf(shot, pins), e, x>> BY AppendTwo
<1>1. PICK n \in Nat : n = Len(q) /\ DOMAIN q = 1..n /\ DOMAIN r = 1..(n + 3)
           /\ (\A i \in 1..n : r[i] = q[i])
           /\ \A i \in 1..3 : r[n + i] = <<SyncOf(shot, pins), e, x>>[i]
  BY ZenonT(60), <1>0 DEF Grows
<1>2. r[n + 1] = SyncOf(shot, pins) /\ r[n + 2] = e /\ r[n + 3] = x BY <1>1
<1>3. PICK m \in Nat : m = n + 3 OBVIOUS
<1>4. n < m /\ DOMAIN r = 1..m /\ (n + 2)..m = {n + 2, n + 3} /\ (n + 2)..(m - 1) = {n + 2}
  BY <1>1, <1>3
<1> QED BY <1>1, <1>2, <1>4 DEF Announced

LEMMA AnnouncedAppend ==
    ASSUME NEW q, NEW r, NEW shot, NEW pins, NEW x, Grows(q, r, Append(<<SyncOf(shot, pins)>>, x))
    PROVE  Announced(q, r, shot, pins, {x})
  BY AppendOne, AnnouncedTwo

\* What EditRequested posts.
Begins2(pins, id) ==
    {BeginEditOf(id, pins[id].operation + 1)}
        \cup {EndEditOf(other, pins[other].editing) : other \in Others(pins)}

LEMMA AnnouncedBegun ==
    ASSUME NEW q, NEW r, NEW shot, NEW pins, NEW id, NEW new, Grows(q, r, new),
           Begun(new, shot, pins, id)
    PROVE  Announced(q, r, shot, BegunPins(pins, id), Begins2(pins, id))
<1>1. PICK n \in Nat, k \in Nat : /\ n = Len(q) /\ k = Len(new) /\ DOMAIN q = 1..n
                                  /\ DOMAIN r = 1..(n + k)
           /\ (\A i \in 1..n : r[i] = q[i]) /\ (\A i \in 1..k : r[n + i] = new[i])
  BY DEF Grows
<1>2. /\ k >= 2 /\ new[1] = SyncOf(shot, BegunPins(pins, id))
      /\ new[k] = BeginEditOf(id, pins[id].operation + 1)
      /\ \A i \in 2..(k - 1) : \E other \in Others(pins) :
          new[i] = EndEditOf(other, pins[other].editing)
      /\ \A other \in Others(pins) : \E i \in 2..(k - 1) :
          new[i] = EndEditOf(other, pins[other].editing)
  BY <1>1 DEF Begun
<1>3. PICK m \in Nat : m = n + k OBVIOUS
<1>4. \A i \in (n + 2)..m : r[i] = new[i - n] /\ i - n \in 2..k
  <2>1. SUFFICES ASSUME NEW i \in (n + 2)..m PROVE r[i] = new[i - n] /\ i - n \in 2..k OBVIOUS
  <2>2. PICK j \in 2..k : j = i - n BY <1>3
  <2>3. i = n + j /\ j \in 1..k BY <2>2
  <2> QED BY <1>1, <2>2, <2>3
<1>5. \A i \in (n + 2)..(m - 1) : \E other \in Others(pins) :
          r[i] = EndEditOf(other, pins[other].editing)
  <2>1. SUFFICES ASSUME NEW i \in (n + 2)..(m - 1)
                 PROVE  \E other \in Others(pins) : r[i] = EndEditOf(other, pins[other].editing)
    OBVIOUS
  <2>2. PICK j \in 2..(k - 1) : j = i - n BY <1>3
  <2>3. r[i] = new[j] BY <1>3, <1>4, <2>2
  <2> QED BY <1>2, <2>2, <2>3
<1>6. r[m] = BeginEditOf(id, pins[id].operation + 1) /\ m \in (n + 2)..m BY <1>2, <1>3, <1>4
<1>7. \A i \in (n + 2)..m : r[i] \in Begins2(pins, id)
  <2>1. SUFFICES ASSUME NEW i \in (n + 2)..m PROVE r[i] \in Begins2(pins, id) OBVIOUS
  <2>2. i = m \/ i \in (n + 2)..(m - 1) OBVIOUS
  <2> QED BY <1>5, <1>6, <2>2 DEF Begins2
<1>8. \A i \in (n + 2)..(m - 1) : r[i].k = "EndEdit"
  <2>1. \A other : EndEditOf(other, pins[other].editing).k = "EndEdit" BY DEF EndEditOf
  <2> QED BY <1>5, <2>1
<1>9. \A x \in Begins2(pins, id) : \E i \in (n + 2)..m : r[i] = x
  <2>1. SUFFICES ASSUME NEW x \in Begins2(pins, id) PROVE \E i \in (n + 2)..m : r[i] = x OBVIOUS
  <2>2. CASE x = BeginEditOf(id, pins[id].operation + 1) BY <1>6, <2>2
  <2>3. CASE \E other \in Others(pins) : x = EndEditOf(other, pins[other].editing)
    <3>1. PICK j \in 2..(k - 1) : x = new[j] BY <1>2, <2>3
    <3>2. PICK i \in (n + 2)..m : i = n + j BY <1>3
    <3>3. r[i] = new[j] BY <1>4, <3>2
    <3> QED BY <3>1, <3>3
  <2> QED BY <2>2, <2>3 DEF Begins2
<1>10. n < m /\ DOMAIN r = 1..m /\ r[n + 1] = new[1] BY <1>1, <1>2, <1>3
<1>11. r[n + 1] = SyncOf(shot, BegunPins(pins, id)) /\ DOMAIN q = 1..n /\ \A i \in 1..n :
           r[i] = q[i]
  BY <1>1, <1>2, <1>10
<1> HIDE DEF Begins2
<1> QED BY ONLY n \in Nat, m \in Nat, <1>7, <1>8, <1>9, <1>10, <1>11 DEF Announced

\* What each dispatch posts.
EndsOf(id, pin)   == IF pin.editing # 0 THEN {EndEditOf(id, pin.editing)} ELSE {}

LEMMA ClosingAnnounced ==
    ASSUME NEW q, NEW r, NEW shot, NEW pins, NEW id, NEW pin, NEW x,
           Grows(q, r, Append(Closing(shot, pins, id, pin), x))
    PROVE  Announced(q, r, shot, pins, EndsOf(id, pin) \cup {x})
<1>1. CASE pin.editing # 0
  <2>1. PICK e : e = EndEditOf(id, pin.editing) OBVIOUS
  <2>2. /\ e.k = "EndEdit" /\ Grows(q, r, Append(<<SyncOf(shot, pins), e>>, x))
        /\ EndsOf(id, pin) \cup {x} = {e, x}
    BY <1>1, <2>1 DEF Closing, EndsOf, EndEditOf
  <2> QED BY <2>2, AnnouncedThree
<1>2. CASE pin.editing = 0 BY <1>2, AnnouncedAppend DEF Closing, EndsOf
<1> QED BY <1>1, <1>2

LEMMA EndingAnnounced ==
    ASSUME NEW q, NEW r, NEW shot, NEW pins, NEW id, NEW pin,
           Grows(q, r, Ending(shot, pins, id, pin))
    PROVE  Announced(q, r, shot, pins, EndsOf(id, pin))
  BY AnnouncedTwo, AnnouncedOne DEF Ending, EndsOf

\* The queue grows at its end and is run from its head.
Longer(q, r) == \E n \in Nat, m \in Nat : /\ n <= m /\ DOMAIN q = 1..n /\ DOMAIN r = 1..m
                                          /\ \A i \in 1..n : r[i] = q[i]
NewIn(q, r)  == DOMAIN r \ DOMAIN q

LEMMA LongerFacts ==
    ASSUME NEW q, NEW r, Longer(q, r)
    PROVE  /\ DOMAIN q \subseteq DOMAIN r /\ DOMAIN r \subseteq Nat
           /\ \A i \in DOMAIN q : r[i] = q[i]
           /\ \A i \in NewIn(q, r), j \in DOMAIN q : j < i
           /\ \A k : At(q, k) \subseteq At(r, k) /\ \A i \in At(r, k) :
               i \in At(q, k) \/ i \in NewIn(q, r)
<1>1. PICK n \in Nat, m \in Nat : /\ n <= m /\ DOMAIN q = 1..n /\ DOMAIN r = 1..m
                                  /\ \A i \in 1..n : r[i] = q[i]
  BY DEF Longer
<1>2. /\ DOMAIN q \subseteq DOMAIN r /\ DOMAIN r \subseteq Nat
      /\ \A i \in DOMAIN q : r[i] = q[i]
      /\ \A i \in NewIn(q, r), j \in DOMAIN q : j < i
  BY <1>1 DEF NewIn
<1> QED BY <1>2 DEF At, NewIn

LEMMA AnnouncedFacts ==
    ASSUME NEW q, NEW r, NEW shot, NEW pins, NEW X, Announced(q, r, shot, pins, X)
    PROVE  /\ Longer(q, r)
           /\ \A x \in X : \E i \in NewIn(q, r) : r[i] = x
           /\ \E p \in NewIn(q, r) :
                /\ r[p] = SyncOf(shot, pins)
                /\ \A i \in NewIn(q, r) : i # p => i > p /\ r[i] \in X
           /\ \A i \in NewIn(q, r) : r[i] = SyncOf(shot, pins) \/ r[i].k = "EndEdit"
                                     \/ \A j \in NewIn(q, r) : j <= i
<1>1. PICK n \in Nat, m \in Nat :
        /\ n < m /\ DOMAIN q = 1..n /\ DOMAIN r = 1..m
        /\ \A i \in 1..n : r[i] = q[i]
        /\ r[n + 1] = SyncOf(shot, pins)
        /\ \A i \in (n + 2)..m : r[i] \in X
        /\ \A i \in (n + 2)..(m - 1) : r[i].k = "EndEdit"
        /\ \A x \in X : \E i \in (n + 2)..m : r[i] = x
  BY DEF Announced
<1>2. NewIn(q, r) = (n + 1)..m BY <1>1 DEF NewIn
<1>3. Longer(q, r)
  <2>1. n <= m BY <1>1
  <2> QED BY <1>1, <2>1 DEF Longer
<1>4. \A x \in X : \E i \in NewIn(q, r) : r[i] = x BY <1>1, <1>2
<1>5. n + 1 \in NewIn(q, r) /\ \A i \in NewIn(q, r) : i # n + 1 => i > n + 1 /\ r[i] \in X
  BY <1>1, <1>2
<1>6. \A i \in NewIn(q, r) : r[i] = SyncOf(shot, pins) \/ r[i].k = "EndEdit"
                                \/ \A j \in NewIn(q, r) : j <= i
  BY <1>1, <1>2
<1> QED BY <1>1, <1>3, <1>4, <1>5, <1>6

\* What is seen at a position does not change when the queue grows.
LEMMA SeesOld ==
    ASSUME NEW q, NEW r, Longer(q, r), NEW flow, NEW i \in DOMAIN q, NEW shot,
           Sees(q, flow, i, shot)
    PROVE  Sees(r, flow, i, shot)
  BY LongerFacts DEF Syncs, At, Sees

Knows(q, flow, shot) == Sees(q, flow, Len(q) + 1, shot)

\* Whoever comes after a snapshot sees it.
LEMMA SeesNew ==
    ASSUME NEW r, NEW flow, NEW p \in Syncs(r), Syncs(r) \subseteq Nat,
           \A m \in Syncs(r) : m <= p, NEW i \in Nat, p < i
    PROVE  Sees(r, flow, i, r[p].shot)
  BY DEF Sees

LEMMA QueueLen ==
    ASSUME NEW c \in Cores
    PROVE  Len(c.queue) \in Nat /\ DOMAIN c.queue = 1..Len(c.queue) /\ \A i \in DOMAIN c.queue :
               c.queue[i] \in Closures
<1>1. PICK q \in Seq(Closures) : q = c.queue BY DEF Cores, Drafts
<1>2. Len(q) \in Nat /\ DOMAIN q = 1..Len(q) /\ \A i \in DOMAIN q : q[i] \in Closures OBVIOUS
<1> QED BY <1>1, <1>2

\* After the snapshot: at the end, and at what was posted behind it.
LEMMA KnowsNew ==
    ASSUME NEW c \in Cores, NEW d \in Cores, NEW shot, NEW pins, NEW X, NEW flow,
           Announced(c.queue, d.queue, shot, pins, X), \A x \in X : x.k # "Sync"
    PROVE  /\ Knows(d.queue, flow, shot)
           /\ \A i \in NewIn(c.queue, d.queue) : d.queue[i].k # "Sync"
                => Sees(d.queue, flow, i, shot)
           /\ \A i \in NewIn(c.queue, d.queue) : d.queue[i].k # "Sync" => d.queue[i] \in X
           /\ \E p \in NewIn(c.queue, d.queue) :
                /\ d.queue[p] = SyncOf(shot, pins) /\ \A i \in NewIn(c.queue, d.queue) : p <= i
                /\ \A m \in Syncs(d.queue) : m = p \/ m \in Syncs(c.queue)
<1>1. PICK q, r : q = c.queue /\ r = d.queue OBVIOUS
<1>2. PICK p \in NewIn(q, r) : /\ r[p] = SyncOf(shot, pins)
                               /\ \A i \in NewIn(q, r) : i # p => i > p /\ r[i] \in X
  BY <1>1, AnnouncedFacts
<1>3. Longer(q, r) BY <1>1, AnnouncedFacts
<1>4. /\ DOMAIN r \subseteq Nat /\ DOMAIN q \subseteq DOMAIN r
      /\ \A i \in NewIn(q, r), j \in DOMAIN q : j < i
      /\ Syncs(q) \subseteq Syncs(r) /\ \A j \in Syncs(r) : j \in Syncs(q) \/ j \in NewIn(q, r)
  BY <1>3, LongerFacts DEF Syncs
<1>5. r[p].k = "Sync" /\ r[p].shot = shot BY <1>2 DEF SyncOf
<1>6. p \in Syncs(r) /\ p \in Nat /\ Syncs(r) \subseteq Nat BY <1>4, <1>5 DEF Syncs, At, NewIn
<1>7. \A m \in Syncs(r) : m = p \/ m \in Syncs(q) BY <1>2, <1>4 DEF Syncs, At
<1>8. \A m \in Syncs(r) : m <= p BY <1>4, <1>6, <1>7 DEF Syncs, At
<1>9. \A i \in NewIn(q, r) : r[i].k # "Sync" => i # p /\ i > p /\ i \in Nat /\ r[i] \in X
  BY <1>2, <1>4, <1>5 DEF NewIn
<1>10. \A i \in NewIn(q, r) : r[i].k # "Sync" => Sees(r, flow, i, shot)
  BY <1>5, <1>6, <1>8, <1>9, SeesNew
<1>11. Len(r) + 1 \in Nat /\ p < Len(r) + 1 BY <1>1, <1>2, QueueLen DEF NewIn
<1>12. Knows(r, flow, shot) BY <1>5, <1>6, <1>8, <1>11, SeesNew DEF Knows
<1>13. \A i \in NewIn(q, r) : p <= i BY <1>2, <1>4, <1>6 DEF NewIn
<1> QED BY <1>1, <1>2, <1>7, <1>9, <1>10, <1>12, <1>13

\* One closure more, which is no snapshot.
Posted(q, r, x) == \E n \in Nat : /\ DOMAIN q = 1..n /\ DOMAIN r = 1..(n + 1)
                                  /\ (\A i \in 1..n : r[i] = q[i]) /\ r[n + 1] = x

LEMMA PostedAppend ==
    ASSUME NEW q \in Seq(Closures), NEW x \in Closures, NEW r, r = Append(q, x)
    PROVE  Posted(q, r, x)
<1>1. /\ Len(q) \in Nat /\ DOMAIN q = 1..Len(q) /\ DOMAIN r = 1..(Len(q) + 1)
      /\ r[Len(q) + 1] = x /\ \A i \in 1..Len(q) : r[i] = q[i]
  OBVIOUS
<1> QED BY <1>1 DEF Posted

LastIn(q, r, x, flow, shot) ==
    \E n \in NewIn(q, r) : /\ NewIn(q, r) = {n} /\ r[n] = x /\ Sees(r, flow, n, shot)
                          /\ \A i \in DOMAIN r : i <= n
LEMMA KnowsPosted ==
    ASSUME NEW c \in Cores, NEW d \in Cores, NEW x, Posted(c.queue, d.queue, x), x.k # "Sync",
           NEW flow, NEW shot, Knows(c.queue, flow, shot)
    PROVE  /\ Longer(c.queue, d.queue) /\ Knows(d.queue, flow, shot)
           /\ Syncs(d.queue) = Syncs(c.queue) /\ LastIn(c.queue, d.queue, x, flow, shot)
<1>1. PICK q, r : q = c.queue /\ r = d.queue OBVIOUS
<1>2. PICK n \in Nat : /\ DOMAIN q = 1..n /\ DOMAIN r = 1..(n + 1)
                       /\ (\A i \in 1..n : r[i] = q[i]) /\ r[n + 1] = x
  BY <1>1 DEF Posted
<1>3. Len(q) = n /\ Len(r) = n + 1 BY <1>1, <1>2, QueueLen
<1>4. Longer(q, r) BY <1>2 DEF Longer
<1>5. Syncs(r) = Syncs(q) /\ Syncs(q) \subseteq 1..n BY <1>2 DEF Syncs, At
<1>6. Sees(q, flow, n + 1, shot) BY <1>1, <1>3 DEF Knows
<1>7. Sees(r, flow, n + 1, shot) BY <1>2, <1>5, <1>6 DEF Sees
<1>8. Sees(r, flow, n + 2, shot) BY <1>2, <1>5, <1>6 DEF Sees
<1>9. Knows(r, flow, shot) BY <1>3, <1>8 DEF Knows
<1>10. NewIn(q, r) = {n + 1} /\ \A i \in DOMAIN r : i <= n + 1 BY <1>2 DEF NewIn
<1>11. LastIn(q, r, x, flow, shot) BY <1>2, <1>7, <1>10 DEF LastIn
<1> QED BY <1>1, <1>4, <1>5, <1>9, <1>11

\* The head of the queue is run.
Popped(q, r, x) == \E n \in Nat : /\ 1 <= n /\ DOMAIN q = 1..n /\ DOMAIN r = 1..(n - 1) /\ q[1] = x
                                  /\ \A i \in 1..(n - 1) : r[i] = q[i + 1]

LEMMA PoppedFacts ==
    ASSUME NEW q, NEW r, NEW x, Popped(q, r, x)
    PROVE  /\ 1 \in DOMAIN q /\ q[1] = x /\ DOMAIN q \subseteq Nat /\ DOMAIN r \subseteq Nat
           /\ \A i \in DOMAIN r : i + 1 \in DOMAIN q /\ r[i] = q[i + 1] /\ i >= 1
           /\ \A i \in DOMAIN q : i >= 1 /\ (i # 1 => i - 1 \in DOMAIN r /\ r[i - 1] = q[i])
           /\ \A k : \A i \in At(r, k) : i + 1 \in At(q, k)
           /\ \A k : \A i \in At(q, k) : i # 1 => i - 1 \in At(r, k)
<1>1. PICK n \in Nat : /\ 1 <= n /\ DOMAIN q = 1..n /\ DOMAIN r = 1..(n - 1) /\ q[1] = x
                       /\ \A i \in 1..(n - 1) : r[i] = q[i + 1]
  BY DEF Popped
<1>2. \A i \in DOMAIN r : i + 1 \in DOMAIN q /\ r[i] = q[i + 1] /\ i >= 1 BY <1>1
<1>3. \A i \in DOMAIN q : i >= 1 /\ (i # 1 => i - 1 \in DOMAIN r /\ r[i - 1] = q[i])
  <2>1. SUFFICES ASSUME NEW i \in DOMAIN q
                 PROVE i >= 1 /\ (i # 1 => i - 1 \in DOMAIN r /\ r[i - 1] = q[i])
    OBVIOUS
  <2>2. ASSUME i # 1 PROVE i - 1 \in 1..(n - 1) /\ (i - 1) + 1 = i BY <1>1, <2>2
  <2> QED BY <1>1, <2>2
<1>4. \A k : \A i \in At(r, k) : i + 1 \in At(q, k) BY <1>2 DEF At
<1>5. \A k : \A i \in At(q, k) : i # 1 => i - 1 \in At(r, k) BY <1>3 DEF At
<1> QED BY <1>1, <1>2, <1>3, <1>4, <1>5

FlowAfter(x, flow) == IF x.k = "Sync" THEN x.shot ELSE flow

LEMMA SeesPopped ==
    ASSUME NEW q, NEW r, NEW x, Popped(q, r, x), NEW flow, NEW i \in Nat, i > 1, NEW shot,
           Sees(q, flow, i, shot)
    PROVE  Sees(r, FlowAfter(x, flow), i - 1, shot)
<1>1. /\ 1 \in DOMAIN q /\ q[1] = x /\ DOMAIN q \subseteq Nat /\ DOMAIN r \subseteq Nat
      /\ \A j \in DOMAIN q : j >= 1 /\ (j # 1 => j - 1 \in DOMAIN r /\ r[j - 1] = q[j])
      /\ \A j \in Syncs(r) : j + 1 \in Syncs(q)
      /\ \A j \in Syncs(q) : j # 1 => j - 1 \in Syncs(r)
  BY PoppedFacts DEF Syncs
<1>2. Syncs(q) \subseteq DOMAIN q /\ Syncs(r) \subseteq Nat /\ (1 \in Syncs(q) <=> x.k = "Sync")
  BY <1>1 DEF Syncs, At
<1>3. CASE flow = shot /\ \A m \in Syncs(q) : m >= i BY <1>1, <1>2, <1>3 DEF FlowAfter, Sees
<1>4. CASE \E j \in Syncs(q) : j < i /\ q[j].shot = shot /\ \A m \in Syncs(q) : m < i => m <= j
  <2>1. PICK j \in Syncs(q) : j < i /\ q[j].shot = shot /\ \A m \in Syncs(q) : m < i => m <= j
    BY <1>4
  <2>2. CASE j = 1
    <3>1. FlowAfter(x, flow) = shot BY <1>1, <1>2, <2>1, <2>2 DEF FlowAfter
    <3>2. \A m \in Syncs(r) : m >= i - 1
      <4>1. SUFFICES ASSUME NEW m \in Syncs(r), m < i - 1 PROVE FALSE BY <1>2
      <4>2. m + 1 \in Syncs(q) /\ m + 1 < i /\ m + 1 > 1
        BY <1>1, <1>2, <4>1, PoppedFacts DEF Syncs, At
      <4> QED BY <1>2, <2>1, <2>2, <4>2
    <3> QED BY <3>1, <3>2 DEF Sees
  <2>3. CASE j # 1
    <3>1. j - 1 \in Syncs(r) /\ r[j - 1].shot = shot /\ j - 1 < i - 1 /\ j \in Nat
      BY <1>1, <1>2, <2>1, <2>3
    <3>2. \A m \in Syncs(r) : m < i - 1 => m <= j - 1
      <4>1. SUFFICES ASSUME NEW m \in Syncs(r), m < i - 1 PROVE m <= j - 1 OBVIOUS
      <4>2. m + 1 \in Syncs(q) /\ m + 1 < i BY <1>1, <1>2, <4>1
      <4> QED BY <1>2, <2>1, <3>1, <4>2
    <3> QED BY <3>1, <3>2 DEF Sees
  <2> QED BY <2>2, <2>3
<1> QED BY <1>3, <1>4 DEF Sees

LEMMA KnowsPopped ==
    ASSUME NEW c \in Cores, NEW d \in Cores, NEW x, Popped(c.queue, d.queue, x), NEW flow, NEW shot,
           Knows(c.queue, flow, shot)
    PROVE  Knows(d.queue, FlowAfter(x, flow), shot)
<1>1. PICK n \in Nat : 1 <= n /\ DOMAIN c.queue = 1..n /\ DOMAIN d.queue = 1..(n - 1) BY DEF Popped
<1>2. /\ Len(c.queue) \in Nat /\ DOMAIN c.queue = 1..Len(c.queue)
      /\ Len(d.queue) \in Nat /\ DOMAIN d.queue = 1..Len(d.queue)
  BY QueueLen
<1>3. Len(c.queue) = n /\ Len(d.queue) = n - 1 BY <1>1, <1>2
<1>4. n + 1 \in Nat /\ n + 1 > 1 /\ Sees(c.queue, flow, n + 1, shot) /\ (n + 1) - 1 = n
  BY <1>1, <1>3 DEF Knows
<1>5. Sees(d.queue, FlowAfter(x, flow), (n + 1) - 1, shot) BY <1>4, SeesPopped
<1>6. (n - 1) + 1 = n OBVIOUS
<1> QED BY <1>3, <1>4, <1>5, <1>6 DEF Knows

\* What is known of a screenshot however far it is.
Flowing(c, v, J) ==
    /\ FlowKnown(c, v) /\ SuspendKnown(c, v) /\ RecoveryKnown(c, v) /\ RestoreOld(c, J)
    /\ ShowOld(c, J)
    /\ HostKnown(c, v) /\ EditingKnown(c, v) /\ SourcesOld(c, v, J)

\* A job that is started: for a pin, for the output, or the commands of a worker's dispatch.
StartedFor(d, job) ==
    \/ job.k = "preview" \/ job.k = "pin output"
    \/ job.k = "output" /\ NotLater(d, <<job.session, job.operation>>)
    \/ job.k = "commands" /\ job.cmds[1].k = "Show" /\ job.cmds[1].session = d.shot.session
         /\ d.shot.phase # "Preparing"
    \/ job.k = "commands" /\ job.cmds[1].k = "Restore" /\ job.cmds[1].session = d.shot.session
         /\ d.shot.phase = "Idle"
\* A closure that is posted: for a pin, or the end of the screenshot.
PinKinds == {"EndEdit", "BeginEdit", "ClosePin"}
PostedFor(d, x) == x.k \in PinKinds \/ (x = RestoreOf(d.shot.session) /\ d.shot.phase = "Idle")
\* The session goes on, or ends.
Onward(c, d) ==
    /\ d.shot.session = c.shot.session /\ c.shot.operation <= d.shot.operation
    /\ d.shot.phase = "Preparing" => c.shot.phase = "Preparing"
    /\ d.shot.phase = "Selecting" => c.shot.phase \in {"Preparing", "Selecting"}
    /\ d.shot.phase # "Idle" => c.shot.phase # "Idle"

LEMMA PostedKinds ==
    ASSUME NEW d, NEW x, PostedFor(d, x)
    PROVE  /\ x.k \in {"EndEdit", "BeginEdit", "ClosePin", "Restore"}
           /\ x.k = "Restore" => x.session = d.shot.session /\ d.shot.phase = "Idle"
  BY DEF PostedFor, PinKinds, RestoreOf

LEMMA JobFacts ==
    ASSUME NEW job \in Jobs
    PROVE  /\ job.k = "output" => <<job.session, job.operation>> \in Sources /\ job.kind \in Kinds
           /\ job.k \in {"prepare", "output"} => job.session \in Nat
           /\ job.k \in {"preview", "pin output"} => job.id \in Nat
           /\ job.k = "output" \/ job.k = "pin output" => job.operation \in Nat
           /\ job.k = "preview" => job.revision \in Nat
  BY DEF Sources, Kinds, Jobs

LEMMA ClosureFacts ==
    ASSUME NEW c \in Cores
    PROVE  /\ \A i \in At(c.queue, "ShowPin") : c.queue[i].source \in Sources
           /\ \A i \in At(c.queue, "Sync") : c.queue[i] \in Snapshots
  BY QueueLen DEF Closures, Snapshots, Orders, Loans, At

LEMMA FlowingMoved ==
    ASSUME NEW c \in Cores, NEW d \in Cores, NEW v \in Views, NEW J \in SUBSET Jobs,
           NEW K \in SUBSET Jobs,
           Flowing(c, v, J),
           NEW pins, NEW X, Announced(c.queue, d.queue, d.shot, pins, X),
           \A x \in X : PostedFor(d, x),
           Onward(c, d), \A job \in K : job \in J \/ StartedFor(d, job)
    PROVE  Flowing(d, v, K)
<1>1. PICK q, r : q = c.queue /\ r = d.queue OBVIOUS
<1>2. \A x \in X : x.k # "Sync" /\ x.k # "Suspend" /\ x.k # "Show" /\ x.k # "ShowPin"
                   /\ (x.k = "Restore" => x.session = d.shot.session /\ d.shot.phase = "Idle")
  BY PostedKinds
<1>3. /\ Knows(r, v.flow, d.shot)
      /\ \A i \in NewIn(q, r) : r[i].k # "Sync" => r[i] \in X
      /\ \E p \in NewIn(q, r) : r[p] = SyncOf(d.shot, pins)
            /\ \A m \in Syncs(r) : m = p \/ m \in Syncs(q)
  <2>1. \A x \in X : x.k # "Sync" BY <1>2
  <2>2. PICK shot, flow : shot = d.shot /\ flow = v.flow OBVIOUS
  <2>3. Announced(c.queue, d.queue, shot, pins, X) BY <2>2
  <2>4. Knows(d.queue, flow, shot) BY <2>1, <2>3, KnowsNew
  <2>5. \A i \in NewIn(c.queue, d.queue) : d.queue[i].k # "Sync" => d.queue[i] \in X
    BY <2>1, <2>3, KnowsNew
  <2>6. \E p \in NewIn(c.queue, d.queue) :
             /\ d.queue[p] = SyncOf(shot, pins) /\ \A i \in NewIn(c.queue, d.queue) : p <= i
             /\ \A m \in Syncs(d.queue) : m = p \/ m \in Syncs(c.queue)
    BY ZenonT(60), <2>1, <2>3, KnowsNew
  <2> QED BY ONLY <1>1, <2>2, <2>4, <2>5, <2>6
<1>4. Longer(q, r) BY <1>1, AnnouncedFacts
<1>5. /\ DOMAIN q \subseteq DOMAIN r /\ DOMAIN r \subseteq Nat
      /\ \A i \in DOMAIN q : r[i] = q[i]
      /\ \A i \in NewIn(q, r), j \in DOMAIN q : j < i
      /\ \A k : At(q, k) \subseteq At(r, k) /\ \A i \in At(r, k) :
          i \in At(q, k) \/ i \in NewIn(q, r)
  BY <1>4, LongerFacts
<1>6. /\ At(r, "Suspend") = At(q, "Suspend") /\ At(r, "Show") = At(q, "Show")
      /\ At(r, "ShowPin") = At(q, "ShowPin")
  <2>1. \A i \in NewIn(q, r) : r[i].k # "Suspend" /\ r[i].k # "Show" /\ r[i].k # "ShowPin"
    BY <1>2, <1>3
  <2> QED BY <1>5, <2>1 DEF At
<1>7. \A k : \A i \in At(q, k) : i \in DOMAIN q BY DEF At
<1>8. \A m \in Syncs(r) : m \in Syncs(q) \/ r[m].shot = d.shot BY <1>3 DEF SyncOf
<1>9. /\ d.shot.session = c.shot.session /\ c.shot.session \in Nat /\ c.shot.operation \in Nat
      /\ d.shot.operation \in Nat
  BY DEF Cores, Drafts, Shots, Onward
<1>10. FlowKnown(d, v) BY <1>1, <1>3 DEF FlowKnown, Knows
<1>11. SuspendKnown(d, v)
  <2>1. SUFFICES ASSUME NEW i \in At(r, "Suspend")
        PROVE /\ r[i].session = d.shot.session
              /\ \E shot \in {v.flow} \cup {r[j].shot : j \in Syncs(r)} :
                    /\ Sees(r, v.flow, i, shot) /\ shot.session = d.shot.session
                    /\ shot.phase = "Preparing"
              /\ \A m \in Syncs(r) : m > i => r[m].shot.session = d.shot.session
              /\ \A m \in At(r, "Suspend") : m = i
    BY <1>1 DEF SuspendKnown
  <2>2. i \in At(q, "Suspend") /\ i \in DOMAIN q /\ r[i] = q[i] BY <1>5, <1>6, <1>7
  <2>3. /\ q[i].session = c.shot.session
        /\ \E shot \in {v.flow} \cup {q[j].shot : j \in Syncs(q)} :
              Sees(q, v.flow, i, shot) /\ shot.session = c.shot.session /\ shot.phase = "Preparing"
        /\ \A m \in Syncs(q) : m > i => q[m].shot.session = c.shot.session
        /\ \A m \in At(q, "Suspend") : m = i
    BY <1>1, <2>2 DEF Flowing, SuspendKnown
  <2>4. PICK shot \in {v.flow} \cup {q[j].shot : j \in Syncs(q)} :
              Sees(q, v.flow, i, shot) /\ shot.session = c.shot.session /\ shot.phase = "Preparing"
    BY <2>3
  <2>5. Sees(r, v.flow, i, shot) BY <1>4, <2>2, <2>4, SeesOld
  <2>6. shot \in {v.flow} \cup {r[j].shot : j \in Syncs(r)} BY <1>5, <2>4 DEF Syncs, At
  <2>7. \A m \in Syncs(r) : m > i => r[m].shot.session = d.shot.session
    BY <1>5, <1>7, <1>8, <1>9, <2>3 DEF Syncs
  <2> QED BY <1>6, <1>9, <2>2, <2>3, <2>4, <2>5, <2>6, <2>7
<1>12. RecoveryKnown(d, v) BY <1>1, <1>5, <1>7, <1>8, <1>9 DEF RecoveryKnown, Flowing, Syncs
<1>13. \A job \in K : job.k = "commands" => job \in J \/
          \/ /\ job.cmds[1].k = "Show" /\ job.cmds[1].session = d.shot.session
             /\ d.shot.phase # "Preparing"
          \/ /\ job.cmds[1].k = "Restore" /\ job.cmds[1].session = d.shot.session
             /\ d.shot.phase = "Idle"
  BY DEF StartedFor
<1>14. RestoreOld(d, K)
  <2>1. ASSUME NEW i \in At(r, "Restore")
        PROVE r[i].session <= d.shot.session /\ (r[i].session = d.shot.session => ~Active(d))
    <3>1. CASE i \in At(q, "Restore")
      BY <1>1, <1>5, <1>7, <1>9, <3>1 DEF Flowing, RestoreOld, Active, Onward
    <3>2. CASE i \in NewIn(q, r) BY <1>2, <1>3, <1>9, <2>1, <3>2 DEF At, Active
    <3> QED BY <1>5, <2>1, <3>1, <3>2
  <2>2. ASSUME NEW job \in K, job.k = "commands", job.cmds[1].k = "Restore"
        PROVE /\ job.cmds[1].session <= d.shot.session
              /\ (job.cmds[1].session = d.shot.session => ~Active(d))
    BY <1>9, <1>13, <2>2 DEF Flowing, RestoreOld, Active, Onward
  <2> QED BY <1>1, <2>1, <2>2 DEF RestoreOld
<1>15. ShowOld(d, K) BY <1>1, <1>5, <1>6, <1>7, <1>9, <1>13 DEF Flowing, ShowOld, Onward
<1>16. HostKnown(d, v) BY <1>9 DEF Flowing, HostKnown, Onward
<1>17. \A s : Past(c, s) => Past(d, s) BY <1>9 DEF Past, Onward
<1>18. EditingKnown(d, v) BY <1>17 DEF Flowing, EditingKnown
<1>19. \A source \in Sources : NotLater(c, source) => NotLater(d, source)
  <2>1. SUFFICES ASSUME NEW source \in Sources, NotLater(c, source) PROVE NotLater(d, source)
    OBVIOUS
  <2>0. source[1] \in Nat /\ source[2] \in Nat BY DEF Sources
  <2>2. CASE source[1] < c.shot.session BY <1>9, <2>0, <2>2 DEF NotLater
  <2>3. CASE source[1] = c.shot.session /\ source[2] <= c.shot.operation
    BY <1>9, <2>0, <2>3 DEF NotLater, Onward
  <2> QED BY <2>1, <2>2, <2>3 DEF NotLater
<1>20. SourcesOld(d, v, K)
  <2>1. \A job \in K : job.k = "output" => NotLater(d, <<job.session, job.operation>>)
    BY <1>19, JobFacts DEF Flowing, SourcesOld, StartedFor
  <2>2. \A i \in At(r, "ShowPin") : NotLater(d, r[i].source)
    BY <1>1, <1>5, <1>6, <1>7, <1>19, ClosureFacts DEF Flowing, SourcesOld
  <2>3. \A id \in DOMAIN v.windows : NotLater(d, v.windows[id].source)
    BY <1>19, StoreFacts DEF Windows, Flowing, SourcesOld
  <2> QED BY <1>1, <2>1, <2>2, <2>3 DEF SourcesOld
<1> QED BY <1>10, <1>11, <1>12, <1>14, <1>15, <1>16, <1>18, <1>20 DEF Flowing

\* What a screenshot under way has: its frames, what is put aside, and its work.
Tended(v, s) ==
    \/ \E timer \in v.timers : timer.k = "shot failed" /\ timer.session = s
    \/ /\ v.registry.editing # None /\ v.registry.editing.k = "shot"
       /\ v.registry.editing.session = s /\ v.registry.open
Working(c, v, J) ==
    /\ HeldKnown(c) /\ Loaned(c, v) /\ RestoreDue(c, v, J) /\ ShowSees(c, v)
    /\ PrepareWork(c, J) /\ SelectWork(c, v, J) /\ EditorWork(c, v)
Outputs(c, v, J) == OutputWork(c, v, J) /\ OutputKept(c, v)

\* A step that is about a pin.
PinJobs(K, J) == J \subseteq K /\ \A job \in K :
    job \in J \/ job.k = "preview" \/ job.k = "pin output"
PinMove(c, d, kinds) ==
    /\ d \in Cores /\ d.shot = c.shot /\ HeldKept(c, d) /\ d.pending \subseteq c.pending
    /\ \E X : Announced(c.queue, d.queue, c.shot, d.pins, X) /\ \A x \in X : x.k \in kinds
    /\ PinJobs(d.spawned, c.spawned)
PendingHeld(c, d) == Active(c) /\ Source(c) \in c.pending => Source(c) \in d.pending

LEMMA PinMoveFacts ==
    ASSUME NEW c \in Cores, NEW d, PinMove(c, d, PinKinds)
    PROVE  /\ d \in Cores /\ d.shot = c.shot
           /\ HeldKnown(c) => HeldKnown(d) /\ d.held = c.held
           /\ Longer(c.queue, d.queue) /\ Onward(c, d)
           /\ \A i \in NewIn(c.queue, d.queue) :
               d.queue[i].k \in {"Sync", "EndEdit", "BeginEdit", "ClosePin"}
           /\ \A i \in NewIn(c.queue, d.queue) : d.queue[i].k = "Sync" => d.queue[i].shot = c.shot
           /\ \A job \in d.spawned : job \in c.spawned \/ job.k = "preview" \/ job.k = "pin output"
           /\ c.spawned \subseteq d.spawned
<1>1. PICK X : Announced(c.queue, d.queue, c.shot, d.pins, X) /\ \A x \in X : x.k \in PinKinds
  BY DEF PinMove
<1>2. /\ d \in Cores /\ d.shot = c.shot /\ HeldKept(c, d) /\ d.pending \subseteq c.pending
      /\ Announced(c.queue, d.queue, c.shot, d.pins, X) /\ PinJobs(d.spawned, c.spawned)
  BY <1>1 DEF PinMove
<1>3. HeldKnown(c) => HeldKnown(d) /\ d.held = c.held BY <1>1, <1>2 DEF HeldKnown, HeldKept, Active
<1>4. Longer(c.queue, d.queue) BY <1>2, AnnouncedFacts
<1>5. PICK p \in NewIn(c.queue, d.queue) : d.queue[p] = SyncOf(c.shot, d.pins)
           /\ \A i \in NewIn(c.queue, d.queue) : i # p => d.queue[i] \in X
  BY <1>2, AnnouncedFacts
<1>6. d.queue[p].k = "Sync" /\ d.queue[p].shot = c.shot BY <1>5 DEF SyncOf
<1>7. \A i \in NewIn(c.queue, d.queue) : i = p \/ d.queue[i].k \in PinKinds BY <1>1, <1>5
<1>8. \A i \in NewIn(c.queue, d.queue) :
          d.queue[i].k \in {"Sync", "EndEdit", "BeginEdit", "ClosePin"}
  BY <1>6, <1>7 DEF PinKinds
<1>9. \A i \in NewIn(c.queue, d.queue) : d.queue[i].k = "Sync" => d.queue[i].shot = c.shot
  BY <1>6, <1>7 DEF PinKinds
<1>10. Onward(c, d) BY <1>2 DEF Onward, Cores, Drafts, Shots
<1> QED BY <1>2, <1>3, <1>4, <1>8, <1>9, <1>10 DEF PinJobs

LEMMA FlowingPin ==
    ASSUME NEW c \in Cores, NEW d, NEW v \in Views, NEW J \in SUBSET Jobs, NEW K \in SUBSET Jobs,
           Flowing(c, v, J), PinMove(c, d, PinKinds), PinJobs(K, J)
    PROVE  Flowing(d, v, K)
<1>1. PICK X : Announced(c.queue, d.queue, c.shot, d.pins, X) /\ \A x \in X : x.k \in PinKinds
  BY DEF PinMove
<1>2. d \in Cores /\ d.shot = c.shot /\ Onward(c, d) BY PinMoveFacts
<1>3. Announced(c.queue, d.queue, d.shot, d.pins, X) BY <1>1, <1>2
<1>4. \A x \in X : PostedFor(d, x) BY <1>1 DEF PostedFor
<1>5. \A job \in K : job \in J \/ StartedFor(d, job) BY DEF PinJobs, StartedFor
<1> QED BY <1>2, <1>3, <1>4, <1>5, FlowingMoved

LEMMA SameKind ==
    ASSUME NEW q, NEW r, Longer(q, r), NEW k, \A i \in NewIn(q, r) : r[i].k # k
    PROVE  At(r, k) = At(q, k) /\ \A i \in At(q, k) : i \in DOMAIN q /\ r[i] = q[i]
  BY LongerFacts DEF At

LEMMA WorkingPin ==
    ASSUME NEW c \in Cores, NEW d, NEW v, NEW J, NEW K,
           Working(c, v, J), PinMove(c, d, PinKinds), PinJobs(K, J)
    PROVE  Working(d, v, K)
<1>1. /\ d \in Cores /\ d.shot = c.shot /\ HeldKnown(d) /\ Longer(c.queue, d.queue)
      /\ \A i \in NewIn(c.queue, d.queue) :
          d.queue[i].k \in {"Sync", "EndEdit", "BeginEdit", "ClosePin"}
  BY PinMoveFacts DEF Working
<1>2. /\ At(d.queue, "Suspend") = At(c.queue, "Suspend")
      /\ At(d.queue, "Show") = At(c.queue, "Show")
      /\ At(d.queue, "Restore") = At(c.queue, "Restore")
      /\ \A i \in At(c.queue, "Show") \cup At(c.queue, "Restore") :
          i \in DOMAIN c.queue /\ d.queue[i] = c.queue[i]
  BY <1>1, SameKind
<1>3. Active(d) <=> Active(c) BY <1>1 DEF Active
<1>4. Loaned(d, v) /\ PrepareWork(d, K) /\ SelectWork(d, v, K) /\ EditorWork(d, v)
  <2>1. Loaned(d, v) BY <1>2, <1>3 DEF Working, Loaned
  <2>2. PrepareWork(d, K) BY <1>1 DEF Working, PrepareWork, PinJobs
  <2>3. SelectWork(d, v, K) BY <1>1, <1>2 DEF Ordered, PinJobs, Working, SelectWork
  <2>4. EditorWork(d, v) BY <1>1 DEF Working, EditorWork
  <2> QED BY <2>1, <2>2, <2>3, <2>4
<1>5. RestoreDue(d, v, K) BY <1>1, <1>2, <1>3 DEF Working, RestoreDue, PinJobs, Ordered
<1>6. ShowSees(d, v)
  <2>1. SUFFICES ASSUME NEW i \in At(d.queue, "Show"), Is(d, d.queue[i].session, "Selecting")
                 PROVE  /\ Sees(d.queue, v.flow, i, d.shot)
                        /\ \A m \in At(d.queue, "Suspend") : m < i
    BY DEF ShowSees
  <2>2. Is(c, c.queue[i].session, "Selecting") /\ i \in At(c.queue, "Show") /\ i \in DOMAIN c.queue
    BY <1>1, <1>2, <2>1 DEF Is
  <2>3. Sees(c.queue, v.flow, i, c.shot) /\ \A m \in At(c.queue, "Suspend") : m < i
    BY <2>2 DEF Working, ShowSees
  <2>4. Sees(d.queue, v.flow, i, c.shot) BY <1>1, <2>2, <2>3, SeesOld
  <2> QED BY <1>1, <1>2, <2>3, <2>4
<1> QED BY <1>1, <1>4, <1>5, <1>6 DEF Working

LEMMA OutputsPin ==
    ASSUME NEW c \in Cores, NEW d, NEW v, NEW J, NEW K,
           Outputs(c, v, J), PinMove(c, d, PinKinds), PendingHeld(c, d), PinJobs(K, J)
    PROVE  Outputs(d, v, K)
<1>1. /\ d \in Cores /\ d.shot = c.shot /\ Longer(c.queue, d.queue)
      /\ \A i \in NewIn(c.queue, d.queue) :
          d.queue[i].k \in {"Sync", "EndEdit", "BeginEdit", "ClosePin"}
      /\ \A i \in NewIn(c.queue, d.queue) : d.queue[i].k = "Sync" => d.queue[i].shot = c.shot
  BY PinMoveFacts
<1>2. /\ At(d.queue, "ShowPin") = At(c.queue, "ShowPin")
      /\ \A i \in At(c.queue, "ShowPin") : i \in DOMAIN c.queue /\ d.queue[i] = c.queue[i]
  BY <1>1, SameKind
<1>3. Source(d) = Source(c) BY <1>1 DEF Source
<1>4. OutputWork(d, v, K) BY <1>1, <1>2, <1>3 DEF Outputs, OutputWork, PinJobs
<1>5. \A m \in Syncs(d.queue) : (m \in Syncs(c.queue) /\ d.queue[m] = c.queue[m])
          \/ d.queue[m].shot = c.shot
  BY <1>1, LongerFacts DEF Syncs, At
<1>6. OutputKept(d, v)
  <2>1. SUFFICES ASSUME d.shot.phase = "Output"
        PROVE /\ \A i \in At(d.queue, "ShowPin") : d.queue[i].source = Source(d) =>
                   /\ Source(d) \in d.pending /\ Sees(d.queue, v.flow, i, d.shot)
                   /\ \A m \in Syncs(d.queue) : m > i => d.queue[m].shot = d.shot
              /\ \A id \in DOMAIN v.windows :
                   v.windows[id].phase = "Preparing" /\ v.windows[id].source = Source(d) =>
                     /\ Source(d) \in d.pending /\ v.flow = d.shot
                     /\ \A m \in Syncs(d.queue) : d.queue[m].shot = d.shot
    BY DEF OutputKept
  <2>2. c.shot.phase = "Output" /\ Active(c) BY <1>1, <2>1 DEF Active
  <2>3. ASSUME NEW i \in At(d.queue, "ShowPin"), d.queue[i].source = Source(d)
        PROVE  /\ Source(d) \in d.pending /\ Sees(d.queue, v.flow, i, d.shot)
               /\ \A m \in Syncs(d.queue) : m > i => d.queue[m].shot = d.shot
    BY <1>1, <1>2, <1>3, <1>5, <2>2, <2>3, SeesOld DEF Outputs, OutputKept, PendingHeld
  <2>4. ASSUME NEW id \in DOMAIN v.windows, v.windows[id].phase = "Preparing",
               v.windows[id].source = Source(d)
        PROVE  /\ Source(d) \in d.pending /\ v.flow = d.shot
               /\ \A m \in Syncs(d.queue) : d.queue[m].shot = d.shot
    BY <1>1, <1>3, <1>5, <2>2, <2>4 DEF Outputs, OutputKept, PendingHeld
  <2> QED BY <2>3, <2>4
<1> QED BY <1>4, <1>6 DEF Outputs

\* The view changes in what is none of the screenshot's business.
Besides(v, u) ==
    /\ u.recovery = v.recovery /\ u.host = v.host
    /\ \A timer \in u.timers : timer.k = "region" => timer \in v.timers
    /\ u.registry.editing # None /\ u.registry.editing.k = "shot" =>
          /\ v.registry.editing # None /\ v.registry.editing.k = "shot"
          /\ u.registry.editing.session = v.registry.editing.session
    /\ \A s : Tended(v, s) => Tended(u, s)
    /\ \A id \in DOMAIN u.windows :
          /\ id \in DOMAIN v.windows /\ u.windows[id].source = v.windows[id].source
          /\ u.windows[id].phase = "Preparing" => v.windows[id].phase = "Preparing"
    /\ \A id \in DOMAIN v.windows : v.windows[id].phase = "Preparing" =>
          id \in DOMAIN u.windows /\ u.windows[id].phase = "Preparing"

LEMMA FlowingBesides ==
    ASSUME NEW c, NEW v, NEW u, NEW J, Flowing(c, v, J), Besides(v, u), u.flow = v.flow
    PROVE  Flowing(c, u, J)
  BY DEF Flowing, Besides, FlowKnown, SuspendKnown, RecoveryKnown, HostKnown, EditingKnown,
     SourcesOld

LEMMA WorkingBesides ==
    ASSUME NEW c, NEW v, NEW u, NEW J, Working(c, v, J), Besides(v, u), u.flow = v.flow
    PROVE  Working(c, u, J)
<1>1. Loaned(c, u) /\ RestoreDue(c, u, J) /\ ShowSees(c, u) /\ SelectWork(c, u, J)
  BY DEF Working, Besides, Loaned, RestoreDue, ShowSees, SelectWork
<1>2. EditorWork(c, u) BY DEF Working, Besides, EditorWork, Tended
<1> QED BY <1>1, <1>2 DEF Working

LEMMA OutputsBesides ==
    ASSUME NEW c, NEW v, NEW u, NEW J, Outputs(c, v, J), Besides(v, u), u.flow = v.flow
    PROVE  Outputs(c, u, J)
  BY DEF Outputs, Besides, OutputWork, OutputKept

\* What the dispatches about a pin are to the screenshot.
Names(c, d, S) ==
    /\ DOMAIN d.pins \subseteq S
    /\ \A i \in NewIn(c.queue, d.queue) : d.queue[i].k \in Naming => d.queue[i].id \in S
    /\ \A job \in d.spawned : job \in c.spawned \/ job.id \in S
OnlyPins(job) == job.k = "preview" \/ job.k = "pin output"
EndKinds == {"EndEdit", "ClosePin"}
PinsWith(c, id) == DOMAIN c.pins \cup {id}
PinStep(c, d, id) ==
    /\ PinMove(c, d, EndKinds) /\ Names(c, d, PinsWith(c, id))
    /\ ImagesKept(c) => ImagesKept(d)

Naming2(X, kinds, S) == \A x \in X : x.k \in kinds /\ x.id \in S
StartsFor(started, S) == \A job \in started : OnlyPins(job) /\ job.id \in S

LEMMA MoveStep ==
    ASSUME NEW c \in Cores, NEW d, NEW pins, NEW X, NEW new, NEW started, NEW S, NEW kinds,
           Told(c, d, c.shot, pins, new, started), Announced(c.queue, d.queue, c.shot, pins, X),
           HeldKept(c, d), d.pending \subseteq c.pending,
           Naming2(X, kinds, S), StartsFor(started, S), DOMAIN pins \subseteq S
    PROVE  PinMove(c, d, kinds) /\ Names(c, d, S)
<1>1. d \in Cores /\ d.shot = c.shot /\ d.pins = pins /\ d.spawned = c.spawned \cup started
  BY DEF Told
<1>2. PinJobs(d.spawned, c.spawned) BY <1>1 DEF PinJobs, OnlyPins, StartsFor
<1>3. Announced(c.queue, d.queue, c.shot, d.pins, X) BY <1>1
<1>4. PinMove(c, d, kinds) BY <1>1, <1>2, <1>3 DEF PinMove, Naming2
<1>5. PICK p \in NewIn(c.queue, d.queue) : d.queue[p] = SyncOf(c.shot, pins)
           /\ \A i \in NewIn(c.queue, d.queue) : i # p => d.queue[i] \in X
  BY AnnouncedFacts
<1>6. d.queue[p].k = "Sync" BY <1>5 DEF SyncOf
<1>7. \A i \in NewIn(c.queue, d.queue) : d.queue[i].k \in Naming => d.queue[i].id \in S
  BY <1>5, <1>6 DEF Naming, Naming2
<1>8. \A job \in d.spawned : job \in c.spawned \/ job.id \in S BY <1>1 DEF StartsFor
<1> QED BY <1>1, <1>4, <1>7, <1>8 DEF Names

LEMMA KeptFacts ==
    ASSUME NEW c \in Cores, NEW d \in Cores, d.shot = c.shot,
           HeldKept(c, d), PendingKept(c, d), ImagesSynced(c, d),
           DOMAIN d.pins \subseteq DOMAIN c.pins
    PROVE  /\ d.pending \subseteq c.pending /\ PendingHeld(c, d)
           /\ ImagesKept(c) => ImagesKept(d)
  BY DEF PendingKept, PendingHeld, ImagesSynced, ImagesKept, Active, Source

LEMMA EditEndedStep ==
    ASSUME NEW c \in Cores, NEW d, NEW id, NEW edit, EditEndedTold(c, d, id, edit)
    PROVE  d = c \/ (PinStep(c, d, id) /\ PendingHeld(c, d))
<1>1. CASE EditsIn(c, id, edit)
  <2>1. PICK pins, x : pins = PinSet(c.pins, id, Unedited(c.pins[id])) /\ x = EndEditOf(id, edit)
    OBVIOUS
  <2>2. Told(c, d, c.shot, pins, <<SyncOf(c.shot, pins), x>>, {}) /\ Kept(c, d)
    BY <1>1, <2>1 DEF EditEndedTold
  <2>3. x.k = "EndEdit" /\ x.id = id /\ DOMAIN pins = DOMAIN c.pins BY <2>1 DEF EndEditOf, PinSet
  <2>4. Announced(c.queue, d.queue, c.shot, pins, {x}) BY <2>2, AnnouncedTwo DEF Told
  <2>5. d \in Cores /\ d.shot = c.shot /\ d.pins = pins BY <2>2 DEF Told
  <2>6. /\ HeldKept(c, d) /\ PendingHeld(c, d) /\ d.pending \subseteq c.pending
        /\ (ImagesKept(c) => ImagesKept(d))
    BY <2>2, <2>3, <2>5, KeptFacts DEF Kept
  <2>7. PinMove(c, d, EndKinds) /\ Names(c, d, PinsWith(c, id))
    <3>1. PICK Y, new, started, S : /\ Y = {x} /\ new = <<SyncOf(c.shot, pins), x>>
                                    /\ started = {} /\ S = PinsWith(c, id)
      OBVIOUS
    <3>2. Told(c, d, c.shot, pins, new, started) /\ Announced(c.queue, d.queue, c.shot, pins, Y)
      BY <2>2, <2>4, <3>1
    <3>3. Naming2(Y, EndKinds, S) /\ StartsFor(started, S) /\ DOMAIN pins \subseteq S
      BY <2>3, <3>1 DEF Naming2, StartsFor, EndKinds, PinsWith
    <3>4. PinMove(c, d, EndKinds) /\ Names(c, d, S) BY <2>6, <3>2, <3>3, MoveStep
    <3> QED BY <3>1, <3>4
  <2> QED BY <2>6, <2>7 DEF PinStep
<1> QED BY <1>1 DEF EditEndedTold

LEMMA PicturesFacts ==
    ASSUME NEW c, NEW id, NEW revision
    PROVE  \A job \in Pictures(c, id, revision) : OnlyPins(job) /\ job.id = id
<1>1. PreviewOf(id, revision).k = "preview" /\ PreviewOf(id, revision).id = id BY DEF PreviewOf
<1> QED BY <1>1 DEF Pictures, OnlyPins

LEMMA DocumentStep ==
    ASSUME NEW c \in Cores, NEW d, NEW id, NEW document, DocumentTold(c, d, id, document)
    PROVE  d = c \/ (PinStep(c, d, id) /\ PendingHeld(c, d))
<1>1. CASE Taken(c, id, document)
  <2>1. PICK pins, r : pins = PinSet(c.pins, id, ChangedPin(c.pins[id], document))
            /\ r = c.pins[id].revision + 1
    OBVIOUS
  <2>2. /\ Told(c, d, c.shot, pins, <<SyncOf(c.shot, pins)>>, Pictures(c, id, r))
        /\ Repainted(c, d, id, r)
    BY <1>1, <2>1 DEF DocumentTold
  <2>3. DOMAIN pins = DOMAIN c.pins BY <2>1 DEF PinSet
  <2>4. Announced(c.queue, d.queue, c.shot, pins, {}) BY <2>2, AnnouncedOne DEF Told
  <2>5. d \in Cores /\ d.shot = c.shot /\ d.pins = pins BY <2>2 DEF Told
  <2>6. /\ HeldKept(c, d) /\ PendingHeld(c, d) /\ d.pending \subseteq c.pending
        /\ (ImagesKept(c) => ImagesKept(d))
    BY <2>2, <2>3, <2>5, KeptFacts DEF Repainted
  <2>7. PinMove(c, d, EndKinds) /\ Names(c, d, PinsWith(c, id))
    <3>1. PICK Y, new, started, S : /\ Y = {} /\ new = <<SyncOf(c.shot, pins)>>
                                    /\ started = Pictures(c, id, r) /\ S = PinsWith(c, id)
      OBVIOUS
    <3>2. Told(c, d, c.shot, pins, new, started) /\ Announced(c.queue, d.queue, c.shot, pins, Y)
      BY <2>2, <2>4, <3>1
    <3>3. Naming2(Y, EndKinds, S) /\ StartsFor(started, S) /\ DOMAIN pins \subseteq S
      BY <2>3, PicturesFacts, <3>1 DEF Naming2, StartsFor, EndKinds, PinsWith
    <3>4. PinMove(c, d, EndKinds) /\ Names(c, d, S) BY <2>6, <3>2, <3>3, MoveStep
    <3> QED BY <3>1, <3>4
  <2> QED BY <2>6, <2>7 DEF PinStep
<1> QED BY <1>1 DEF DocumentTold

LEMMA EndsFacts ==
    ASSUME NEW id, NEW pin
    PROVE  \A x \in EndsOf(id, pin) : x.k = "EndEdit" /\ x.id = id
  BY DEF EndsOf, EndEditOf

LEMMA ClosedStep ==
    ASSUME NEW c \in Cores, NEW d, NEW id, ClosedTold(c, d, id)
    PROVE  d = c \/ (PinStep(c, d, id) /\ PendingHeld(c, d))
<1>1. CASE Has(c, id)
  <2>1. PICK pins, x, pin : pins = Without(c.pins, id) /\ x = ClosePinOf(id) /\ pin = c.pins[id]
    OBVIOUS
  <2>2. Told(c, d, c.shot, pins, Append(Closing(c.shot, pins, id, pin), x), {}) /\ Kept(c, d)
    BY <1>1, <2>1 DEF ClosedTold
  <2>3. x.k = "ClosePin" /\ x.id = id /\ DOMAIN pins \subseteq DOMAIN c.pins
    <3>1. c.pins \in PinTables BY DEF Cores, Drafts
    <3> QED BY <2>1, <3>1, PinGoneFacts DEF ClosePinOf
  <2>4. PICK X : X = EndsOf(id, pin) \cup {x} OBVIOUS
  <2>5. Announced(c.queue, d.queue, c.shot, pins, X) BY <2>2, <2>4, ClosingAnnounced DEF Told
  <2>6. \A y \in X : y.k \in {"EndEdit", "ClosePin"} /\ y.id = id BY <2>3, <2>4, EndsFacts
  <2>7. d \in Cores /\ d.shot = c.shot /\ d.pins = pins BY <2>2 DEF Told
  <2>8. /\ HeldKept(c, d) /\ PendingHeld(c, d) /\ d.pending \subseteq c.pending
        /\ (ImagesKept(c) => ImagesKept(d))
    BY <2>2, <2>3, <2>7, KeptFacts DEF Kept
  <2>9. PinMove(c, d, EndKinds) /\ Names(c, d, PinsWith(c, id))
    <3>1. PICK Y, new, started, S : /\ Y = EndsOf(id, pin) \cup {x}
                                    /\ new = Append(Closing(c.shot, pins, id, pin), x)
                                    /\ started = {} /\ S = PinsWith(c, id)
      OBVIOUS
    <3>2. Told(c, d, c.shot, pins, new, started) /\ Announced(c.queue, d.queue, c.shot, pins, Y)
      BY <2>2, <2>4, <2>5, <3>1
    <3>3. Naming2(Y, EndKinds, S) /\ StartsFor(started, S) /\ DOMAIN pins \subseteq S
      BY <2>3, <2>4, <2>6, <3>1 DEF Naming2, StartsFor, EndKinds, PinsWith
    <3>4. PinMove(c, d, EndKinds) /\ Names(c, d, S) BY <2>8, <3>2, <3>3, MoveStep
    <3> QED BY <3>1, <3>4
  <2> QED BY <2>8, <2>9 DEF PinStep
<1> QED BY <1>1 DEF ClosedTold

LEMMA HiddenStep ==
    ASSUME NEW c \in Cores, NEW d, NEW id, NEW hidden, HiddenTold(c, d, id, hidden)
    PROVE  d = c \/ (PinStep(c, d, id) /\ PendingHeld(c, d))
<1>1. CASE d # c
  <2>1. PICK pins, pin, r : pins = PinSet(c.pins, id, HiddenPin(c.pins[id], hidden))
            /\ pin = c.pins[id]
                            /\ r = pin.revision + 1
    OBVIOUS
  <2>2. PICK sent : sent = IF pin.document # None THEN Pictures(c, id, r) ELSE {} OBVIOUS
  <2>3. /\ Told(c, d, c.shot, pins, Ending(c.shot, pins, id, pin), sent)
        /\ IF pin.document # None THEN Repainted(c, d, id, r) ELSE Kept(c, d)
    BY <1>1, <2>1, <2>2 DEF HiddenTold
  <2>4. DOMAIN pins = DOMAIN c.pins BY <2>1 DEF PinSet
  <2>5. Announced(c.queue, d.queue, c.shot, pins, EndsOf(id, pin)) BY <2>3, EndingAnnounced DEF Told
  <2>6. d \in Cores /\ d.shot = c.shot /\ d.pins = pins BY <2>3 DEF Told
  <2>7. /\ HeldKept(c, d) /\ PendingHeld(c, d) /\ d.pending \subseteq c.pending
        /\ (ImagesKept(c) => ImagesKept(d))
    BY <2>3, <2>4, <2>6, KeptFacts DEF Kept, Repainted
  <2>8. \A job \in sent : OnlyPins(job) /\ job.id = id BY <2>2, PicturesFacts
  <2>9. PinMove(c, d, EndKinds) /\ Names(c, d, PinsWith(c, id))
    <3>1. PICK Y, new, started, S : /\ Y = EndsOf(id, pin) /\ new = Ending(c.shot, pins, id, pin)
                                    /\ started = sent /\ S = PinsWith(c, id)
      OBVIOUS
    <3>2. Told(c, d, c.shot, pins, new, started) /\ Announced(c.queue, d.queue, c.shot, pins, Y)
      BY <2>2, <2>3, <2>5, <3>1
    <3>3. Naming2(Y, EndKinds, S) /\ StartsFor(started, S) /\ DOMAIN pins \subseteq S
      BY <2>2, <2>4, <2>8, EndsFacts, <3>1 DEF Naming2, StartsFor, EndKinds, PinsWith
    <3>4. PinMove(c, d, EndKinds) /\ Names(c, d, S) BY <2>7, <3>2, <3>3, MoveStep
    <3> QED BY <3>1, <3>4
  <2> QED BY <2>7, <2>9 DEF PinStep
<1> QED BY <1>1

LEMMA PinOutputStep ==
    ASSUME NEW c \in Cores, NEW d, NEW id, PinOutputTold(c, d, id)
    PROVE  d = c \/ (PinStep(c, d, id) /\ PendingHeld(c, d))
<1>1. CASE d # c
  <2>1. PICK pins, job : pins = PinSet(c.pins, id, BusyPin(c.pins[id]))
                         /\ job = PinJob(id, c.pins[id].operation + 1)
    OBVIOUS
  <2>2. Told(c, d, c.shot, pins, <<SyncOf(c.shot, pins)>>, {job}) /\ Kept(c, d)
    BY <1>1, <2>1 DEF PinOutputTold
  <2>3. DOMAIN pins = DOMAIN c.pins BY <2>1 DEF PinSet
  <2>4. Announced(c.queue, d.queue, c.shot, pins, {}) BY <2>2, AnnouncedOne DEF Told
  <2>5. d \in Cores /\ d.shot = c.shot /\ d.pins = pins BY <2>2 DEF Told
  <2>6. /\ HeldKept(c, d) /\ PendingHeld(c, d) /\ d.pending \subseteq c.pending
        /\ (ImagesKept(c) => ImagesKept(d))
    BY <2>2, <2>3, <2>5, KeptFacts DEF Kept
  <2>7. OnlyPins(job) /\ job.id = id BY <2>1 DEF OnlyPins, PinJob
  <2>8. PinMove(c, d, EndKinds) /\ Names(c, d, PinsWith(c, id))
    <3>1. PICK Y, new, started, S : /\ Y = {} /\ new = <<SyncOf(c.shot, pins)>>
                                    /\ started = {job} /\ S = PinsWith(c, id)
      OBVIOUS
    <3>2. Told(c, d, c.shot, pins, new, started) /\ Announced(c.queue, d.queue, c.shot, pins, Y)
      BY <2>2, <2>4, <3>1
    <3>3. Naming2(Y, EndKinds, S) /\ StartsFor(started, S) /\ DOMAIN pins \subseteq S
      BY <2>3, <2>7, <3>1 DEF Naming2, StartsFor, EndKinds, PinsWith
    <3>4. PinMove(c, d, EndKinds) /\ Names(c, d, S) BY <2>6, <3>2, <3>3, MoveStep
    <3> QED BY <3>1, <3>4
  <2> QED BY <2>6, <2>8 DEF PinStep
<1> QED BY <1>1

\* A window that is shown whose pin is not wanted any more.
DroppedTold(c, d, id) ==
    Told(c, d, c.shot, c.pins, Append(<<SyncOf(c.shot, c.pins)>>, ClosePinOf(id)), {}) /\ Kept(c, d)

LEMMA DroppedStep ==
    ASSUME NEW c \in Cores, NEW d, NEW id, DroppedTold(c, d, id)
    PROVE  PinStep(c, d, id) /\ PendingHeld(c, d) /\ d.pins = c.pins
<1>1. /\ Told(c, d, c.shot, c.pins, Append(<<SyncOf(c.shot, c.pins)>>, ClosePinOf(id)), {})
      /\ Kept(c, d)
  BY DEF DroppedTold
<1>2. PICK x : x = ClosePinOf(id) OBVIOUS
<1>3. x.k = "ClosePin" /\ x.id = id BY <1>2 DEF ClosePinOf
<1>4. Announced(c.queue, d.queue, c.shot, c.pins, {x}) BY <1>1, <1>2, AnnouncedAppend DEF Told
<1>5. d \in Cores /\ d.shot = c.shot /\ d.pins = c.pins BY <1>1 DEF Told
<1>6. HeldKept(c, d) /\ d.pending \subseteq c.pending /\ (ImagesKept(c) => ImagesKept(d))
      /\ PendingHeld(c, d)
  BY <1>1, <1>5, KeptFacts DEF Kept
<1>7. PinMove(c, d, EndKinds) /\ Names(c, d, PinsWith(c, id))
  <2>1. PICK Y, new, started, S : /\ Y = {x} /\ new = Append(<<SyncOf(c.shot, c.pins)>>, x)
                                  /\ started = {} /\ S = PinsWith(c, id)
    OBVIOUS
  <2>2. Told(c, d, c.shot, c.pins, new, started) /\ Announced(c.queue, d.queue, c.shot, c.pins, Y)
    BY <1>1, <1>2, <1>4, <2>1
  <2>3. Naming2(Y, EndKinds, S) /\ StartsFor(started, S) /\ DOMAIN c.pins \subseteq S
    BY <1>3, <2>1 DEF Naming2, StartsFor, EndKinds, PinsWith
  <2>4. PinMove(c, d, EndKinds) /\ Names(c, d, S) BY <1>6, <2>2, <2>3, MoveStep
  <2> QED BY <2>1, <2>4
<1> QED BY <1>5, <1>6, <1>7 DEF PinStep

\* A window that is shown: its pin is new, or it is dropped.
LEMMA OpenedStep ==
    ASSUME NEW c \in Cores, NEW d, NEW id, NEW source, ~ Has(c, id), source \in c.pending,
           OpenedTold(c, d, id, source)
    PROVE  PinStep(c, d, id)
<1>1. CASE Told(c, d, c.shot, c.pins, Append(<<SyncOf(c.shot, c.pins)>>, ClosePinOf(id)), {})
          /\ Kept(c, d)
  BY <1>1, DroppedStep DEF DroppedTold
<1>2. CASE /\ Told(c, d, c.shot, Put(c.pins, id, NewPin),
                   <<SyncOf(c.shot, Put(c.pins, id, NewPin))>>, {})
           /\ HeldKept(c, d) /\ Retained(c, d, id, source)
  <2>1. PICK pins : pins = Put(c.pins, id, NewPin) OBVIOUS
  <2>2. DOMAIN pins = DOMAIN c.pins \cup {id} BY <2>1 DEF Put
  <2>3. /\ Announced(c.queue, d.queue, c.shot, pins, {}) /\ d \in Cores /\ d.shot = c.shot
        /\ d.pins = pins
    BY <1>2, <2>1, AnnouncedOne DEF Told
  <2>4. d.pending = {} /\ d.images = (c.images \cap DOMAIN d.pins) \cup {id} BY <1>2 DEF Retained
  <2>5. ImagesKept(c) => ImagesKept(d) BY <2>2, <2>3, <2>4 DEF ImagesKept
  <2>6. PinMove(c, d, EndKinds) /\ Names(c, d, PinsWith(c, id))
    <3>1. PICK Y, new, started, S : /\ Y = {} /\ new = <<SyncOf(c.shot, pins)>>
                                    /\ started = {} /\ S = PinsWith(c, id)
      OBVIOUS
    <3>2. Told(c, d, c.shot, pins, new, started) /\ Announced(c.queue, d.queue, c.shot, pins, Y)
      BY <1>2, <2>1, <2>3, <3>1
    <3>3. Naming2(Y, EndKinds, S) /\ StartsFor(started, S) /\ DOMAIN pins \subseteq S
      BY <2>2, <3>1 DEF Naming2, StartsFor, EndKinds, PinsWith
    <3>4. PinMove(c, d, EndKinds) /\ Names(c, d, S) BY <1>2, <2>4, <3>2, <3>3, MoveStep
    <3> QED BY <3>1, <3>4
  <2> QED BY <2>5, <2>6 DEF PinStep
<1> QED BY <1>1, <1>2 DEF OpenedTold

\* An edit that begins.
LEMMA EditRequestedStep ==
    ASSUME NEW c \in Cores, NEW d, NEW id, EditRequestedTold(c, d, id)
    PROVE  d = c \/ /\ PinMove(c, d, PinKinds) /\ Names(c, d, PinsWith(c, id))
                    /\ PendingHeld(c, d) /\ (ImagesKept(c) => ImagesKept(d))
<1>1. CASE d # c
  <2>1. PICK pins : pins = BegunPins(c.pins, id) OBVIOUS
  <2>2. PICK new \in Seq(Closures) :
           Told(c, d, c.shot, pins, new, {}) /\ Begun(new, c.shot, c.pins, id) /\ Kept(c, d)
    BY <1>1, <2>1 DEF EditRequestedTold
  <2>3. DOMAIN pins = DOMAIN c.pins /\ Others(c.pins) \subseteq DOMAIN c.pins
    BY <2>1 DEF BegunPins, Others
  <2>4. PICK X : X = Begins2(c.pins, id) OBVIOUS
  <2>5. Announced(c.queue, d.queue, c.shot, pins, X) BY <2>1, <2>2, <2>4, AnnouncedBegun DEF Told
  <2>6. d \in Cores /\ d.shot = c.shot /\ d.pins = pins BY <2>2 DEF Told
  <2>7. /\ HeldKept(c, d) /\ PendingHeld(c, d) /\ d.pending \subseteq c.pending
        /\ (ImagesKept(c) => ImagesKept(d))
    BY <2>2, <2>3, <2>6, KeptFacts DEF Kept
  <2>8. \A x \in X : x.k \in PinKinds /\ x.id \in DOMAIN c.pins \cup {id}
    BY <2>3, <2>4 DEF EndEditOf, BeginEditOf, Begins2, PinKinds
  <2>9. PinMove(c, d, PinKinds) /\ Names(c, d, PinsWith(c, id))
    <3>1. PICK Y, started, S : Y = Begins2(c.pins, id) /\ started = {} /\ S = PinsWith(c, id)
      OBVIOUS
    <3>2. Told(c, d, c.shot, pins, new, started) /\ Announced(c.queue, d.queue, c.shot, pins, Y)
      BY <2>2, <2>4, <2>5, <3>1
    <3>3. Naming2(Y, PinKinds, S) /\ StartsFor(started, S) /\ DOMAIN pins \subseteq S
      BY <2>3, <2>4, <2>8, <3>1 DEF Naming2, StartsFor, EndKinds, PinsWith
    <3>4. PinMove(c, d, PinKinds) /\ Names(c, d, S) BY <2>7, <3>2, <3>3, MoveStep
    <3> QED BY <3>1, <3>4
  <2> QED BY <2>7, <2>9
<1> QED BY <1>1

\* What a step keeps.  The jobs it starts are counted with the others.
Steady(c, v, J) ==
    /\ Apart(c.queue, v) /\ Flowing(c, v, J) /\ Working(c, v, J) /\ ImagesKept(c)
    /\ IdsKnown(c, v, J)
With(J, c) == J \cup c.spawned

LEMMA WithJobs ==
    ASSUME NEW c \in Cores, NEW J \in SUBSET Jobs
    PROVE  With(J, c) \in SUBSET Jobs
  BY DEF With, Cores, Drafts

LEMMA IdsMoved ==
    ASSUME NEW c \in Cores, NEW d \in Cores, NEW v, NEW J, NEW K, NEW S, IdsKnown(c, v, J),
           Longer(c.queue, d.queue), Names(c, d, S), \A id \in S : Known(v, id),
           \A job \in K : job \in J \/ job.id \in S
    PROVE  IdsKnown(d, v, K)
<1>1. \A id \in DOMAIN d.pins : Known(v, id) BY DEF Names
<1>2. \A i \in DOMAIN d.queue : d.queue[i].k \in Naming => Known(v, d.queue[i].id)
  <2>1. SUFFICES ASSUME NEW i \in DOMAIN d.queue,
                        d.queue[i].k \in Naming PROVE Known(v, d.queue[i].id)
    OBVIOUS
  <2>2. CASE i \in DOMAIN c.queue
    <3>1. d.queue[i] = c.queue[i] BY <2>2, LongerFacts
    <3> QED BY <2>1, <2>2, <3>1 DEF IdsKnown
  <2>3. CASE i \in NewIn(c.queue, d.queue) BY <2>1, <2>3 DEF Names
  <2> QED BY <2>2, <2>3 DEF NewIn
<1>3. \A job \in K : job.k \in {"preview", "pin output"} => Known(v, job.id) BY DEF IdsKnown
<1> QED BY <1>1, <1>2, <1>3 DEF IdsKnown

LEMMA ApartMoved ==
    ASSUME NEW c \in Cores, NEW d, NEW v, Apart(c.queue, v), PinMove(c, d, EndKinds)
    PROVE  Apart(d.queue, v)
<1>1. PICK X : Announced(c.queue, d.queue, c.shot, d.pins, X) /\ \A x \in X : x.k \in EndKinds
  BY DEF PinMove
<1>2. PICK p \in NewIn(c.queue, d.queue) : d.queue[p] = SyncOf(c.shot, d.pins)
           /\ \A i \in NewIn(c.queue, d.queue) : i # p => d.queue[i] \in X
  BY <1>1, AnnouncedFacts
<1>3. d.queue[p].k = "Sync" BY <1>2 DEF SyncOf
<1>4. \A i \in NewIn(c.queue, d.queue) : d.queue[i].k # "BeginEdit" /\ d.queue[i].k # "Suspend"
  BY <1>1, <1>2, <1>3 DEF EndKinds
<1>5. Longer(c.queue, d.queue) BY <1>1, AnnouncedFacts
<1>6. /\ At(d.queue, "BeginEdit") = At(c.queue, "BeginEdit")
      /\ At(d.queue, "Suspend") = At(c.queue, "Suspend")
  BY <1>4, <1>5, SameKind
<1> QED BY <1>6 DEF Apart

LEMMA MoveKinds ==
    ASSUME NEW c, NEW d, PinMove(c, d, EndKinds)
    PROVE  PinMove(c, d, PinKinds)
  BY DEF PinMove, EndKinds, PinKinds

\* A dispatch about a pin.
LEMMA PinSteady ==
    ASSUME NEW c \in Cores, NEW v \in Views, NEW J \in SUBSET Jobs, Steady(c, v, With(J, c)),
           NEW id, Known(v, id) \/ Has(c, id), NEW d, PinStep(c, d, id)
    PROVE  /\ d \in Cores /\ d.shot = c.shot /\ Steady(d, v, With(J, d))
           /\ Outputs(c, v, With(J, c)) /\ PendingHeld(c, d) => Outputs(d, v, With(J, d))
<1>1. /\ PinMove(c, d, EndKinds) /\ PinMove(c, d, PinKinds) /\ Names(c, d, PinsWith(c, id))
      /\ ImagesKept(d)
  BY MoveKinds DEF PinStep, Steady
<1>2. d \in Cores /\ d.shot = c.shot /\ Longer(c.queue, d.queue) /\ c.spawned \subseteq d.spawned
  BY <1>1, PinMoveFacts
<1>3. PinJobs(With(J, d), With(J, c)) BY <1>1 DEF PinMove, PinJobs, With
<1>4. \A other \in PinsWith(c, id) : Known(v, other) BY DEF Steady, IdsKnown, PinsWith, Has
<1>5. \A job \in With(J, d) : job \in With(J, c) \/ job.id \in PinsWith(c, id)
  BY <1>1 DEF Names, With
<1>6. IdsKnown(d, v, With(J, d)) BY <1>1, <1>2, <1>4, <1>5, IdsMoved DEF Steady
<1>7. Apart(d.queue, v) BY <1>1, ApartMoved DEF Steady
<1>8. With(J, c) \in SUBSET Jobs /\ With(J, d) \in SUBSET Jobs BY <1>2, WithJobs
<1>9. Flowing(d, v, With(J, d)) BY <1>1, <1>3, <1>8, FlowingPin DEF Steady
<1>10. Working(d, v, With(J, d)) BY <1>1, <1>3, WorkingPin DEF Steady
<1>11. Outputs(c, v, With(J, c)) /\ PendingHeld(c, d) => Outputs(d, v, With(J, d))
  BY <1>1, <1>3, OutputsPin
<1> QED BY <1>1, <1>2, <1>6, <1>7, <1>9, <1>10, <1>11 DEF Steady

\* The event loop changes what is none of the screenshot's business.
Aware(v, u) ==
    /\ \A id : Known(v, id) => Known(u, id)
    /\ DOMAIN u.windows \subseteq 1..u.next
    /\ \A timer \in u.timers : timer.k \in {"close window", "edit failed"} =>
          timer \in v.timers \/ Known(v, timer.id)
    /\ u.active # None => u.active = v.active \/ Known(v, u.active.id)
ViewStep(v, u) ==
    Besides(v, u) /\ u.flow = v.flow /\ Aware(v, u) /\ (u.active = None \/ u.active = v.active)

LEMMA IdsAware ==
    ASSUME NEW c, NEW v, NEW u, NEW J, IdsKnown(c, v, J), Aware(v, u)
    PROVE  IdsKnown(c, u, J)
  BY DEF IdsKnown, Aware

LEMMA ViewSteady ==
    ASSUME NEW c, NEW v, NEW u, NEW J, Steady(c, v, J), ViewStep(v, u)
    PROVE  Steady(c, u, J) /\ (Outputs(c, v, J) => Outputs(c, u, J))
  BY FlowingBesides, WorkingBesides, OutputsBesides, IdsAware DEF ViewStep, Steady, Apart,
     Besides

\* A window closes, goes, or is painted.
LEMMA ClosingView ==
    ASSUME NEW v \in Views, NEW u \in Views, NEW id, Known(v, id), id \in DOMAIN v.windows,
           DOMAIN v.windows \subseteq 1..v.next,
           Except(v, u, {"timers", "windows"}), Rewindowed(v, u, id, ClosingOf(v.windows[id])),
           u.timers = v.timers \cup {CloseTimer(id)}
    PROVE  ViewStep(v, u)
<1>1. /\ u.flow = v.flow /\ u.recovery = v.recovery /\ u.active = v.active /\ u.next = v.next
      /\ u.host = v.host /\ u.registry = v.registry
  BY DEF Except
<1>2. v.windows[id] \in Windows /\ v.windows[id].phase # "Preparing" BY StoreFacts DEF Known
<1>3. /\ ClosingOf(v.windows[id]).phase = "Closing"
      /\ ClosingOf(v.windows[id]).source = v.windows[id].source
  BY <1>2 DEF ClosingOf, Windows
<1>4. \A other \in DOMAIN v.windows : /\ u.windows[other].source = v.windows[other].source
                                      /\ (u.windows[other].phase = "Preparing"
                                           <=> v.windows[other].phase = "Preparing")
  BY <1>2, <1>3 DEF Rewindowed
<1>5. DOMAIN u.windows = DOMAIN v.windows BY DEF Rewindowed
<1>6. CloseTimer(id).k = "close window" /\ CloseTimer(id).id = id BY DEF CloseTimer
<1>7. \A s : Tended(v, s) => Tended(u, s) BY <1>1 DEF Tended
<1>8. Besides(v, u) BY <1>1, <1>4, <1>5, <1>6, <1>7 DEF Besides
<1>9. Aware(v, u) BY <1>1, <1>4, <1>5, <1>6 DEF Aware, Known
<1> QED BY <1>1, <1>8, <1>9 DEF ViewStep

LEMMA RemovedView ==
    ASSUME NEW v \in Views, NEW u \in Views, NEW id, Known(v, id) \/ id \notin DOMAIN v.windows,
           DOMAIN v.windows \subseteq 1..v.next,
           Except(v, u, {"stored", "windows"}), Removed(v, u, id)
    PROVE  ViewStep(v, u)
<1>1. /\ u.flow = v.flow /\ u.recovery = v.recovery /\ u.active = v.active /\ u.next = v.next
      /\ u.host = v.host /\ u.registry = v.registry /\ u.timers = v.timers
  BY DEF Except
<1>2. \A other \in DOMAIN u.windows : other \in DOMAIN v.windows
          /\ u.windows[other] = v.windows[other]
  BY DEF Removed
<1>3. \A other \in DOMAIN v.windows : v.windows[other].phase = "Preparing"
          => other \in DOMAIN u.windows
  BY DEF Removed, Known
<1>4. \A s : Tended(v, s) => Tended(u, s) BY <1>1 DEF Tended
<1>5. Besides(v, u) BY <1>1, <1>2, <1>3, <1>4 DEF Besides
<1>6. Aware(v, u) BY <1>1, <1>2 DEF Aware, Known
<1> QED BY <1>1, <1>5, <1>6 DEF ViewStep

\* The windows stay what they are, up to their pictures.
Alongside(v, u) ==
    /\ DOMAIN u.windows = DOMAIN v.windows
    /\ \A id \in DOMAIN v.windows : /\ u.windows[id].source = v.windows[id].source
                                    /\ u.windows[id].phase = v.windows[id].phase

LEMMA RewindowedAlong ==
    ASSUME NEW v \in Views, NEW u, NEW id \in DOMAIN v.windows, NEW picture, NEW window,
           window = EditedOf(v.windows[id]) \/ window = ReleasedOf(v.windows[id])
             \/ window = PaintedOf(v.windows[id], picture),
           Rewindowed(v, u, id, window)
    PROVE  Alongside(v, u)
<1>1. v.windows[id] \in Windows BY StoreFacts
<1>2. window.phase = v.windows[id].phase /\ window.source = v.windows[id].source
  BY <1>1 DEF EditedOf, ReleasedOf, PaintedOf, Windows
<1> QED BY <1>2 DEF Rewindowed, Alongside

LEMMA AlongKnown ==
    ASSUME NEW v, NEW u, Alongside(v, u), u.next = v.next
    PROVE  \A id : Known(v, id) => Known(u, id)
  BY DEF Alongside, Known

\* Nothing but documents and pictures.
LEMMA AlongView ==
    ASSUME NEW v \in Views, NEW u \in Views, Except(v, u, {"stored", "windows", "drawn"}),
           Alongside(v, u),
           DOMAIN v.windows \subseteq 1..v.next
    PROVE  ViewStep(v, u)
  BY AlongKnown DEF Except, Tended, Besides, Alongside, Aware, ViewStep

\* The editor, while it is lent to no screenshot.
Free(v) == v.registry.editing = None \/ v.registry.editing.k # "shot"

LEMMA FreeView ==
    ASSUME NEW v \in Views, NEW u \in Views,
           Except(v, u, {"stored", "windows", "drawn", "registry", "active"}), Alongside(v, u),
           Free(v), Free(u), DOMAIN v.windows \subseteq 1..v.next,
           u.active = None \/ u.active = v.active
    PROVE  ViewStep(v, u)
  BY AlongKnown DEF Except, Tended, Free, Besides, Alongside, Aware, ViewStep

\* The operations of the event loop, on the core and the view together.
Fine(w, J) == Editor(w.view) /\ Steady(w.core, w.view, With(J, w.core))
Paid(w, J) == Outputs(w.core, w.view, With(J, w.core))
Goes(w, w2, J) == w2 \in Worlds /\ w2.core.shot = w.core.shot /\ Fine(w2, J)
    /\ (Paid(w, J) => Paid(w2, J))

LEMMA WorldParts ==
    ASSUME NEW w \in Worlds
    PROVE  w.core \in Cores /\ w.view \in Views
  BY DEF Worlds

LEMMA FineFacts ==
    ASSUME NEW w \in Worlds, NEW J, Fine(w, J)
    PROVE  /\ Lent(w.view) /\ IdsKnown(w.core, w.view, With(J, w.core))
           /\ DOMAIN w.view.windows \subseteq 1..w.view.next
           /\ \A id : Has(w.core, id) => Known(w.view, id)
           /\ w.view.active # None => Known(w.view, w.view.active.id)
  BY DEF Fine, Steady, Editor, IdsKnown, Has

\* A dispatch about a pin the core knows, then what the event loop does on its own.
LEMMA GoesOn ==
    ASSUME NEW w \in Worlds, NEW w2 \in Worlds, NEW J \in SUBSET Jobs, Fine(w, J), NEW id,
           w2.core = w.core \/ (PinStep(w.core, w2.core, id) /\ PendingHeld(w.core, w2.core)
                                 /\ (Known(w.view, id) \/ Has(w.core, id))),
           w2.view = w.view \/ ViewStep(w.view, w2.view), Editor(w2.view)
    PROVE  Goes(w, w2, J)
<1>1. PICK c, v, d, u : c = w.core /\ v = w.view /\ d = w2.core /\ u = w2.view OBVIOUS
<1>2. c \in Cores /\ v \in Views /\ d \in Cores /\ u \in Views BY <1>1, WorldParts
<1>3. Steady(c, v, With(J, c)) BY <1>1 DEF Fine
<1>4. /\ Steady(d, v, With(J, d)) /\ d.shot = c.shot
      /\ (Outputs(c, v, With(J, c)) => Outputs(d, v, With(J, d)))
  BY <1>1, <1>2, <1>3, PinSteady
<1>5. Steady(d, u, With(J, d)) /\ (Outputs(d, v, With(J, d)) => Outputs(d, u, With(J, d)))
  BY <1>1, <1>4, ViewSteady
<1> QED BY <1>1, <1>4, <1>5 DEF Goes, Fine, Paid

LEMMA CloseWindowFine ==
    ASSUME NEW w \in Worlds, NEW J \in SUBSET Jobs, Fine(w, J), NEW id \in Nat, Known(w.view, id),
           NEW w2, w2 = CloseWindow(w, id)
    PROVE  Goes(w, w2, J)
<1>1. /\ w2 \in Worlds /\ Except(w.view, w2.view, {"stored", "windows"})
      /\ Removed(w.view, w2.view, id) /\ ClosedTold(w.core, w2.core, id)
  BY CloseWindowFacts
<1>2. w.core \in Cores /\ w.view \in Views /\ w2.view \in Views BY <1>1, WorldParts
<1>3. ViewStep(w.view, w2.view) BY <1>1, <1>2, FineFacts, RemovedView
<1>4. Editor(w2.view)
  <2>1. /\ w2.view.recovery = w.view.recovery /\ w2.view.active = w.view.active
        /\ w2.view.drawn = w.view.drawn
        /\ w2.view.registry = w.view.registry /\ w2.view.host = w.view.host
    BY <1>1 DEF Except
  <2>2. \A other \in DOMAIN w2.view.stored : w2.view.stored[other].document # "desktop"
    BY <1>1 DEF Removed, Fine, Editor, Lent
  <2> QED BY <2>1, <2>2, EditorSame DEF Fine
<1>5. w2.core = w.core \/ (PinStep(w.core, w2.core, id) /\ PendingHeld(w.core, w2.core))
  BY <1>1, <1>2, ClosedStep
<1> QED BY <1>1, <1>3, <1>4, <1>5, GoesOn

LEMMA RequestCloseFine ==
    ASSUME NEW w \in Worlds, NEW J \in SUBSET Jobs, Fine(w, J), NEW id \in Nat, Known(w.view, id),
           NEW w2, w2 = RequestClose(w, id)
    PROVE  Goes(w, w2, J)
<1>1. CASE w2 = w BY <1>1 DEF Goes
<1>2. CASE w2 # w
  <2>1. /\ id \in DOMAIN w.view.windows
        /\ w2 \in Worlds /\ Except(w.view, w2.view, {"timers", "windows"})
        /\ Rewindowed(w.view, w2.view, id, ClosingOf(w.view.windows[id]))
        /\ w2.view.timers = w.view.timers \cup {CloseTimer(id)}
        /\ ClosedTold(w.core, w2.core, id)
    BY <1>2, RequestCloseFacts
  <2>2. w.core \in Cores /\ w.view \in Views /\ w2.view \in Views BY <2>1, WorldParts
  <2>3. ViewStep(w.view, w2.view) BY <2>1, <2>2, FineFacts, ClosingView
  <2>4. Editor(w2.view)
    <3>1. /\ w2.view.recovery = w.view.recovery /\ w2.view.active = w.view.active
          /\ w2.view.drawn = w.view.drawn
          /\ w2.view.registry = w.view.registry /\ w2.view.host = w.view.host
          /\ w2.view.stored = w.view.stored
      BY <2>1 DEF Except
    <3>2. \A other \in DOMAIN w2.view.stored : w2.view.stored[other].document # "desktop"
      BY <3>1 DEF Fine, Editor, Lent
    <3> QED BY <3>1, <3>2, EditorSame DEF Fine
  <2>5. w2.core = w.core \/ (PinStep(w.core, w2.core, id) /\ PendingHeld(w.core, w2.core))
    BY <2>1, <2>2, ClosedStep
  <2> QED BY <2>1, <2>3, <2>4, <2>5, GoesOn
<1> QED BY <1>1, <1>2

LEMMA PresentFine ==
    ASSUME NEW w \in Worlds, NEW J \in SUBSET Jobs, Fine(w, J), NEW id \in Nat,
           NEW revision \in Nat,
           NEW w2, w2 = Present(w, id, revision)
    PROVE  Goes(w, w2, J)
<1>1. CASE w2 = w BY <1>1 DEF Goes
<1>2. CASE w2 # w
  <2>1. /\ id \in DOMAIN w.view.windows
        /\ w2 \in Worlds /\ w2.core = w.core /\ Except(w.view, w2.view, {"windows"})
        /\ Rewindowed(w.view, w2.view, id, PaintedOf(w.view.windows[id], revision))
    BY <1>2, PresentFacts DEF Presents
  <2>2. w.core \in Cores /\ w.view \in Views /\ w2.view \in Views BY <2>1, WorldParts
  <2>3. Alongside(w.view, w2.view) BY <2>1, <2>2, RewindowedAlong
  <2>4. Except(w.view, w2.view, {"stored", "windows", "drawn"}) BY <2>1 DEF Except
  <2>5. ViewStep(w.view, w2.view) BY <2>2, <2>3, <2>4, FineFacts, AlongView
  <2>6. Editor(w2.view)
    <3>1. /\ w2.view.recovery = w.view.recovery /\ w2.view.active = w.view.active
          /\ w2.view.drawn = w.view.drawn
          /\ w2.view.registry = w.view.registry /\ w2.view.host = w.view.host
          /\ w2.view.stored = w.view.stored
      BY <2>1 DEF Except
    <3>2. \A other \in DOMAIN w2.view.stored : w2.view.stored[other].document # "desktop"
      BY <3>1 DEF Fine, Editor, Lent
    <3> QED BY <3>1, <3>2, EditorSame DEF Fine
  <2> QED BY <2>1, <2>5, <2>6, GoesOn
<1> QED BY <1>1, <1>2

LEMMA EditEndedFine ==
    ASSUME NEW w \in Worlds, NEW J \in SUBSET Jobs, Fine(w, J), NEW id \in Nat, NEW edit \in Nat,
           NEW w2 \in Worlds, w2.view = w.view, EditEndedTold(w.core, w2.core, id, edit)
    PROVE  Goes(w, w2, J)
  BY WorldParts, EditEndedStep, GoesOn DEF EditEndedTold, EditsIn, Fine

LEMMA DocumentFine ==
    ASSUME NEW w \in Worlds, NEW J \in SUBSET Jobs, Fine(w, J), NEW id \in Nat, NEW document,
           NEW w2 \in Worlds, w2.view = w.view, DocumentTold(w.core, w2.core, id, document)
    PROVE  Goes(w, w2, J)
  BY WorldParts, DocumentStep, GoesOn DEF DocumentTold, Taken, Fine

LEMMA RestockedDesktop ==
    ASSUME NEW v, NEW u, NEW id, NEW entry, Lent(v), Restocked(v, u, id, entry),
           entry.document # "desktop"
    PROVE  \A other \in DOMAIN u.stored : u.stored[other].document # "desktop"
  BY DEF Restocked, Lent

LEMMA PublishFine ==
    ASSUME NEW w \in Worlds, NEW J \in SUBSET Jobs, Fine(w, J), NEW id \in Nat, NEW w2,
           w2 = Publish(w, id)
    PROVE  Goes(w, w2, J)
<1>1. CASE w2 = w BY <1>1 DEF Goes
<1>2. CASE w2 # w
  <2>1. PICK entry, document : entry = EntryOf(w.view.stored[id].document, document)
                               /\ document = PublicationOf(w.view, id)
    OBVIOUS
  <2>2. /\ Publishes(w.view, id) /\ w2 \in Worlds /\ Except(w.view, w2.view, {"stored"})
        /\ Restocked(w.view, w2.view, id, entry) /\ DocumentTold(w.core, w2.core, id, document)
    BY <1>2, <2>1, PublishFacts
  <2>3. w.core \in Cores /\ w.view \in Views /\ w2.view \in Views BY <2>2, WorldParts
  <2>4. Except(w.view, w2.view, {"stored", "windows", "drawn"}) BY <2>2 DEF Except
  <2>5. Alongside(w.view, w2.view) BY <2>2 DEF Alongside, Except
  <2>6. ViewStep(w.view, w2.view) BY <2>3, <2>4, <2>5, FineFacts, AlongView
  <2>7. Editor(w2.view)
    <3>1. /\ w2.view.recovery = w.view.recovery /\ w2.view.active = w.view.active
          /\ w2.view.drawn = w.view.drawn
          /\ w2.view.registry = w.view.registry /\ w2.view.host = w.view.host
      BY <2>2 DEF Except
    <3>2. entry.document # "desktop" BY <2>1, <2>2 DEF EntryOf, Publishes, Fine, Editor, Lent
    <3>3. \A other \in DOMAIN w2.view.stored : w2.view.stored[other].document # "desktop"
      BY <2>2, <3>2, RestockedDesktop DEF Fine, Editor
    <3> QED BY <3>1, <3>3, EditorSame DEF Fine
  <2>8. w2.core = w.core \/ (PinStep(w.core, w2.core, id) /\ PendingHeld(w.core, w2.core))
    BY <2>2, <2>3, DocumentStep
  <2>9. w2.core = w.core \/ Has(w.core, id) BY <2>2 DEF DocumentTold, Taken
  <2> QED BY <2>2, <2>6, <2>7, <2>8, <2>9, GoesOn
<1> QED BY <1>1, <1>2

\* The editor is given back at the end of an edit.
LEMMA EndedFine ==
    ASSUME NEW w \in Worlds, NEW J \in SUBSET Jobs, Fine(w, J), w.view.active # None,
           NEW id, id = w.view.active.id, NEW w2, EditTaken(w, w2, id)
    PROVE  Goes(w, w2, J) /\ w2.view.active = None
<1>1. /\ w2 \in Worlds /\ Except(w.view, w2.view, {"active", "registry", "stored", "windows"})
      /\ w2.view.active = None /\ w2.view.registry = ReturnedOf(w.view.active)
      /\ w2.core = w.core \/ DocumentTold(w.core, w2.core, id, PublicationOf(w.view, id))
      /\ IF id \in DOMAIN w.view.windows
          THEN Rewindowed(w.view, w2.view, id, ReleasedOf(w.view.windows[id]))
         ELSE w2.view.windows = w.view.windows
  BY DEF EditTaken
<1>2. w.core \in Cores /\ w.view \in Views /\ w2.view \in Views BY <1>1, WorldParts
<1>3. Alongside(w.view, w2.view) BY ZenonT(60), <1>1, <1>2, RewindowedAlong DEF Alongside
<1>4. Except(w.view, w2.view, {"stored", "windows", "drawn", "registry", "active"})
  BY <1>1 DEF Except
<1>5. Free(w.view) /\ Free(w2.view)
  BY <1>1 DEF Free, Fine, Editor, Lent, ReturnedOf, OpenedOf, ShutOf
<1>6. ViewStep(w.view, w2.view) BY <1>1, <1>2, <1>3, <1>4, <1>5, FineFacts, FreeView
<1>7. Editor(w2.view) BY EditorReturned DEF Fine
<1>8. w2.core = w.core \/ (PinStep(w.core, w2.core, id) /\ PendingHeld(w.core, w2.core))
  BY SMTT(30), <1>1, <1>2, DocumentStep
<1>9. w2.core = w.core \/ Has(w.core, id) BY <1>1 DEF DocumentTold, Taken
<1> QED BY <1>1, <1>6, <1>7, <1>8, <1>9, GoesOn

LEMMA GoesTwice ==
    ASSUME NEW w, NEW w1, NEW w2, NEW J, Goes(w, w1, J), Goes(w1, w2, J)
    PROVE  Goes(w, w2, J)
  BY DEF Goes

LEMMA EndFine ==
    ASSUME NEW w \in Worlds, NEW J \in SUBSET Jobs, Fine(w, J), NEW id \in Nat, NEW edit \in Nat,
           NEW w2, w2 = End(w, id, edit)
    PROVE  Goes(w, w2, J)
  BY EndFacts, FineFacts, EndedFine DEF Matches, Goes

LEMMA FinishEditFine ==
    ASSUME NEW w \in Worlds, NEW J \in SUBSET Jobs, Fine(w, J), w.view.active # None,
           NEW w2, w2 = FinishEdit(w)
    PROVE  Goes(w, w2, J) /\ w2.view = w.view
  BY FinishFacts, EditEndedFine

LEMMA FinishNowFine ==
    ASSUME NEW w \in Worlds, NEW J \in SUBSET Jobs, Fine(w, J), NEW w2, w2 = FinishNow(w)
    PROVE  Goes(w, w2, J) /\ w2.view.active = None
<1>1. CASE w.view.active = None BY <1>1 DEF FinishNow, Goes
<1>2. CASE w.view.active # None
  <2>1. PICK w1 \in Worlds : /\ w1.view = w.view
                              /\ w.view.active.id \in Nat /\ w.view.active.edit \in Nat
                              /\ EditEndedTold(w.core, w1.core, w.view.active.id,
                                               w.view.active.edit)
                              /\ EditTaken(w1, w2, w.view.active.id)
    BY <1>2, FinishNowFacts, FineFacts
  <2>2. Goes(w, w1, J) BY <2>1, EditEndedFine
  <2>3. Goes(w1, w2, J) /\ w2.view.active = None BY <1>2, <2>1, <2>2, EndedFine DEF Goes
  <2> QED BY <2>2, <2>3, GoesTwice
<1> QED BY <1>1, <1>2

\* The editor is cleared: the user closes it, or it is lost.
LEMMA ClearedView ==
    ASSUME NEW v \in Views, NEW u \in Views, Lent(v), v.active # None => Known(v, v.active.id),
           DOMAIN v.windows \subseteq 1..v.next,
           Except(v, u, {"registry", "timers", "stored", "drawn"}),
           u.registry = ClearedOf(v.registry), u.timers = v.timers \cup Farewell(v.registry.editing)
    PROVE  ViewStep(v, u)
<1>1. /\ u.flow = v.flow /\ u.recovery = v.recovery /\ u.active = v.active /\ u.next = v.next
      /\ u.host = v.host /\ u.windows = v.windows
  BY DEF Except
<1>2. u.registry.editing = None BY StoreFacts DEF ClearedOf, Registries
<1>3. \A timer \in Farewell(v.registry.editing) :
         \/ timer.k = "shot failed"
         \/ timer.k = "edit failed" /\ v.registry.editing # None /\ v.registry.editing.k # "shot"
              /\ timer.id = v.registry.editing.id
  <2>1. \A s : ShotFailed(s).k = "shot failed" BY DEF ShotFailed
  <2>2. PICK e : e = v.registry.editing OBVIOUS
  <2>3. CASE e = None BY <2>2, <2>3 DEF Farewell
  <2>4. CASE e # None /\ e.k = "shot" BY <2>1, <2>2, <2>4 DEF Farewell
  <2>5. CASE e # None /\ e.k # "shot"
    <3>1. PICK x : x = EditFailed(e.id, e.edit) OBVIOUS
    <3>2. Farewell(e) = {x} BY <2>5, <3>1 DEF Farewell
    <3>3. x.k = "edit failed" /\ x.id = e.id BY <3>1 DEF EditFailed
    <3> QED BY <2>2, <2>5, <3>2, <3>3
  <2> QED BY <2>3, <2>4, <2>5
<1>4. v.registry.editing # None /\ v.registry.editing.k # "shot" =>
         v.active # None /\ v.registry.editing.id = v.active.id
  BY DEF Lent
<1>5. \A s : Tended(v, s) => Tended(u, s)
  <2>1. SUFFICES ASSUME NEW s, Tended(v, s) PROVE Tended(u, s) OBVIOUS
  <2>2. CASE \E timer \in v.timers : timer.k = "shot failed" /\ timer.session = s BY <2>2 DEF Tended
  <2>3. CASE v.registry.editing # None /\ v.registry.editing.k = "shot"
            /\ v.registry.editing.session = s
    <3>1. ShotFailed(s) \in u.timers BY <2>3 DEF Farewell
    <3>2. ShotFailed(s).k = "shot failed" /\ ShotFailed(s).session = s BY DEF ShotFailed
    <3> QED BY <3>1, <3>2 DEF Tended
  <2> QED BY <2>1, <2>2, <2>3 DEF Tended
<1>6. \A timer \in u.timers : timer \in v.timers \/ timer.k = "shot failed"
         \/ (timer.k = "edit failed" /\ Known(v, timer.id))
  BY <1>3, <1>4
<1>7. Besides(v, u) BY <1>1, <1>2, <1>5, <1>6 DEF Besides
<1>8. Aware(v, u) BY <1>1, <1>6 DEF Aware, Known
<1> QED BY <1>1, <1>7, <1>8 DEF ViewStep

LEMMA ClearedFine ==
    ASSUME NEW w \in Worlds, NEW J \in SUBSET Jobs, Fine(w, J), NEW w2 \in Worlds, w2.core = w.core,
           Except(w.view, w2.view, {"registry", "timers", "stored", "drawn"}),
           w2.view.registry = ClearedOf(w.view.registry),
           w2.view.timers = w.view.timers \cup Farewell(w.view.registry.editing),
           w2.view.stored = KeptAside(w.view),
           w2.view.drawn => w.view.drawn
               /\ (w.view.registry.document # "desktop" \/ w.view.recovery # None
                                               \/ w.view.active # None)
    PROVE  Goes(w, w2, J)
  BY WorldParts, ClearedView, FineFacts, EditorCleared, GoesOn DEF Except, Fine

\* It is opened, or drawn on.
LEMMA RegistryFine ==
    ASSUME NEW w \in Worlds, NEW J \in SUBSET Jobs, Fine(w, J), NEW w2 \in Worlds, w2.core = w.core,
           Except(w.view, w2.view, {"registry", "drawn"}), Free(w.view), Free(w2.view),
           Editor(w2.view)
    PROVE  Goes(w, w2, J)
  BY WorldParts, FineFacts, FreeView, GoesOn DEF Alongside, Except

\* An edit begins.
LEMMA NoSuspend ==
    ASSUME NEW c \in Cores, NEW d, PinMove(c, d, PinKinds), At(c.queue, "Suspend") = {}
    PROVE  At(d.queue, "Suspend") = {}
<1>1. /\ Longer(c.queue, d.queue)
      /\ \A i \in NewIn(c.queue, d.queue) :
          d.queue[i].k \in {"Sync", "EndEdit", "BeginEdit", "ClosePin"}
  BY PinMoveFacts
<1> QED BY <1>1, SameKind

LEMMA LentView ==
    ASSUME NEW c, NEW v \in Views, NEW u \in Views, NEW J, Steady(c, v, J),
           Except(v, u, {"active", "registry", "stored", "windows"}), Alongside(v, u), Free(v),
           Free(u),
           Known(v, u.active.id), v.recovery = None, At(c.queue, "Suspend") = {},
           DOMAIN v.windows \subseteq 1..v.next
    PROVE  Steady(c, u, J) /\ (Outputs(c, v, J) => Outputs(c, u, J))
<1>1. /\ u.flow = v.flow /\ u.recovery = v.recovery /\ u.next = v.next
      /\ u.host = v.host /\ u.timers = v.timers
  BY DEF Except
<1>2. \A s : Tended(v, s) => Tended(u, s) BY <1>1 DEF Tended, Free
<1>3. Besides(v, u) BY <1>1, <1>2 DEF Besides, Alongside, Free
<1>4. Aware(v, u) BY <1>1, AlongKnown DEF Aware, Alongside
<1>5. Flowing(c, u, J) /\ Working(c, u, J) /\ (Outputs(c, v, J) => Outputs(c, u, J))
  BY <1>1, <1>3, FlowingBesides, WorkingBesides, OutputsBesides DEF Steady
<1>6. IdsKnown(c, u, J) BY <1>4, IdsAware DEF Steady
<1>7. Apart(c.queue, u) BY <1>1 DEF Apart
<1> QED BY <1>5, <1>6, <1>7 DEF Steady

LEMMA BegunFine ==
    ASSUME NEW w \in Worlds, NEW J \in SUBSET Jobs, Fine(w, J), w.view.active = None,
           w.view.recovery = None,
           At(w.core.queue, "Suspend") = {}, NEW id \in Nat, NEW edit \in Nat, Lends(w.view, id),
           NEW w2, EditLent(w, w2, id, edit)
    PROVE  Goes(w, w2, J)
<1>1. PICK window : window = EditedOf(w.view.windows[id]) OBVIOUS
<1>2. /\ w2 \in Worlds /\ w2.core = w.core
      /\ Except(w.view, w2.view, {"active", "registry", "stored", "windows"})
      /\ w2.view.active = LendingOf(id, edit, w.view.registry)
      /\ w2.view.registry = HoldingOf(w.view.stored[id].document, id, edit)
      /\ Rewindowed(w.view, w2.view, id, window)
  BY <1>1 DEF EditLent
<1>3. /\ w.view \in Views /\ w2.view \in Views /\ id \in DOMAIN w.view.windows
      /\ id \in DOMAIN w.view.stored
  BY <1>2, WorldParts DEF Lends
<1>4. Alongside(w.view, w2.view) BY <1>1, <1>2, <1>3, RewindowedAlong
<1>5. Known(w.view, id) BY <1>3, FineFacts DEF Known, Lends
<1>6. w2.view.active.id = id BY <1>2 DEF LendingOf
<1>7. Free(w.view) BY DEF Fine, Editor, Lent, Free
<1>8. Free(w2.view) BY <1>2 DEF HoldingOf, Free
<1>9. /\ Steady(w.core, w2.view, With(J, w.core))
      /\ (Paid(w, J) => Outputs(w.core, w2.view, With(J, w.core)))
  BY <1>2, <1>3, <1>4, <1>5, <1>6, <1>7, <1>8, FineFacts, LentView DEF Fine, Paid
<1>10. Editor(w2.view) BY <1>3, EditorLent DEF Fine
<1> QED BY <1>2, <1>9, <1>10 DEF Goes, Fine, Paid

LEMMA BeginFine ==
    ASSUME NEW w \in Worlds, NEW J \in SUBSET Jobs, Fine(w, J), w.view.recovery = None,
           At(w.core.queue, "Suspend") = {}, NEW id \in Nat, NEW edit \in Nat,
           NEW w2, w2 = BeginEdit(w, id, edit)
    PROVE  Goes(w, w2, J)
<1>1. PICK w1 : w1 = FreedOf(w) OBVIOUS
<1>2. IF w.view.active = None THEN w1 = w ELSE EditTaken(w, w1, w.view.active.id)
  BY <1>1, FreedFacts, FineFacts
<1>3. Goes(w, w1, J) /\ w1.view.active = None /\ w1.view.recovery = None
  BY <1>2, EndedFine DEF Goes, EditTaken, Except
<1>4. At(w1.core.queue, "Suspend") = {}
  BY <1>2, WorldParts, DocumentStep, MoveKinds, NoSuspend DEF EditTaken, PinStep
<1>5. w1 \in Worlds /\ Fine(w1, J) BY <1>3 DEF Goes
<1>6. w1.view.registry.editing = None BY <1>3, <1>5 DEF Fine, Editor, Lent
<1>7. IF Lends(w1.view, id) THEN EditLent(w1, w2, id, edit)
      ELSE w2 = Emit(w1, EditEnded(w1.core, id, edit))
  BY <1>1, <1>5, <1>6, BeginFacts
<1>8. Goes(w1, w2, J)
  <2>1. CASE Lends(w1.view, id) BY <1>3, <1>4, <1>5, <1>7, <2>1, BegunFine
  <2>2. CASE ~ Lends(w1.view, id) BY <1>5, <1>7, <2>2, EditEndedWorld, EditEndedFine
  <2> QED BY <2>1, <2>2
<1> QED BY <1>3, <1>8, GoesTwice

\* The steps of a screenshot.  What they leave alone:
NotPins(K, J) == \A job \in K : job \in J \/ ~OnlyPins(job)

LEMMA MovedRest ==
    ASSUME NEW c \in Cores, NEW d \in Cores, NEW v, NEW J, NEW K, NEW X,
           Announced(c.queue, d.queue, d.shot, d.pins, X), \A x \in X : x.k = "Restore",
           d.pins = c.pins, ImagesSynced(c, d), NotPins(K, J),
           Apart(c.queue, v), ImagesKept(c), IdsKnown(c, v, J)
    PROVE  Apart(d.queue, v) /\ ImagesKept(d) /\ IdsKnown(d, v, K)
<1>1. PICK p \in NewIn(c.queue, d.queue) : d.queue[p] = SyncOf(d.shot, d.pins)
           /\ \A i \in NewIn(c.queue, d.queue) : i # p => d.queue[i] \in X
  BY AnnouncedFacts
<1>2. d.queue[p].k = "Sync" BY <1>1 DEF SyncOf
<1>3. \A i \in NewIn(c.queue, d.queue) : d.queue[i].k \in {"Sync", "Restore"} BY <1>1, <1>2
<1>4. Longer(c.queue, d.queue) BY AnnouncedFacts
<1>5. /\ At(d.queue, "BeginEdit") = At(c.queue, "BeginEdit")
      /\ At(d.queue, "Suspend") = At(c.queue, "Suspend")
  BY <1>3, <1>4, SameKind
<1>6. Apart(d.queue, v) BY <1>5 DEF Apart
<1>7. ImagesKept(d) BY DEF ImagesKept, ImagesSynced
<1>8. \A i \in DOMAIN d.queue : d.queue[i].k \in Naming => Known(v, d.queue[i].id)
  <2>1. SUFFICES ASSUME NEW i \in DOMAIN d.queue,
                        d.queue[i].k \in Naming PROVE Known(v, d.queue[i].id)
    OBVIOUS
  <2>2. CASE i \in DOMAIN c.queue
    <3>1. d.queue[i] = c.queue[i] BY <1>4, <2>2, LongerFacts
    <3> QED BY <2>1, <2>2, <3>1 DEF IdsKnown
  <2>3. CASE i \in NewIn(c.queue, d.queue) BY <1>3, <2>1, <2>3 DEF Naming
  <2> QED BY <2>2, <2>3 DEF NewIn
<1>9. IdsKnown(d, v, K) BY <1>8 DEF IdsKnown, NotPins, OnlyPins
<1> QED BY <1>6, <1>7, <1>9

\* It ends: what was put aside is given back by what is posted, or by a worker's command.
LEMMA QuitSteady ==
    ASSUME NEW c \in Cores, NEW d \in Cores, NEW v \in Views, NEW J \in SUBSET Jobs,
           NEW K \in SUBSET Jobs,
           NEW X, Announced(c.queue, d.queue, d.shot, d.pins, X),
           \A x \in X : x = RestoreOf(c.shot.session),
           RestoreOf(c.shot.session) \in X \/ Ordered(K, "Restore", c.shot.session),
           d.shot = Quiescent(c.shot), d.pins = c.pins, ImagesSynced(c, d), HeldKept(c, d),
           PendingKept(c, d),
           NotPins(K, J), \A job \in K : job \in J \/ StartedFor(d, job),
           Apart(c.queue, v), Flowing(c, v, J), ImagesKept(c), IdsKnown(c, v, J)
    PROVE  Steady(d, v, K) /\ Outputs(d, v, K)
<1>1. /\ d.shot.session = c.shot.session /\ d.shot.phase = "Idle"
      /\ d.shot.operation = c.shot.operation
  BY DEF Quiescent, Cores, Drafts, Shots
<1>2. ~Active(d) /\ c.shot.operation \in Nat BY <1>1 DEF Active, Cores, Drafts, Shots
<1>3. \A x \in X : x.k = "Restore" BY DEF RestoreOf
<1>4. Apart(d.queue, v) /\ ImagesKept(d) /\ IdsKnown(d, v, K) BY <1>3, MovedRest
<1>5. Flowing(d, v, K)
  <2>1. \A x \in X : PostedFor(d, x) BY <1>1 DEF PostedFor
  <2>2. Onward(c, d) BY <1>1, <1>2 DEF Onward
  <2> QED BY <2>1, <2>2, FlowingMoved
<1>6. HeldKnown(d) BY <1>1, <1>2 DEF HeldKept, PendingKept, HeldKnown
<1>7. Loaned(d, v) /\ ShowSees(d, v) /\ PrepareWork(d, K) /\ SelectWork(d, v, K) /\ EditorWork(d, v)
  BY <1>1, <1>2 DEF Loaned, ShowSees, Is, PrepareWork, SelectWork, EditorWork
<1>8. RestoreDue(d, v, K)
  <2>1. CASE RestoreOf(c.shot.session) \in X
    <3>1. PICK i \in NewIn(c.queue, d.queue) : d.queue[i] = RestoreOf(c.shot.session)
      BY <2>1, AnnouncedFacts
    <3>2. d.queue[i].k = "Restore" /\ d.queue[i].session = d.shot.session
      BY <1>1, <3>1 DEF RestoreOf
    <3>3. Longer(c.queue, d.queue) BY AnnouncedFacts
    <3>4. i \in At(d.queue, "Restore") BY <3>1, <3>2 DEF At, NewIn
    <3>5. PICK p \in NewIn(c.queue, d.queue) : d.queue[p] = SyncOf(d.shot, d.pins)
           /\ \A j \in NewIn(c.queue, d.queue) : j # p => d.queue[j] \in X
      BY AnnouncedFacts
    <3>6. d.queue[p].k = "Sync" BY <3>5 DEF SyncOf
    <3>7. \A m \in NewIn(c.queue, d.queue) : d.queue[m].k # "Suspend" BY <1>3, <3>5, <3>6
    <3>8. At(d.queue, "Suspend") = At(c.queue, "Suspend") BY <3>3, <3>7, SameKind
    <3>9. \A m \in At(d.queue, "Suspend") : m < i BY <3>1, <3>3, <3>8, LongerFacts DEF At
    <3> QED BY <3>2, <3>4, <3>9 DEF RestoreDue
  <2>2. CASE Ordered(K, "Restore", c.shot.session) BY <1>1, <2>2 DEF RestoreDue
  <2> QED BY <2>1, <2>2
<1>9. Outputs(d, v, K) BY <1>1 DEF Outputs, OutputWork, OutputKept
<1> QED BY <1>4, <1>5, <1>6, <1>7, <1>8, <1>9 DEF Steady, Working

\* Somebody tends it: its region is edited, or its output is written.
LEMMA TendedSteady ==
    ASSUME NEW c \in Cores, NEW d \in Cores, NEW v \in Views, NEW J \in SUBSET Jobs,
           NEW K \in SUBSET Jobs,
           Announced(c.queue, d.queue, d.shot, d.pins, {}), d.pins = c.pins, ImagesSynced(c, d),
           HeldKept(c, d), PendingKept(c, d), NotPins(K, J),
           \A job \in K : job \in J \/ StartedFor(d, job),
           Onward(c, d), c.shot.phase \in {"Selecting", "Editing", "Output"},
           d.shot.phase \in {"Editing", "Output"}, Steady(c, v, J)
    PROVE  /\ Apart(d.queue, v) /\ ImagesKept(d) /\ IdsKnown(d, v, K) /\ Flowing(d, v, K)
           /\ HeldKnown(d) /\ Loaned(d, v) /\ (Tended(v, c.shot.session) => Steady(d, v, K))
<1>1. \A x \in {} : x.k = "Restore" /\ PostedFor(d, x) OBVIOUS
<1>2. Apart(d.queue, v) /\ ImagesKept(d) /\ IdsKnown(d, v, K) BY <1>1, MovedRest DEF Steady
<1>3. Flowing(d, v, K) BY <1>1, FlowingMoved DEF Steady
<1>4. /\ d.shot.session = c.shot.session /\ Active(c) /\ Active(d) /\ d.shot.phase # "Preparing"
      /\ d.shot.phase # "Selecting"
  BY DEF Onward, Active
<1>5. HeldKnown(d) BY <1>4 DEF Steady, Working, HeldKept, HeldKnown, Active
<1>6. Loaned(d, v)
  <2>1. PICK p \in NewIn(c.queue, d.queue) : d.queue[p] = SyncOf(d.shot, d.pins)
           /\ \A i \in NewIn(c.queue, d.queue) : i # p => d.queue[i] \in {}
    BY AnnouncedFacts
  <2>2. d.queue[p].k = "Sync" BY <2>1 DEF SyncOf
  <2>3. \A i \in NewIn(c.queue, d.queue) : d.queue[i].k # "Suspend" BY <2>1, <2>2
  <2>4. Longer(c.queue, d.queue) BY AnnouncedFacts
  <2>5. At(d.queue, "Suspend") = At(c.queue, "Suspend") BY <2>3, <2>4, SameKind
  <2> QED BY <1>4, <2>5 DEF Loaned, Steady, Working
<1>7. RestoreDue(d, v, K) /\ ShowSees(d, v) /\ PrepareWork(d, K) /\ SelectWork(d, v, K)
  BY <1>4 DEF RestoreDue, ShowSees, Is, PrepareWork, SelectWork
<1>8. Tended(v, c.shot.session) => EditorWork(d, v) BY <1>4 DEF EditorWork, Tended
<1> QED BY <1>2, <1>3, <1>5, <1>6, <1>7, <1>8 DEF Steady, Working

========================================
