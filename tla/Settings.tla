------------------------------ MODULE Settings ------------------------------
(***************************************************************************)
(* SettingsStore (server/app/services/settings.py) and the one listener it *)
(* has, Runtime._on_settings_changed: requests update some sections, each  *)
(* under the store's lock, and hand what they stored to the components     *)
(* after they released it.  Everything runs in one event loop; a step ends *)
(* at an await.                                                            *)
(***************************************************************************)
EXTENDS Naturals, Sequences, FiniteSets

CONSTANTS
    Requests,   \* bound: the updates of one behaviour
    Values,     \* of a section; 0 is its default, and spraying disabled
    Bad,        \* what a stored section may hold that no longer validates
    Patchable   \* the sets of sections a request may change at once

Sections == {"cameras", "detector", "spray", "controller"}

ASSUME SettingsAssumption ==
    0 \in Values /\ Bad \notin Values /\ Patchable \subseteq (SUBSET Sections) \ {{}}

VARIABLES
    db,        \* the settings table
    settings,  \* _settings, in memory
    pc,        \* each request's place in update and in the listener
    patch,     \* what it asks for
    base,      \* the settings it was merged into
    given,     \* the settings object its listener was called with
    lock,      \* the store's lock: holder, then the waiting, first come first
    camLock,   \* CameraManager._lock, the same
    runs,      \* what each component was configured with last
    passed     \* history: a listener held up at an await was overtaken

vars == <<db, settings, pc, patch, base, given, lock, camLock, runs, passed>>

Patches == UNION {[S -> Values] : S \in Patchable}
Settled == \A r \in Requests : pc[r] \in {"idle", "done"}

\* The pipeline keeps the whole object it is given, the others their section.
Vision == {"cameras", "detector"}
VisionOf(value) == [s \in Vision |-> value[s]]

\* load: a section that does not validate is replaced by its defaults.
Stored(table) == [s \in Sections |-> IF table[s] = Bad THEN 0 ELSE table[s]]

\* start hands everything on before the first request.
Started(value) ==
    [cameras |-> value.cameras, vision |-> VisionOf(value),
     spray |-> value.spray, turret |-> value.controller]

Running == [cameras: Values, vision: [Vision -> Values], spray: Values, turret: Values]

TypeOK ==
    /\ db \in [Sections -> Values \cup {Bad}] /\ settings \in [Sections -> Values]
    /\ pc \in [Requests -> {"idle", "lock", "write", "cameras", "disarm", "done"}]
    /\ patch \in [Requests -> Patches] /\ {base, given} \subseteq [Requests -> [Sections -> Values]]
    /\ {lock, camLock} \subseteq Seq(Requests)
    /\ runs \in Running
    /\ passed \in BOOLEAN

Init ==
    /\ db \in {[s \in Sections |-> 0], [s \in Sections |-> IF s = "spray" THEN Bad ELSE 0]}
    /\ settings = Stored(db) /\ runs = Started(Stored(db))
    /\ pc = [r \in Requests |-> "idle"] /\ patch \in [Requests -> Patches]
    /\ base = [r \in Requests |-> Stored(db)] /\ given = base
    /\ lock = <<>> /\ camLock = <<>> /\ passed = FALSE

Goto(r, stage) == pc' = [pc EXCEPT ![r] = stage]

----------------------------------------------------------------------------
(* The listener, _on_settings_changed(g, ch), await by await: `now` is     *)
(* what the components run when it is resumed.                             *)

\* A listener still waiting was called with an older object.
Overtaken(r) == \E q \in Requests \ {r} : pc[q] \in {"cameras", "disarm"}

TurretPart(r, g, ch, now) ==
    /\ runs' = IF "controller" \in ch THEN [now EXCEPT !.turret = g.controller] ELSE now
    /\ Goto(r, "done")

SlipVisionUnaware(g, ch, now) ==
    IF "detector" \in ch THEN [now EXCEPT !.vision = VisionOf(g)] ELSE now

VisionPart(g, ch, now) ==
    IF ch \cap Vision # {} THEN [now EXCEPT !.vision = VisionOf(g)] ELSE now

SprayPart(g, ch, now) == IF "spray" \in ch THEN [now EXCEPT !.spray = g.spray] ELSE now

\* Behind cameras.apply: the pipeline, the guard, and a disarm if spraying
\* is disabled and a controller is connected.
AfterCameras(r, g, ch, now) ==
    LET next == SprayPart(g, ch, VisionPart(g, ch, now))
    IN  \/ "spray" \in ch /\ g.spray = 0 /\ runs' = next /\ Goto(r, "disarm")
        \/ TurretPart(r, g, ch, next)

\* cameras.apply waits its turn at the manager's lock, works, and returns.
Listen(r, g, ch) ==
    /\ passed' = (passed \/ Overtaken(r))
    /\ IF "cameras" \in ch
       THEN camLock' = Append(camLock, r) /\ Goto(r, "cameras") /\ UNCHANGED runs
       ELSE AfterCameras(r, g, ch, runs) /\ UNCHANGED camLock

\* The whole object validated, with what the request asks for.
Merged(r) == [s \in Sections |-> IF s \in DOMAIN patch[r] THEN patch[r][s] ELSE base[r][s]]
Changed(r) == {s \in DOMAIN patch[r] : base[r][s] # patch[r][s]}

CamerasTurn(r) == camLock # <<>> /\ Head(camLock) = r /\ pc[r] = "cameras"

CamerasApplied(r) ==
    /\ CamerasTurn(r)
    /\ camLock' = Tail(camLock)
    /\ AfterCameras(r, given[r], Changed(r), [runs EXCEPT !.cameras = given[r].cameras])
    /\ UNCHANGED <<db, settings, patch, base, given, lock, passed>>

Disarmed(r) ==
    /\ pc[r] = "disarm"
    /\ TurretPart(r, given[r], Changed(r), runs)
    /\ UNCHANGED <<db, settings, patch, base, given, lock, camLock, passed>>

----------------------------------------------------------------------------
(* update.                                                                 *)

Call(r) ==
    /\ pc[r] = "idle" /\ Goto(r, "lock")
    /\ lock' = Append(lock, r) /\ base' = [base EXCEPT ![r] = settings]
    /\ UNCHANGED <<db, settings, patch, given, camLock, runs, passed>>

\* Merged into, and validated with, what is stored when the lock is held.
MergedInto(r) == settings

Merge(r) ==
    /\ pc[r] = "lock" /\ Head(lock) = r
    /\ base' = [base EXCEPT ![r] = MergedInto(r)]
    /\ \/ /\ \E s \in DOMAIN patch[r] : base'[r][s] # patch[r][s]
          /\ Goto(r, "write") /\ UNCHANGED lock
       \/ Goto(r, "done") /\ lock' = Tail(lock)   \* rejected, or nothing changes
    /\ UNCHANGED <<db, settings, patch, given, camLock, runs, passed>>

SlipHalfCommitted(r) == \E s \in Changed(r) : db' = [db EXCEPT ![s] = patch[r][s]]

\* _write commits the changed sections or, when it fails, none of them.
Commit(r) == db' = [s \in Sections |-> IF s \in Changed(r) THEN patch[r][s] ELSE db[s]]

Write(r) ==
    /\ pc[r] = "write" /\ lock' = Tail(lock)
    /\ \/ /\ Commit(r)
          /\ settings' = Merged(r)
          /\ given' = [given EXCEPT ![r] = settings']
          /\ Listen(r, settings', Changed(r))
       \/ Goto(r, "done") /\ UNCHANGED <<db, settings, given, camLock, runs, passed>>
    /\ UNCHANGED <<patch, base>>

\* The server ends between commit and assignment, or anywhere else, and
\* starts again.
Restart ==
    /\ ~Settled
    /\ \/ UNCHANGED db
       \/ \E r \in Requests : pc[r] = "write" /\ Commit(r)
    /\ settings' = Stored(db') /\ runs' = Started(Stored(db'))
    /\ pc' = [r \in Requests |-> IF pc[r] = "idle" THEN "idle" ELSE "done"]
    /\ lock' = <<>> /\ camLock' = <<>> /\ passed' = FALSE
    /\ UNCHANGED <<patch, base, given>>

Step(r) == Call(r) \/ Merge(r) \/ Write(r) \/ CamerasApplied(r) \/ Disarmed(r)
Finished == Settled /\ (\A r \in Requests : pc[r] = "done") /\ UNCHANGED vars
Next == (\E r \in Requests : Step(r)) \/ Restart \/ Finished

Spec == Init /\ [][Next]_vars

----------------------------------------------------------------------------
(* Properties.                                                             *)

\* update: nothing is written unless everything validates, no concurrent
\* update is lost or takes effect twice, a restart finds what was stored:
\* the table, read as load reads it, is an AtomicStore.
Atomic == INSTANCE AtomicStore WITH
    value <- Stored(db), asked <- patch,
    open <- {r \in Requests : pc[r] \in {"idle", "lock", "write"}}
AtomicUpdates == Atomic!Spec

\* Memory and table agree, whoever holds the lock.
MemoryIsStored == settings = Stored(db)

\* "A settings edit in the UI reconfigures the camera, detector or targeting
\* logic without a restart": once every listener is through, the components
\* run what is stored, unless a listener was overtaken while it waited for
\* the cameras or for a disarm.
SettledIsStored == Settled /\ ~passed => runs = Started(settings)

\* The cameras' own lock is first come, first served, and a listener gets to
\* it in the order of the writes: they are right however listeners overlap.
CamerasSettle == Settled => runs.cameras = settings.cameras

\* With no update under way the components run what is stored: memory is the
\* table at every moment, the cameras are right however updates overlapped,
\* and the rest too unless a listener was overtaken (SettingsStore.update and
\* Runtime._on_settings_changed).  The variables have their types.
SettingsSettle == TypeOK /\ MemoryIsStored /\ SettledIsStored /\ CamerasSettle

\* The same of the pipeline, which an overtaken listener gives its old
\* object.
VisionSettles == Settled => runs.vision = VisionOf(settings)
=============================================================================
