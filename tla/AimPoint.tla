------------------------------ MODULE AimPoint ------------------------------
(***************************************************************************)
(* Where the turret may aim and who is aimed at: the zones and the         *)
(* measurements in the database, the copies ZoneService and                *)
(* CalibrationService (server/app/targeting/zones.py, calibration.py) keep *)
(* of them in memory, and the TargetSelector that decides with the copies. *)
(* Requests are coroutines of one event loop; what they ask of the         *)
(* database runs in threads.  A place of the image is a cell, a zone or a  *)
(* calibrated region a set of cells (Geometry has the polygons).           *)
(***************************************************************************)
EXTENDS Naturals, FiniteSets, FiniteSetsExt

CONSTANTS
    Requests,      \* requests being served
    Cells,         \* places of the image, a set of numbers
    Zones,         \* rows of the zone table, and
    Measured,      \* of the calibration table, there may be
    AtStart,       \* those in the calibration table at the start
    RequireActive, \* require_active_zone
    Tracks,        \* what may be seen: records of a cell, confirmed and a score
    MaxWrites      \* bound: requests that write

Kinds == {"zones", "points"}
Surfaces == {"floor", "planter"}

VARIABLES
    db,      \* kind -> its enabled rows
    cache,   \* kind -> the rows the service decides with
    at,      \* request -> where it is: "idle", or "load" or "publish" and of what
    rows,    \* request -> what its refresh read
    writes,  \* writes so far
    alone    \* history: kind -> no two requests overlapped since both agreed

vars == <<db, cache, at, rows, writes, alone>>

Idle == [place |-> "idle", kind |-> "none"]
Rows(kind) == IF kind = "zones" THEN Zones ELSE Measured

TypeOK ==
    /\ \A k \in Kinds : db[k] \subseteq Rows(k) /\ cache[k] \subseteq Rows(k)
    /\ \A r \in Requests :
         /\ at[r] = Idle \/ (at[r].place \in {"load", "publish"} /\ at[r].kind \in Kinds)
         /\ at[r].place = "publish" => rows[r] \subseteq Rows(at[r].kind)
    /\ writes \in 0..MaxWrites /\ alone \in [Kinds -> BOOLEAN]

Init ==
    /\ db = [k \in Kinds |-> IF k = "zones" THEN {} ELSE AtStart] /\ cache = db
    /\ at = [r \in Requests |-> Idle] /\ rows = [r \in Requests |-> {}]
    /\ writes = 0 /\ alone = [k \in Kinds |-> TRUE]

----------------------------------------------------------------------------
(* Requests that change a table: create, update, delete, clear.            *)

Busy(kind) == {r \in Requests : at[r].kind = kind}

\* Committed in a thread; a row no table has is answered with 404 and changes
\* nothing.
Write(r) ==
    /\ at[r] = Idle /\ writes < MaxWrites /\ writes' = writes + 1
    /\ \E kind \in Kinds :
         /\ \/ \E row \in Rows(kind) \ db[kind] : db' = [db EXCEPT ![kind] = @ \cup {row}]
            \/ \E row \in db[kind] : db' = [db EXCEPT ![kind] = @ \ {row}]
            \/ \E old \in db[kind], new \in Rows(kind) \ db[kind] :
                 db' = [db EXCEPT ![kind] = (@ \ {old}) \cup {new}]
            \/ kind = "points" /\ db[kind] # {} /\ db' = [db EXCEPT ![kind] = {}]
         /\ at' = [at EXCEPT ![r] = [place |-> "load", kind |-> kind]]
         /\ alone' = [alone EXCEPT ![kind] = (@ \/ cache[kind] = db[kind]) /\ Busy(kind) = {}]
    /\ UNCHANGED <<cache, rows>>

SlipReadBefore(r) == rows' = [rows EXCEPT ![r] = cache[at[r].kind]]

\* refresh reads the table in a thread,
Read(r) == rows' = [rows EXCEPT ![r] = db[at[r].kind]]

Load(r) ==
    /\ at[r].place = "load" /\ Read(r)
    /\ at' = [at EXCEPT ![r].place = "publish"]
    /\ UNCHANGED <<db, cache, writes, alone>>

Copied(r) == [cache EXCEPT ![at[r].kind] = rows[r]]

\* and replaces the copy when the request goes on.
Publish(r) ==
    /\ at[r].place = "publish"
    /\ cache' = Copied(r)
    /\ at' = [at EXCEPT ![r] = Idle] /\ rows' = [rows EXCEPT ![r] = {}]
    /\ UNCHANGED <<db, writes, alone>>

\* The server starts again: both services read their tables before anything
\* else runs.
Restart ==
    /\ cache' = db /\ at' = [r \in Requests |-> Idle] /\ rows' = [r \in Requests |-> {}]
    /\ alone' = [k \in Kinds |-> TRUE]
    /\ UNCHANGED <<db, writes>>

----------------------------------------------------------------------------
(* ZoneSet and MappingSet, on the rows the caches hold.                    *)

At(zones, cell, type) == {z \in zones : z.type = type /\ cell \in z.cells}

\* surface_at: the highest priority, then the smallest.
Above(z, w) == z.priority > w.priority
               \/ (z.priority = w.priority /\ Cardinality(z.cells) <= Cardinality(w.cells))
SurfaceAt(zones, cell) ==
    LET over == {z \in zones : z.type \in Surfaces /\ cell \in z.cells}
    IN  IF over = {} THEN "none"
        ELSE (CHOOSE z \in over : \A w \in over : Above(z, w)).type

\* ZoneVerdict.targetable
Targetable(zones, cell) ==
    /\ At(zones, cell, "no_target") = {}
    /\ (RequireActive /\ \E z \in zones : z.type = "active") => At(zones, cell, "active") # {}

Region(points, surface) == {p.cell : p \in {q \in points : q.surface = surface}}
Holds(points, surface, cell) ==
    cell \in Region(points, surface) /\ Cardinality(Region(points, surface)) >= 3
Distance(cells, cell) == Min({IF c < cell THEN cell - c ELSE c - cell : c \in cells})

\* CalibrationService.solve: the surface asked for if it has measurements,
\* else the nearest of those whose region holds the point, else of all.
Solve(points, cell, surface) ==
    LET models == {p.surface : p \in points}
        inside == {m \in models : Holds(points, m, cell)}
        pool   == IF inside # {} THEN inside ELSE models
    IN  IF surface \in models THEN {surface}
        ELSE {m \in pool : \A n \in pool : Distance(Region(points, m), cell)
                                           <= Distance(Region(points, n), cell)}

\* _rejection_reason is None.
Eligible(t) ==
    /\ t.confirmed
    /\ Targetable(cache["zones"], t.cell)
    /\ Solve(cache["points"], t.cell, SurfaceAt(cache["zones"], t.cell)) # {}

\* TargetSelector.evaluate: the best of those eligible, and its solution.
Selections(seen) ==
    LET eligible == {t \in seen : Eligible(t)}
        top      == {t \in eligible : \A u \in eligible : u.score <= t.score}
    IN  UNION {{[cell |-> t.cell, surface |-> s] :
                  s \in Solve(cache["points"], t.cell, SurfaceAt(cache["zones"], t.cell))} : t \in top}

Next == Restart \/ \E r \in Requests : Write(r) \/ Load(r) \/ Publish(r)

Spec == Init /\ [][Next]_vars

----------------------------------------------------------------------------
(* Properties.                                                             *)

\* When a change has been answered, what the services decide with is the
\* table, unless two changes of that table overlapped and no later one put it
\* right.
Settled(kind) == Busy(kind) = {}
CacheIsTable == \A k \in Kinds : Settled(k) /\ alone[k] => cache[k] = db[k]

\* Refuted without the exception: the older read may be published last.
CacheAlwaysTable == \A k \in Kinds : Settled(k) => cache[k] = db[k]

\* Nothing is selected in a zone where targets are forbidden, nor outside the
\* active ones when they are required, once the zone has been answered for.
SelectionObeysZones ==
    Settled("zones") /\ alone["zones"] =>
      \A b \in Selections(Tracks) \cup UNION {Selections({t}) : t \in Tracks} :
        /\ At(db["zones"], b.cell, "no_target") = {}
        /\ RequireActive => \A z \in db["zones"] :
             z.type = "active" => \E w \in db["zones"] : w.type = "active" /\ b.cell \in w.cells

\* The turret is aimed with the measurements of the surface the bird stands
\* on, whenever there are any, and else with those of a region that holds the
\* bird, whenever there is one.
SurfaceOfZone ==
    \A b \in UNION {Selections({t}) : t \in Tracks} :
      LET points == cache["points"]
          s      == SurfaceAt(cache["zones"], b.cell)
          holds  == {m \in Surfaces : Holds(points, m, b.cell)}
      IN  IF Region(points, s) # {} THEN b.surface = s ELSE holds # {} => b.surface \in holds

\* A surface without measurements of its own does not stop the turret while
\* there are any.
AnyMeasurementSolves ==
    cache["points"] # {} =>
      \A c \in Cells : Solve(cache["points"], c, SurfaceAt(cache["zones"], c)) # {}

\* What the server aims by is the table an operator edited, once one request
\* at a time has been answered, and then selection and aim obey it: no target
\* where the zones forbid one, the surface of the zone the bird stands in, and
\* an aim whenever anything was measured.
AimsFollowTables ==
    TypeOK /\ CacheIsTable /\ SelectionObeysZones /\ SurfaceOfZone /\ AnyMeasurementSolves
=============================================================================
