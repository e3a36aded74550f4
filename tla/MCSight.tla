------------------------------- MODULE MCSight -------------------------------
(* What lies between a frame and an aim, on small instances: the tracker,    *)
(* the motion detector, the native crops, the geometry of polygons, and the  *)
(* tables and caches the aim is solved from.  The parts share no state, and  *)
(* a behaviour takes the steps of one.                                       *)
EXTENDS Integers

CONSTANTS r1, r2

VARIABLES
  part,                                             \* never changes
  tracked, lost, nextId, seen,                      \* of Tracks
  started, events, nextEvent, phase, regions, failed, object,  \* SceneMotion
  due,                                              \* Crops
  points,                                           \* Geometry
  db, cache, at, rows, writes, alone                \* AimPoint

ofTracks == <<tracked, lost, nextId, seen>>
ofMotion == <<started, events, nextEvent, phase, regions, failed, object>>
ofAim == <<db, cache, at, rows, writes, alone>>

Place == {1, 2, 3}

Tracker == INSTANCE Tracks WITH
    Classes <- {"bird", "person"}, Places <- Place, MatchThresh <- 1, LowMatch <- 1,
    MinHits <- 2, TrackBuffer <- 1, MaxDetections <- 2, MaxIds <- 3

\* A region counts in its first frame, the default, or in its second.
Motion == INSTANCE SceneMotion WITH
    Places <- Place, Rearm <- 1, Interval <- 1, Warmup <- 1, Persistence <- 1,
    MaxRescans <- 2, MaxRegions <- 2, MaxEvents <- 3

Patient == INSTANCE SceneMotion WITH
    Places <- Place, Rearm <- 1, Interval <- 1, Warmup <- 1, Persistence <- 2,
    MaxRescans <- 2, MaxRegions <- 2, MaxEvents <- 3

\* Wide regions over the whole height, and some in either half of it.
Region(x1, x2, y1, y2) == [x1 |-> x1, x2 |-> x2, y1 |-> y1, y2 |-> y2]
MovingRegions ==
    {r \in {Region(x1, x2, 0, 12) : x1 \in {0, 3, 6, 11}, x2 \in {4, 7, 12}} : r.x1 < r.x2}
    \cup {r \in {Region(x1, x2, y[1], y[2]) : x1 \in {1, 6}, x2 \in {7, 10}, y \in {<<0, 3>>, <<5, 12>>}} :
            r.x1 < r.x2}

Cropping == INSTANCE Crops WITH
    Width <- 6, Height <- 6, Padding <- 0, MinWidth <- 6, Regions <- MovingRegions,
    Classes <- {"bird", "person"}, MaxRegions <- 3, regions <- due

Polygons == INSTANCE Geometry WITH Width <- 2, Height <- 2, MaxPoints <- 4

\* A forbidden and an allowed zone over the floor, and a smaller surface.
Zone(type, cells) == [type |-> type, cells |-> cells, priority |-> 0]
SomeZones == {Zone("no_target", {1}), Zone("active", {1, 2}), Zone("floor", Place), Zone("planter", {2})}
FloorPoints == {[cell |-> c, surface |-> "floor"] : c \in Place}
MorePoints == FloorPoints \cup {[cell |-> 3, surface |-> "planter"]}
SomeTracks == {[cell |-> c, confirmed |-> TRUE, score |-> 1] : c \in Place}
              \cup {[cell |-> 2, confirmed |-> FALSE, score |-> 2]}

Aiming == INSTANCE AimPoint WITH
    Requests <- {r1, r2}, Cells <- Place, Zones <- SomeZones, Measured <- MorePoints,
    AtStart <- FloorPoints, Tracks <- SomeTracks, RequireActive <- TRUE, MaxWrites <- 3

Init ==
    /\ part \in {"tracks", "motion", "patient motion", "crops", "polygons", "aim"}
    /\ Tracker!Init /\ Motion!Init /\ Cropping!Init /\ Polygons!Init /\ Aiming!Init

Next ==
    /\ UNCHANGED part
    /\ \/ part = "tracks" /\ Tracker!Next /\ UNCHANGED <<ofMotion, due, points, ofAim>>
       \/ part = "motion" /\ Motion!Next /\ UNCHANGED <<ofTracks, due, points, ofAim>>
       \/ part = "patient motion" /\ Patient!Next /\ UNCHANGED <<ofTracks, due, points, ofAim>>
       \/ part = "crops" /\ Cropping!Next /\ UNCHANGED <<ofTracks, ofMotion, points, ofAim>>
       \/ part = "polygons" /\ Polygons!Next /\ UNCHANGED <<ofTracks, ofMotion, due, ofAim>>
       \/ part = "aim" /\ Aiming!Next /\ UNCHANGED <<ofTracks, ofMotion, due, points>>

Spec == Init /\ [][Next]_<<part, ofTracks, ofMotion, due, points, ofAim>>

----------------------------------------------------------------------------
(* What each part promises: the properties its module states, together.     *)

\* The tracker hands out only what it saw in this frame, a number keeps its
\* class, a lost bird gets its number back, and a weak detection neither
\* starts nor revives a track (ByteTracker.update).
IdentitiesHold == Tracker!Identified /\ Tracker!ReturnKeepsId

\* A moving object is looked at natively a bounded number of times, never
\* twice within the interval, and not before the background has been learnt,
\* but for a reset within an update (SceneMotionDetector.update).
ObjectsRationed ==
    /\ [](part = "motion" => Motion!TypeOK /\ Motion!ObjectBudget)
    /\ [](part = "patient motion" => Patient!TypeOK /\ Patient!ObjectBudget)
    /\ Motion!ObjectPaced
    /\ [][part = "motion" => Motion!LooksWhenLearnt]_ofMotion
    /\ [][part = "patient motion" => Patient!LooksWhenLearnt]_ofMotion

\* Native crops show their regions at the frame's edges too, regions that
\* share a crop are looked at once, and what two looks find is reported once
\* (_native_motion_rescan).
CropsSound ==
    part = "crops" => Cropping!CropShowsRegion /\ Cropping!MergedOnce /\ Cropping!ReportedOnce

\* Containment does not depend on how a polygon was drawn, the hull is what
\* the points span, a fit is made only of points that span a plane, and a
\* convex zone holds its own centroid (geometry.py, mapping.py).
PolygonsSound ==
    part = "polygons" =>
      Polygons!ContainmentIsOne /\ Polygons!HullIsHull /\ Polygons!FitHasRegion /\ Polygons!CentroidInside

\* What the server aims by is the table an operator edited, once one request
\* at a time has been answered, and then selection and aim obey it: no target
\* where the zones forbid one, the surface of the zone the bird stands in, and
\* an aim whenever anything was measured.
AimsFollowTables ==
    part = "aim" => Aiming!AimsFollowTables
=============================================================================
