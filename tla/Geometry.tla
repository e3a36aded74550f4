------------------------------ MODULE Geometry ------------------------------
(***************************************************************************)
(* The polygons of zones and of calibrated regions                         *)
(* (server/app/targeting/geometry.py, mapping.py): containment, area,      *)
(* centroid, hull, and the fit a set of measurements allows.  Coordinates  *)
(* are whole numbers of a grid, so that every sum is exact.                *)
(***************************************************************************)
EXTENDS Integers, Sequences, SequencesExt

CONSTANTS
    Width, Height,  \* of the grid
    MaxPoints       \* bound: points drawn

VARIABLE points     \* the points drawn, in order

Grid == (0..Width) \X (0..Height)

Init == points = <<>>

Draw ==
    /\ Len(points) < MaxPoints
    /\ \E p \in Grid : points' = Append(points, p)

Clear == points # <<>> /\ points' = <<>>

Next == Draw \/ Clear

Spec == Init /\ [][Next]_points

----------------------------------------------------------------------------

X(p) == p[1]
Y(p) == p[2]
Abs(n) == IF n < 0 THEN -n ELSE n

\* The edges, each from the vertex before.
Before(poly, i) == IF i = 1 THEN poly[Len(poly)] ELSE poly[i - 1]
After(poly, i) == poly[(i % Len(poly)) + 1]
SumOver(poly, Term(_, _)) ==
    FoldLeft(LAMBDA sum, i : sum + Term(Before(poly, i), poly[i]), 0, [i \in 1..Len(poly) |-> i])

\* The edge from a to b crosses the ray from p to the right.
Crosses(a, b, p) ==
    /\ (Y(b) > Y(p)) # (Y(a) > Y(p))
    /\ IF Y(a) > Y(b) THEN (X(p) - X(b)) * (Y(a) - Y(b)) < (X(a) - X(b)) * (Y(p) - Y(b))
                      ELSE (X(p) - X(b)) * (Y(a) - Y(b)) > (X(a) - X(b)) * (Y(p) - Y(b))

\* point_in_polygon: an odd number of crossings.
PointInPolygon(p, poly) ==
    /\ Len(poly) >= 3
    /\ Cardinality({i \in 1..Len(poly) : Crosses(Before(poly, i), poly[i], p)}) % 2 = 1

\* Twice polygon_area.
Area2(poly) ==
    IF Len(poly) < 3 THEN 0
    ELSE Abs(SumOver(poly, LAMBDA a, b : (X(a) + X(b)) * (Y(b) - Y(a))))

Wedge(a, b) == X(a) * Y(b) - X(b) * Y(a)

\* polygon_centroid of a polygon with an area, as x/of and y/of.
Centroid(poly) ==
    [x |-> SumOver(poly, LAMBDA a, b : (X(a) + X(b)) * Wedge(a, b)),
     y |-> SumOver(poly, LAMBDA a, b : (Y(a) + Y(b)) * Wedge(a, b)),
     of |-> 3 * SumOver(poly, Wedge)]

Cross(o, a, b) == (X(a) - X(o)) * (Y(b) - Y(o)) - (Y(a) - Y(o)) * (X(b) - X(o))

SlipKeepStraight(chain, p) ==
    LET kept == {k \in 1..Len(chain) : k < 2 \/ Cross(chain[k - 1], chain[k], p) >= 0}
    IN  Append(SubSeq(chain, 1, Max({0} \cup kept)), p)

\* One turn of the monotone chain: pop while the last two and p do not turn
\* left.
Extend(chain, p) ==
    LET kept == {k \in 1..Len(chain) : k < 2 \/ Cross(chain[k - 1], chain[k], p) > 0}
    IN  Append(SubSeq(chain, 1, Max({0} \cup kept)), p)

LexLess(p, q) == X(p) < X(q) \/ (X(p) = X(q) /\ Y(p) < Y(q))

\* convex_hull
ConvexHull(set) ==
    LET unique == SetToSortSeq(set, LexLess)
        lower  == FoldLeft(Extend, <<>>, unique)
        upper  == FoldLeft(Extend, <<>>, Reverse(unique))
    IN  IF Len(unique) <= 2 THEN unique ELSE Front(lower) \o Front(upper)

\* ScatteredMap2D._is_degenerate: the points span no plane.
Degenerate(set) == \A o, a, b \in set : Cross(o, a, b) = 0

\* ScatteredMap2D._effective_strategy
EffectiveStrategy(requested, samples) ==
    IF Len(samples) < 3 THEN "nearest"
    ELSE IF requested \in {"local_linear", "affine"} /\ Degenerate(ToSet(samples)) THEN "idw"
    ELSE requested

\* MappingModel.contains
InRegion(set, p) == Len(ConvexHull(set)) >= 3 /\ PointInPolygon(p, ConvexHull(set))

\* validate_points, of points that are in range.
Drawable(poly) == Len(poly) >= 3 /\ Area2(poly) > 0

----------------------------------------------------------------------------
(* Properties, of whatever was drawn.                                      *)

Drawn == ToSet(points)
Between(a, b, p) ==
    /\ Cross(a, b, p) = 0
    /\ X(p) >= X(a) \/ X(p) >= X(b)
    /\ X(p) <= X(a) \/ X(p) <= X(b)
    /\ Y(p) >= Y(a) \/ Y(p) >= Y(b)
    /\ Y(p) <= Y(a) \/ Y(p) <= Y(b)
OnEdge(p, poly) == \E i \in 1..Len(poly) : Between(Before(poly, i), poly[i], p)
Flip(p) == <<Y(p), X(p)>>
Flipped(poly) == [i \in 1..Len(poly) |-> Flip(poly[i])]

\* Off its edges, a polygon contains the same points whichever way the ray
\* runs and whichever way round and from whichever vertex it is drawn, though
\* it crosses itself.
ContainmentIsOne ==
    \A p \in Grid : ~OnEdge(p, points) =>
      /\ PointInPolygon(p, points) = PointInPolygon(Flip(p), Flipped(points))
      /\ PointInPolygon(p, points) = PointInPolygon(p, Reverse(points))

\* The hull is the points that lie in no segment and no triangle of others,
\* and it turns left at each.
Inside(p, a, b, c) == Cross(a, b, p) >= 0 /\ Cross(b, c, p) >= 0 /\ Cross(c, a, p) >= 0
Extreme(p, set) ==
    /\ \A a, b \in set \ {p} : ~Between(a, b, p)
    /\ \A a, b, c \in set \ {p} : Cross(a, b, c) > 0 => ~Inside(p, a, b, c)
HullIsHull ==
    LET hull == ConvexHull(Drawn)
    IN  /\ ToSet(hull) = {p \in Drawn : Extreme(p, Drawn)}
        /\ Len(hull) >= 3 =>
             \A i \in 1..Len(hull) : Cross(Before(hull, i), hull[i], After(hull, i)) > 0

\* A fit of a plane is only made of points that span one, and then there is a
\* region in which it does not extrapolate: all that lies among three of them.
FitHasRegion ==
    points # <<>> =>
      /\ \A s \in {"local_linear", "affine"} :
           EffectiveStrategy(s, points) = s <=> Len(ConvexHull(Drawn)) >= 3
      /\ \A p \in Grid, a, b, c \in Drawn :
           Cross(a, b, p) > 0 /\ Cross(b, c, p) > 0 /\ Cross(c, a, p) > 0 => InRegion(Drawn, p)

\* A zone that is accepted has its label, at the centroid, inside when it is
\* convex.
Turn(poly, i) == Cross(Before(poly, i), poly[i], After(poly, i))
Convex(poly) ==
    /\ Len(ConvexHull(ToSet(poly))) = Len(poly)
    /\ \A i, j \in 1..Len(poly) : Turn(poly, i) * Turn(poly, j) > 0
CentroidInside ==
    Drawable(points) /\ Convex(points) =>
      LET c == Centroid(points)
          s == IF c.of < 0 THEN -1 ELSE 1
      IN  PointInPolygon(<<s * c.x, s * c.y>>,
                         [i \in 1..Len(points) |-> <<s * c.of * X(points[i]), s * c.of * Y(points[i])>>])
=============================================================================
