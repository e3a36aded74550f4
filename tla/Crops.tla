-------------------------------- MODULE Crops --------------------------------
(***************************************************************************)
(* The crops of the native frame that are looked at again around moving    *)
(* regions (server/app/vision/pipeline.py: _native_crop_bounds,            *)
(* _merge_crop_bounds, _deduplicate_detections).  Boxes are in half pixels *)
(* of the native frame before they are rounded and in pixels after.        *)
(***************************************************************************)
EXTENDS Integers, Sequences, SequencesExt, FiniteSetsExt

CONSTANTS
    Width, Height,  \* of the native frame, in pixels; the run has them equal, so that
                    \* a width scaled to the aspect is whole
    Padding,        \* crop_padding_ratio, in halves
    MinWidth,       \* min_crop_width_ratio of the frame, in half pixels
    Regions,        \* the regions there may be, in half pixels
    Classes,        \* class names
    MaxRegions      \* bound: moving regions in a frame

VARIABLE regions    \* the moving regions that are due, in half pixels

Box(w, h) == {b \in [x1: 0..w, y1: 0..h, x2: 0..w, y2: 0..h] : b.x1 < b.x2 /\ b.y1 < b.y2}

Init == regions = <<>>

Due ==
    /\ Len(regions) < MaxRegions
    /\ \E r \in Regions : regions' = Append(regions, r)

Done == regions # <<>> /\ regions' = <<>>

Next == Due \/ Done

Spec == Init /\ [][Next]_regions

----------------------------------------------------------------------------

Larger(a, b) == IF a > b THEN a ELSE b
Smaller(a, b) == IF a < b THEN a ELSE b

\* round of so many quarter pixels: halves to the even number.
Rounded(q) ==
    IF q % 4 = 2 THEN 2 * ((q + 2) \div 8) ELSE (q + 1) \div 4

\* One side of the crop, in quarter pixels: centred on the region, moved into
\* the frame.
Start(from, to, wanted, size) ==
    Smaller(Larger(0, from + to - wanted), 2 * (size - wanted))

\* The rounded bounds of that side: at least a pixel, inside the frame.
Bounds(from, to, wanted, size) ==
    LET start == Start(from, to, wanted, size)
        first == start \div 4
    IN  <<first, Larger(first + 1, Smaller(size \div 2, Rounded(start + 2 * wanted)))>>

\* _native_crop_bounds
CropOf(r) ==
    LET wide  == Larger((r.x2 - r.x1) * (1 + Padding), MinWidth)
        high  == Larger((r.y2 - r.y1) * (1 + Padding), (wide * Height) \div Width)
        xs    == Bounds(r.x1, r.x2, Smaller(2 * Width, wide), 2 * Width)
        ys    == Bounds(r.y1, r.y2, Smaller(2 * Height, high), 2 * Height)
    IN  [x1 |-> xs[1], y1 |-> ys[1], x2 |-> xs[2], y2 |-> ys[2]]

Area(b) == (b.x2 - b.x1) * (b.y2 - b.y1)
Overlap(a, b) ==
    Larger(0, Smaller(a.x2, b.x2) - Larger(a.x1, b.x1))
    * Larger(0, Smaller(a.y2, b.y2) - Larger(a.y1, b.y1))
Around(a, b) ==
    [x1 |-> Smaller(a.x1, b.x1), y1 |-> Smaller(a.y1, b.y1),
     x2 |-> Larger(a.x2, b.x2), y2 |-> Larger(a.y2, b.y2)]

\* At least half of the smaller one overlaps.
Same(a, b) == 2 * Overlap(a, b) >= Smaller(Area(a), Area(b))

SlipOneLook(merged, crop) ==
    LET same == {i \in 1..Len(merged) : Same(crop, merged[i])}
    IN  Append(SelectSeq(merged, LAMBDA m : ~Same(crop, m)),
               FoldLeft(LAMBDA b, i : IF i \in same THEN Around(b, merged[i]) ELSE b, crop,
                        [i \in 1..Len(merged) |-> i]))

\* One candidate of _merge_crop_bounds: it takes in the first it is the same
\* as and begins again, grown.
Absorb(merged, crop) ==
    LET look(s) ==
          LET same == {i \in 1..Len(s.rest) : Same(s.box, s.rest[i])}
          IN  IF same = {} THEN s
              ELSE [box |-> Around(s.box, s.rest[Min(same)]), rest |-> RemoveAt(s.rest, Min(same))]
        done == FoldLeft(LAMBDA s, i : look(s), [box |-> crop, rest |-> merged], merged)
    IN  Append(done.rest, done.box)

Merged(crops) == FoldLeft(Absorb, <<>>, crops)

\* The detections the crops yield: here one per crop, of either class, less
\* sure from crop to crop.
Found(crops, class) ==
    [i \in 1..Len(crops) |-> [box |-> crops[i], class |-> class[i]]]

\* _detection_iou of a half or more.
Agree(a, b) == 2 * Overlap(a, b) >= Area(a) + Area(b) - Overlap(a, b)

\* _deduplicate_detections, of detections by falling confidence.
Keep(kept, d) ==
    IF \E k \in ToSet(kept) : k.class = d.class /\ Agree(k.box, d.box) THEN kept ELSE Append(kept, d)

Deduplicated(found) == FoldLeft(Keep, <<>>, found)

----------------------------------------------------------------------------
(* Properties, of whatever regions are due.                                *)

Crops == [i \in 1..Len(regions) |-> CropOf(regions[i])]
Within(a, b) == a.x1 >= b.x1 /\ a.y1 >= b.y1 /\ a.x2 <= b.x2 /\ a.y2 <= b.y2

\* A crop is a part of the frame, shows the region and is as wide as the model
\* needs, both up to half a pixel and at the frame's edges too.
CropShowsRegion ==
    \A i \in 1..Len(regions) :
      LET c == CropOf(regions[i])
          r == regions[i]
      IN  /\ c \in Box(Width, Height)
          /\ 2 * c.x1 <= r.x1 /\ 2 * c.x2 >= r.x2 - 1 /\ 2 * c.y1 <= r.y1 /\ 2 * c.y2 >= r.y2 - 1
          /\ 2 * (c.x2 - c.x1) >= MinWidth - 1

\* No two of the crops looked at are the same, each region is shown in one of
\* them, and none shows more than the crops together did.
MergedOnce ==
    LET merged == Merged(Crops)
    IN  /\ \A i, j \in 1..Len(merged) : i # j => ~Same(merged[i], merged[j])
        /\ \A c \in ToSet(Crops) : \E m \in ToSet(merged) : Within(c, m)
        /\ \A m \in ToSet(merged) : \E c \in ToSet(Crops) : c.x1 = m.x1 /\ Within(c, m)

\* One object of a class is reported once, by the surest of its boxes, and an
\* object of another class beside it is not lost.
ReportedOnce ==
    \A class \in [1..Len(regions) -> Classes] :
      LET found == Found(Crops, class)
          kept  == Deduplicated(found)
          Dup(d, e) == d.class = e.class /\ Agree(d.box, e.box)
      IN  /\ \A i, j \in 1..Len(kept) : i # j => ~Dup(kept[i], kept[j])
          /\ \A i \in 1..Len(found) :
               found[i] \in ToSet(kept) \/ \E j \in 1..i - 1 : found[j] \in ToSet(kept) /\ Dup(found[i], found[j])
=============================================================================
