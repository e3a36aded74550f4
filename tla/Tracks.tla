------------------------------- MODULE Tracks -------------------------------
(***************************************************************************)
(* ByteTracker (server/app/vision/tracker.py): which detections continue   *)
(* which track.  A box is the place it is at; the cost of pairing two      *)
(* boxes (1 - IoU) is their distance, Far when they share nothing, and a   *)
(* track is predicted where it was last seen.                              *)
(***************************************************************************)
EXTENDS Naturals, FiniteSets, FiniteSetsExt, Functions

CONSTANTS
    Classes,       \* class names
    Places,        \* the boxes' places, a set of numbers
    MatchThresh,   \* match_thresh, as a cost; never Far (the schema's 0.99)
    LowMatch,      \* the 0.5 of the second association
    MinHits,       \* min_hits
    TrackBuffer,   \* track_buffer
    MaxDetections, \* bound: detections in a frame
    MaxIds         \* bound: tracks started between two resets

Far == 1 + (IF LowMatch > MatchThresh THEN LowMatch ELSE MatchThresh)

VARIABLES
    tracked,  \* _tracked
    lost,     \* _lost
    nextId,   \* _next_id
    seen      \* the detections of the last frame

vars == <<tracked, lost, nextId, seen>>

Detections == [class: Classes, place: Places, high: BOOLEAN]
Frames == {f \in SUBSET Detections : Cardinality(f) <= MaxDetections}

\* `missed`: _frame_id - frame_id.
Track == [id: 1..MaxIds, class: Classes, place: Places, hits: 1..MinHits,
          missed: 0..TrackBuffer]

Ids(s) == {t.id : t \in s}

TypeOK ==
    /\ tracked \subseteq Track /\ lost \subseteq Track
    /\ nextId \in 1..MaxIds + 1 /\ seen \in Frames
    /\ \A t \in tracked \cup lost : t.id < nextId
    /\ Cardinality(Ids(tracked \cup lost)) = Cardinality(tracked) + Cardinality(lost)

Init == tracked = {} /\ lost = {} /\ nextId = 1 /\ seen = {}

----------------------------------------------------------------------------

Apart(p, q) == IF p < q THEN q - p ELSE p - q

\* "Never associate across classes".
Cost(t, d) == IF t.class # d.class THEN Far ELSE Min({Far, Apart(t.place, d.place)})

\* The pairings linear_assignment chooses from: the smaller side is used up.
Pairings(rows, cols) ==
    IF Cardinality(rows) <= Cardinality(cols)
    THEN {{<<r, f[r]>> : r \in rows} : f \in Injection(rows, cols)}
    ELSE {{<<f[c], c>> : c \in cols} : f \in Injection(cols, rows)}

Total(pairing) == MapThenSumSet(LAMBDA p : Cost(p[1], p[2]), pairing)

\* A cheapest pairing, less the pairs above the threshold.
LinearAssignment(rows, cols, threshold) ==
    LET all   == Pairings(rows, cols)
        least == Min({Total(p) : p \in all})
    IN  {{p \in pairing : Cost(p[1], p[2]) <= threshold} :
            pairing \in {q \in all : Total(q) = least}}

SlipPoolTracked == tracked

\* Who may continue with a confident detection.
Pool == tracked \cup lost

Rows(m) == {p[1] : p \in m}
Cols(m) == {p[2] : p \in m}

\* _STrack.update: seen in this frame.
Continued(t, d) ==
    [t EXCEPT !.place = d.place, !.class = d.class, !.hits = Min({MinHits, @ + 1}), !.missed = 0]

Matched(m) == {Continued(p[1], p[2]) : p \in m}

\* The unmatched confident detections, numbered in any order.
Started(new) ==
    {{[id |-> nextId + f[d], class |-> d.class, place |-> d.place, hits |-> 1, missed |-> 0] :
        d \in new} : f \in Bijection(new, 0..Cardinality(new) - 1)}

\* Forgotten once unseen for more than track_buffer frames.
Kept(unmatched) ==
    {[t EXCEPT !.missed = @ + 1] : t \in {u \in unmatched : u.missed < TrackBuffer}}

\* Who may continue with a detection of low confidence.
SecondChance == tracked

\* The tracks neither association matched: lost now, or lost still.
Unmatched(m, low) == (tracked \cup lost) \ (Rows(m) \cup Rows(low))

Activated(m, low, started) == Matched(m) \cup Matched(low) \cup started

Update ==
    \E frame \in Frames :
      LET high == {d \in frame : d.high}
      IN  \E m \in LinearAssignment(Pool, high, MatchThresh) :
          \E low \in LinearAssignment(SecondChance \ Rows(m), frame \ high, LowMatch) :
          \E started \in Started(high \ Cols(m)) :
            /\ nextId + Cardinality(started) <= MaxIds + 1
            /\ tracked' = Activated(m, low, started)
            /\ lost' = Kept(Unmatched(m, low))
            /\ nextId' = nextId + Cardinality(started)
            /\ seen' = frame

Reset == tracked' = {} /\ lost' = {} /\ nextId' = 1 /\ seen' = {}

Next == Update \/ Reset

Spec == Init /\ [][Next]_vars

----------------------------------------------------------------------------
(* Properties.                                                             *)

\* Every track handed to the targeting loop was seen in this very frame: a
\* box that is only predicted is never aimed at.
TrackedIsSeen == \A t \in tracked : \E d \in seen : d.class = t.class /\ d.place = t.place

\* A track's class never changes while the tracker remembers it: a number
\* that named a bird does not come to name a person.
Remembered == tracked \cup lost
ClassKept ==
    [][\A t \in Remembered, u \in Remembered' : t.id = u.id => t.class = u.class]_vars

\* A lost bird that is seen again where it was, alone of its class, gets its
\* number back as long as it is remembered.
Alone(t) == \A u \in (tracked \cup lost) \ {t} : u.class # t.class
ReturnKeepsId ==
    [][\A t \in lost :
         (/\ Alone(t) /\ tracked' \cup lost' # {}
          /\ \E d \in seen' : d.high /\ d.class = t.class /\ d.place = t.place
          /\ \A d, e \in seen' : d.class = t.class /\ e.class = t.class => d = e)
         => t.id \in Ids(tracked')]_vars

\* Weak detections continue a track and never start or revive one: what is
\* tracked was seen with confidence in the frame it appeared in.
WeakNeverRevives ==
    [][\A t \in tracked' :
         t.id \notin Ids(tracked)
         => \E d \in seen' : d.high /\ d.class = t.class /\ d.place = t.place]_vars

\* What holds of any frames, whichever cheapest pairing is chosen.
Identified == [](TypeOK /\ TrackedIsSeen) /\ ClassKept /\ WeakNeverRevives
=============================================================================
