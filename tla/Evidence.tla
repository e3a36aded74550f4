------------------------------ MODULE Evidence ------------------------------
(***************************************************************************)
(* What the server keeps of the detector's results: one event when a class *)
(* appears, and review images that do not show the same thing again and    *)
(* again (server/app/services/runtime.py, _on_vision_result).              *)
(*                                                                         *)
(* The pipeline awaits its listener before the next result, so a result is *)
(* one step here, one unit of frame time after the last; saving an image   *)
(* may fail in it.  Times are kept as ages, cut off where the code no      *)
(* longer tells them apart.  Two boxes are the same evidence when they     *)
(* have the same place (they overlap and look alike).                      *)
(***************************************************************************)
EXTENDS Integers, FiniteSets

CONSTANTS
  Boxes,      \* what the detector may see: [class, place, strong], places numbers
  Blank,      \* places whose crop is too small to have a signature
  Rearm,      \* detector.capture_rearm_s
  Repeat,     \* the longer of the two repeat times
  Cap,        \* locations remembered for a key (512)
  MaxFails    \* bound: results whose images cannot be saved

VARIABLES
  lastSeen,    \* _detection_last_seen: the age of the last sighting of a class
  memory,      \* _evidence_history: key -> entries [age, place]
  suppressed,  \* _evidence_suppressed: the keys whose count is not zero
  told,        \* history: the classes the last result made an event of
  away,        \* history: results since the class was observed
  fails,       \* the results whose images could not be saved
  quiet,       \* history: the longest away since the class was told of
  shots        \* history: the images tried within Repeat, [key, age, news, kept]

vars == <<lastSeen, memory, suppressed, told, away, fails, quiet, shots>>

Classes == {b.class : b \in Boxes}
Keys == {"detection", "motion-rescan"} \X Classes
Older(age, limit) == IF age < limit THEN age + 1 ELSE limit

Init ==
  /\ lastSeen = [c \in Classes |-> Rearm + 1]
  /\ memory = [k \in Keys |-> {}]
  /\ suppressed = {} /\ told = {}
  /\ away = [c \in Classes |-> Rearm + 1]
  /\ quiet = [c \in Classes |-> Rearm + 1]
  /\ shots = {} /\ fails = 0

---------------------------------------------------------------------------
(* _suppress_repetitive_evidence; entries carry the age they have now *)

\* The entries still inside the repeat window.
Recent(entries) == {e \in entries : e.age < Repeat}

PlacesOf(boxes, class) == {b.place : b \in {x \in boxes : x.class = class}}

Novel(entries, places) ==
  {p \in places : p \in Blank \/ ~\E e \in entries : e.place = p}

\* Is a frame with these places kept back, for what is remembered?
KeptBack(entries, places) == places # {} /\ entries # {} /\ Novel(entries, places) = {}

New(places) == {[age |-> 0, place |-> p] : p \in places}

\* The end of the list: what has fewer than Cap entries behind it.  Those of
\* one frame stand in the order of their places.
Behind(d, e) == d.age < e.age \/ (d.age = e.age /\ d.place > e.place)
Newest(entries) == {e \in entries : Cardinality({d \in entries : Behind(d, e)}) < Cap}

\* What is remembered after the frame.
SlipRemembersLast(entries, places) ==
  IF KeptBack(entries, places) THEN entries ELSE New(Novel(entries, places) \ Blank)
Remembered(entries, places) ==
  IF KeptBack(entries, places) THEN entries ELSE Newest(entries \cup New(Novel(entries, places) \ Blank))

\* Nothing to judge leaves the memory as it is.
Judge(mem, key, places) == IF places = {} THEN mem ELSE [mem EXCEPT ![key] = Remembered(Recent(@), places)]

Holds(mem, key, places) == KeptBack(Recent(mem[key]), places)

---------------------------------------------------------------------------
(* _on_vision_result; everything is one unit older than at the last result *)

AgedMemory == [k \in Keys |-> {[e EXCEPT !.age = Older(@, Repeat)] : e \in memory[k]}]
AgedShots == {[s EXCEPT !.age = @ + 1] : s \in {t \in shots : t.age + 1 < Repeat}}

\* The classes that were away long enough, and the ages after the frame.
Due(seen) == {c \in seen : Older(lastSeen[c], Rearm + 1) > Rearm}

Seen(seen) == [c \in Classes |-> IF c \in seen THEN 0 ELSE Older(lastSeen[c], Rearm + 1)]

\* An image tried now; its news is what the memory did not hold.
Shot(mem, key, places, kept) ==
  [key |-> key, age |-> 0, news |-> Novel(Recent(mem[key]), places), kept |-> kept]

\* _save_motion_evidence for what the rescan found, a class or "none": the
\* memory, the counters and the shots after it.  Only a saved image has the
\* event that takes the count.
Rescan(class, boxes, saved, mem, aged) ==
  LET key == <<"motion-rescan", class>>
      places == PlacesOf(boxes, class)
  IN IF class = "none" THEN [mem |-> mem, held |-> suppressed, shots |-> aged]
     ELSE IF Holds(mem, key, places)
     THEN [mem |-> Judge(mem, key, places), held |-> suppressed \cup {key}, shots |-> aged]
     ELSE [mem |-> Judge(mem, key, places),
           held |-> IF saved THEN suppressed \ {key} ELSE suppressed,
           shots |-> aged \cup {Shot(mem, key, places, saved)}]

\* A result: the proposals, whether capturing is on, the due class of the best
\* box, what the rescan found, and whether saving works, when it is tried.
Result ==
  \E mem \in {AgedMemory}, aged \in {AgedShots}, boxes \in SUBSET Boxes,
     capturing, saved \in BOOLEAN, found \in Classes \cup {"none"} :
    /\ ~saved => fails < MaxFails
    /\ fails' = IF saved THEN fails ELSE fails + 1
    /\ found # "none" => PlacesOf(boxes, found) # {}
    /\ LET seen == {b.class : b \in {x \in boxes : capturing \/ x.strong}}
           due == Due(seen)
           first == Rescan(found, boxes, saved, mem, aged)
       IN /\ lastSeen' = Seen(seen)
          /\ told' = due
          /\ away' = [c \in Classes |-> IF c \in seen THEN 0 ELSE Older(away[c], Rearm + 1)]
          /\ quiet' = [c \in Classes |-> IF c \in due THEN 0
                         ELSE IF Older(away[c], Rearm + 1) > quiet[c] THEN Older(away[c], Rearm + 1) ELSE quiet[c]]
          /\ \E best \in IF due = {} \/ ~capturing THEN {"none"} ELSE due :
               LET key == <<"detection", best>>
                   places == PlacesOf(boxes, best)
                   held == best # "none" /\ Holds(first.mem, key, places)
               IN /\ memory' = IF best = "none" THEN first.mem ELSE Judge(first.mem, key, places)
                  /\ shots' = IF best = "none" \/ held THEN first.shots
                              ELSE first.shots \cup {Shot(first.mem, key, places, saved)}
                  /\ suppressed' = first.held \ {<<"detection", c>> : c \in due}
                  /\ ~saved => \E s \in shots' : s.age = 0

Next == Result

Spec == Init /\ [][Next]_vars

---------------------------------------------------------------------------
(* Properties *)

TypeOK ==
  /\ lastSeen \in [Classes -> 0..Rearm + 1] /\ suppressed \subseteq Keys /\ fails \in 0..MaxFails
  /\ \A k \in Keys : /\ Cardinality(memory[k]) <= Cap
                     /\ \A e \in memory[k] : e.age \in 0..Repeat /\ e.place \notin Blank

\* A class that stays in sight is told of once, however long it stays; it is
\* told of again exactly when it was away for longer than the rearm time
\* (_on_vision_result, _detection_last_seen).
OncePerVisit ==
  [][ \A c \in Classes :
        /\ c \in told' => quiet[c] > Rearm \/ Older(away[c], Rearm + 1) > Rearm
        /\ away'[c] = 0 /\ Older(away[c], Rearm + 1) > Rearm => c \in told' ]_vars

\* Every image of a key is taken for some place, and for the same place only
\* once in the repeat time, also when two static places take turns (the
\* docstring: alternating static false positives cannot evade suppression).
\* Cap holds every place here; a place the full memory has dropped is early.
EachImageIsNews ==
  \A s \in shots :
    /\ s.news # {}
    /\ \A o \in shots : o.key = s.key /\ o.age > s.age => o.news \cap s.news \subseteq Blank

\* A box is held back only for an image tried within the repeat time: only an
\* image renews a location, another sighting does not, so a place that stays
\* occupied is imaged again.
HeldWasTried ==
  \A k \in Keys : \A e \in memory[k] : e.age < Repeat =>
    \E s \in shots : s.key = k /\ s.age = e.age /\ e.place \in s.news

\* What the docstring says, "The first box at a location is saved
\* immediately": a remembered location has an image.  The location is
\* remembered before the image is saved, and stays so when saving fails.
RememberedHasImage ==
  \A k \in Keys : \A e \in memory[k] : e.age < Repeat =>
    \E s \in shots : s.key = k /\ s.kept /\ e.place \in s.news

\* All that holds, of a memory of any length.
Kept == [](TypeOK /\ HeldWasTried) /\ OncePerVisit
=============================================================================
